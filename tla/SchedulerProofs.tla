-------------------------- MODULE SchedulerProofs ---------------------------
(***************************************************************************)
(* Proofs about Scheduler for every size of the task table: the invariant  *)
(* that makes the context switch safe, that the scheduler implements round *)
(* robin, and that only the desktop creates tasks and loads programs.      *)
(***************************************************************************)
EXTENDS Scheduler, TLAPS

(* Places in the code of the desktop only. *)
DesktopPc == {"boot", "call", "limit", "frame", "sleep", "dozing", "zero",
              "copy"}

(* Code that is entered through int 0x80 when it calls the kernel.         *)
GateCode == {"syscaller", "app"}

(* Which registers a context may hold that has h frames below it.          *)
Shape(c, h) ==
  /\ h \in {0, 1}
  /\ c.pc \in DesktopPc => c.code = "main" /\ h = 0
  /\ c.pc = "user" => h = 0
  /\ c.pc = "sys" => h = 1 /\ c.code \in GateCode
  /\ c.pc \in {"halted", "woken"} =>
       /\ c.code # "main"
       /\ h = 1 => c.code \in GateCode
       /\ h = 0 => c.code = "worker"
  /\ c.pc \in {"sys", "limit", "frame", "boot"} => c.if = 0
  /\ c.pc \notin {"sys", "limit", "frame", "boot", "call"} => c.if = 1

(* The frame of the system-call gate: user code of the same program.       *)
GateFrame(f, c) == f.pc = "user" /\ f.if = 1 /\ f.code = c.code

TaskSound(t) ==
  /\ Shape(TopContext(t), Below(t))
  /\ Below(t) = 1 => GateFrame(mem[t][1], TopContext(t))

(* A waiting task can be resumed: rsp names a frame on its own stack.      *)
Resumable(t) == /\ tasks[t].rsp.stk = t
                /\ tasks[t].rsp.h \in {1, 2}
                /\ FrameAt(mem, tasks[t].rsp).if = 1

Running == /\ current_task < num_tasks
           /\ sp.stk = current_task

Waiting == \A t \in TaskIds \ {current_task} : t < num_tasks => Resumable(t)

Sound == \A t \in TaskIds : t < num_tasks => TaskSound(t)

AllActive == cpu.pc = "boot" \/ \A t \in TaskIds : t < num_tasks => tasks[t].active = 1

Booting == cpu.pc = "boot" => current_task = 0 /\ num_tasks = 1

(* Between building the frame of the new task and entering it in the table *)
Creating == cpu.pc = "frame" => /\ num_tasks < MaxTasks
                                /\ mem[num_tasks][1] = FreshFrame(entry)

IInv == /\ TypeOK /\ Running /\ Waiting /\ Sound /\ AllActive /\ Booting
        /\ Creating
-----------------------------------------------------------------------------

LEMMA InitIInv == Init => IInv
<1> SUFFICES ASSUME Init PROVE IInv
  OBVIOUS
<1> USE SchedulerConstants DEF Init, TaskIds
<1>1. cpu \in Context
  BY DEF Context, Code, Pc, Bit
<1>2. sp \in Rsp /\ tasks \in [TaskIds -> [rsp : Rsp, active : Bit]]
  BY DEF Rsp, NoRsp, Heights, Bit
<1>3. mem \in [TaskIds -> [Heights -> Context]]
  BY DEF Context, Code, Pc, Bit, FreshFrame, Heights
<1>4. TypeOK
  BY <1>1, <1>2, <1>3 DEF TypeOK, Code, Bit
<1>5. Sound
  BY DEF Sound, TaskSound, Shape, TopContext, Below, DesktopPc
<1>6. Running /\ Waiting /\ AllActive /\ Booting /\ Creating
  BY DEF Running, Waiting, AllActive, Booting, Creating
<1>7. QED
  BY <1>4, <1>5, <1>6 DEF IInv

(* Facts about the running task that the steps below start from.           *)
LEMMA CurrentShape ==
  ASSUME IInv
  PROVE  /\ current_task \in TaskIds
         /\ Shape(cpu, sp.h)
         /\ sp.h = 1 => GateFrame(mem[current_task][1], cpu)
BY DEF IInv, TypeOK, Running, Sound, TaskSound, TopContext, Below

(* A step of the running task that stays within its stack frame.           *)
LEMMA QuietStep ==
  ASSUME IInv,
         UNCHANGED <<sp, mem, num_tasks, current_task>>,
         \A t \in TaskIds : tasks'[t].rsp = tasks[t].rsp,
         cpu' \in Context,
         cpu'.code = cpu.code,
         Shape(cpu', sp.h)
  PROVE  Running' /\ Waiting' /\ Sound'
<1>1. Running' /\ Waiting'
  BY DEF IInv, Running, Waiting, Resumable, FrameAt
<1>2. ASSUME NEW t \in TaskIds, t < num_tasks PROVE TaskSound(t)'
  <2>1. TaskSound(t)
    BY <1>2 DEF IInv, Sound
  <2>2. CASE t = current_task
    BY <2>1, <2>2, CurrentShape DEF TaskSound, TopContext, Below, GateFrame, Shape
  <2>3. CASE t # current_task
    BY <2>1, <2>3 DEF TaskSound, TopContext, Below, GateFrame, Shape, FrameAt
  <2>4. QED
    BY <2>2, <2>3
<1>3. QED
  BY <1>1, <1>2 DEF Sound

(* Every step but the ones that push, pop or build a frame is quiet.       *)
LEMMA QuietActions ==
  ASSUME IInv,
         \/ TimerTick \/ StartMultitasking \/ CreateCli
         \/ CreateFrame /\ num_tasks >= MaxTasks
         \/ UserWork \/ WorkerYield \/ WorkerResumes \/ SyscallYield
         \/ SpawnCommand \/ OpenBin \/ LoadZero \/ LoadCopy
         \/ SleepBegin \/ SleepLoop
  PROVE  IInv'
<1> USE SchedulerConstants DEF Context, Code, Pc, Bit, TaskIds
<1> DEFINE Quiet == /\ UNCHANGED <<sp, mem, num_tasks, current_task>>
                    /\ \A t \in TaskIds : tasks'[t].rsp = tasks[t].rsp
                    /\ cpu' \in Context
                    /\ cpu'.code = cpu.code
                    /\ Shape(cpu', sp.h)
           Rest == TypeOK' /\ AllActive' /\ Booting' /\ Creating'
<1>0. /\ cpu \in Context /\ Shape(cpu, sp.h)
      /\ TypeOK /\ AllActive /\ Booting /\ Creating /\ Running
  BY CurrentShape DEF IInv, TypeOK
<1>1. CASE TimerTick
  <2>1. Quiet
    BY <1>0, <1>1 DEF TimerTick, Shape, DesktopPc, GateCode, TypeOK
  <2>2. Rest
    BY <1>0, <2>1, <1>1 DEF TimerTick, TypeOK, AllActive, Booting, Creating, Running
  <2>3. QED
    BY <2>1, <2>2, QuietStep DEF IInv
<1>2. CASE StartMultitasking
  <2>0. /\ tasks' \in [TaskIds -> [rsp : Rsp, active : Bit]]
        /\ \A t \in TaskIds : tasks'[t].rsp = tasks[t].rsp
    BY <1>0, <1>2 DEF StartMultitasking, TypeOK
  <2>1. Quiet
    BY <2>0, <1>0, <1>2 DEF StartMultitasking, Shape, DesktopPc, GateCode, TypeOK
  <2>2. Rest
    BY <2>0, <1>0, <2>1, <1>2 DEF StartMultitasking, TypeOK, AllActive, Booting, Creating, Running
  <2>3. QED
    BY <2>1, <2>2, QuietStep DEF IInv
<1>3. CASE CreateCli
  <2>1. Quiet
    BY <1>0, <1>3 DEF CreateCli, EnterCreate, Shape, DesktopPc, GateCode, TypeOK
  <2>2. Rest
    BY <1>0, <2>1, <1>3 DEF CreateCli, EnterCreate, TypeOK, AllActive, Booting, Creating, Running
  <2>3. QED
    BY <2>1, <2>2, QuietStep DEF IInv
<1>4. CASE CreateFrame /\ num_tasks >= MaxTasks
  <2>1. Quiet
    BY <1>0, <1>4 DEF CreateFrame, Refuse, Shape, DesktopPc, GateCode, TypeOK
  <2>2. Rest
    BY <1>0, <2>1, <1>4 DEF CreateFrame, Refuse, TypeOK, AllActive, Booting,
       Creating, Running
  <2>3. QED
    BY <2>1, <2>2, QuietStep DEF IInv
<1>5. CASE UserWork
  <2>0. (cpu.work + 1) % WorkMod \in 0 .. WorkMod - 1
    BY <1>0
  <2>1. Quiet
    BY <2>0, <1>0, <1>5 DEF UserWork, Shape, DesktopPc, GateCode, TypeOK
  <2>2. Rest
    BY <2>0, <1>0, <2>1, <1>5 DEF UserWork, TypeOK, AllActive, Booting, Creating, Running
  <2>3. QED
    BY <2>1, <2>2, QuietStep DEF IInv
<1>6. CASE WorkerYield
  <2>0. /\ cpu' \in Context /\ cpu'.code = cpu.code
        /\ cpu'.pc = "halted" /\ cpu'.if = 1
    BY <1>0, <1>6 DEF WorkerYield, YieldHalt
  <2>1. Quiet
    BY <2>0, <1>0, <1>6 DEF WorkerYield, YieldHalt, Shape, DesktopPc, GateCode, TypeOK
  <2>2. Rest
    BY <2>0, <1>0, <2>1, <1>6 DEF WorkerYield, YieldHalt, TypeOK, AllActive, Booting, Creating, Running
  <2>3. QED
    BY <2>1, <2>2, QuietStep DEF IInv
<1>7. CASE WorkerResumes
  <2>1. Quiet
    BY <1>0, <1>7 DEF WorkerResumes, Shape, DesktopPc, GateCode, TypeOK
  <2>2. Rest
    BY <1>0, <2>1, <1>7 DEF WorkerResumes, TypeOK, AllActive, Booting, Creating, Running
  <2>3. QED
    BY <2>1, <2>2, QuietStep DEF IInv
<1>8. CASE SyscallYield
  <2>0. /\ cpu' \in Context /\ cpu'.code = cpu.code
        /\ cpu'.pc = "halted" /\ cpu'.if = 1
    BY <1>0, <1>8 DEF SyscallYield, YieldHalt
  <2>1. Quiet
    BY <2>0, <1>0, <1>8 DEF SyscallYield, YieldHalt, Shape, DesktopPc, GateCode, TypeOK
  <2>2. Rest
    BY <2>0, <1>0, <2>1, <1>8 DEF SyscallYield, YieldHalt, TypeOK, AllActive, Booting, Creating, Running
  <2>3. QED
    BY <2>1, <2>2, QuietStep DEF IInv
<1>9. CASE SpawnCommand
  <2>1. Quiet
    BY <1>0, <1>9 DEF SpawnCommand, InDesktop, Shape, DesktopPc, GateCode, TypeOK
  <2>2. Rest
    BY <1>0, <2>1, <1>9 DEF SpawnCommand, InDesktop, TypeOK, AllActive, Booting, Creating, Running
  <2>3. QED
    BY <2>1, <2>2, QuietStep DEF IInv
<1>10. CASE OpenBin
  <2>1. Quiet
    BY <1>0, <1>10 DEF OpenBin, InDesktop, Shape, DesktopPc, GateCode, TypeOK
  <2>2. Rest
    BY <1>0, <2>1, <1>10 DEF OpenBin, InDesktop, TypeOK, AllActive, Booting, Creating, Running
  <2>3. QED
    BY <2>1, <2>2, QuietStep DEF IInv
<1>11. CASE LoadZero
  <2>1. Quiet
    BY <1>0, <1>11 DEF LoadZero, Shape, DesktopPc, GateCode, TypeOK
  <2>2. Rest
    BY <1>0, <2>1, <1>11 DEF LoadZero, TypeOK, AllActive, Booting, Creating, Running
  <2>3. QED
    BY <2>1, <2>2, QuietStep DEF IInv
<1>12. CASE LoadCopy
  <2>1. Quiet
    BY <1>0, <1>12 DEF LoadCopy, Shape, DesktopPc, GateCode, TypeOK
  <2>2. Rest
    BY <1>0, <2>1, <1>12 DEF LoadCopy, TypeOK, AllActive, Booting, Creating, Running
  <2>3. QED
    BY <2>1, <2>2, QuietStep DEF IInv
<1>13. CASE SleepBegin
  <2>1. Quiet
    BY <1>0, <1>13 DEF SleepBegin, InDesktop, Shape, DesktopPc, GateCode, TypeOK
  <2>2. Rest
    BY <1>0, <2>1, <1>13 DEF SleepBegin, InDesktop, TypeOK, AllActive, Booting, Creating, Running
  <2>3. QED
    BY <2>1, <2>2, QuietStep DEF IInv
<1>14. CASE SleepLoop
  <2>1. Quiet
    BY <1>0, <1>14 DEF SleepLoop, Shape, DesktopPc, GateCode, TypeOK
  <2>2. Rest
    BY <1>0, <2>1, <1>14 DEF SleepLoop, TypeOK, AllActive, Booting, Creating, Running
  <2>3. QED
    BY <2>1, <2>2, QuietStep DEF IInv
<1>15. QED
  BY <1>1, <1>2, <1>3, <1>4, <1>5, <1>6, <1>7, <1>8, <1>9, <1>10, <1>11, <1>12, <1>13, <1>14


(* A push changes one place of one stack.                                  *)
LEMMA PushedFacts ==
  ASSUME mem \in [TaskIds -> [Heights -> Context]],
         NEW r \in Rsp, r.h \in {0, 1, 2}, NEW c \in Context
  PROVE  /\ Pushed(mem, r, c) \in [TaskIds -> [Heights -> Context]]
         /\ \A t \in TaskIds : t # r.stk => Pushed(mem, r, c)[t] = mem[t]
         /\ Pushed(mem, r, c)[r.stk][r.h + 1] = c
         /\ \A h \in Heights :
              h # r.h + 1 => Pushed(mem, r, c)[r.stk][h] = mem[r.stk][h]
BY DEF Pushed, Rsp, Heights

(* Building the first frame of a task touches no existing task's stack.    *)
LEMMA CreateFrameIInv == 
  ASSUME IInv, CreateFrame, num_tasks < MaxTasks
  PROVE  IInv'
<1> USE SchedulerConstants DEF Context, Code, Pc, Bit, TaskIds
<1>0. /\ cpu \in Context /\ Shape(cpu, sp.h)
      /\ TypeOK /\ AllActive /\ Booting /\ Creating /\ Running
      /\ num_tasks \in TaskIds
  BY CurrentShape DEF IInv, TypeOK
<1>1. /\ cpu' \in Context /\ cpu'.code = cpu.code
      /\ cpu'.pc = "frame" /\ cpu'.if = cpu.if
  BY <1>0 DEF CreateFrame, BuildFrame
<1>2. Shape(cpu', sp.h)
  BY <1>0, <1>1, CurrentShape DEF CreateFrame, Shape, DesktopPc
<1>3. FreshFrame(entry) \in Context
  BY <1>0 DEF FreshFrame, TypeOK
<1>4. /\ mem' \in [TaskIds -> [Heights -> Context]]
      /\ \A t \in TaskIds : t # num_tasks => mem'[t] = mem[t]
      /\ mem'[num_tasks][1] = FreshFrame(entry)
  <2>1. /\ NewStack(num_tasks) \in Rsp /\ NewStack(num_tasks).stk = num_tasks
        /\ NewStack(num_tasks).h = 0
    BY <1>0 DEF NewStack, Rsp, Heights
  <2>2. mem' = Pushed(mem, NewStack(num_tasks), FreshFrame(entry))
    BY <1>0 DEF CreateFrame, BuildFrame, TypeOK
  <2>3. /\ mem' \in [TaskIds -> [Heights -> Context]]
        /\ \A t \in TaskIds : t # num_tasks => mem'[t] = mem[t]
        /\ mem'[num_tasks][0 + 1] = FreshFrame(entry)
    <3> HIDE DEF Context, TaskIds
    <3>1. mem \in [TaskIds -> [Heights -> Context]]
      BY <1>0 DEF TypeOK
    <3>2. QED
      BY <1>3, <2>1, <2>2, <3>1, PushedFacts
  <2>4. QED
    BY <2>3
<1>5. Running' /\ Waiting'
  <2>1. UNCHANGED <<num_tasks, current_task, sp, tasks>>
    BY DEF CreateFrame
  <2>2. ASSUME NEW t \in TaskIds \ {current_task}, t < num_tasks
        PROVE  Resumable(t)'
    <3>1. Resumable(t) /\ mem'[t] = mem[t]
      BY <1>0, <1>4, <2>2 DEF IInv, Waiting
    <3>2. QED
      BY <2>1, <3>1 DEF Resumable, FrameAt
  <2>3. QED
    BY <1>0, <2>1, <2>2 DEF Running, Waiting
<1>6. ASSUME NEW t \in TaskIds, t < num_tasks PROVE TaskSound(t)'
  <2>1. TaskSound(t) /\ mem'[t] = mem[t] /\ tasks'[t] = tasks[t]
    BY <1>0, <1>4, <1>6 DEF IInv, Sound, CreateFrame, TypeOK
  <2>2. CASE t = current_task
    BY <1>1, <1>2, <2>1, <2>2, CurrentShape
       DEF CreateFrame, TaskSound, TopContext, Below, GateFrame
  <2>3. CASE t # current_task
    <3>1. tasks[t].rsp.stk = t
      BY <1>6, <2>3 DEF IInv, Waiting, Resumable
    <3>2. QED
      BY <2>1, <2>3, <3>1
         DEF CreateFrame, TaskSound, TopContext, Below, GateFrame, FrameAt
  <2>4. QED
    BY <2>2, <2>3
<1>7. Sound'
  BY <1>6 DEF Sound, CreateFrame
<1>8. TypeOK' /\ AllActive' /\ Booting' /\ Creating'
  BY <1>0, <1>1, <1>4
     DEF CreateFrame, TypeOK, AllActive, Booting, Creating, FreshFrame
<1>9. QED
  BY <1>5, <1>7, <1>8 DEF IInv

(* The task enters the table with its first frame in place.                *)
LEMMA CreateRegisterIInv == ASSUME IInv, CreateRegister PROVE IInv'
<1> USE SchedulerConstants DEF Context, Code, Pc, Bit, TaskIds
<1>0. /\ cpu \in Context /\ Shape(cpu, sp.h)
      /\ TypeOK /\ AllActive /\ Booting /\ Creating /\ Running
      /\ num_tasks \in TaskIds
      /\ mem[num_tasks][1] = FreshFrame(entry)
  BY CurrentShape DEF IInv, TypeOK, CreateRegister, Creating
<1>1. /\ cpu' \in Context /\ cpu'.code = cpu.code
      /\ cpu'.pc = "user" /\ cpu'.if = 1
  BY <1>0 DEF CreateRegister
<1>2. Shape(cpu', sp.h)
  BY <1>0, <1>1 DEF CreateRegister, Shape, DesktopPc
<1>3. Grown(NewStack(num_tasks)) \in Rsp
      /\ Grown(NewStack(num_tasks)) = [stk |-> num_tasks, h |-> 1]
  BY <1>0 DEF Grown, NewStack, Rsp, Heights
<1>4. /\ tasks' \in [TaskIds -> [rsp : Rsp, active : Bit]]
      /\ \A t \in TaskIds : t # num_tasks => tasks'[t] = tasks[t]
      /\ tasks'[num_tasks].rsp = [stk |-> num_tasks, h |-> 1]
      /\ tasks'[num_tasks].active = 1
  BY <1>0, <1>3 DEF CreateRegister, TypeOK
<1>5. /\ UNCHANGED <<mem, sp, current_task, entry>>
      /\ num_tasks' = num_tasks + 1
      /\ current_task # num_tasks
  BY <1>0 DEF CreateRegister, Running, TypeOK
<1>6. ASSUME NEW t \in TaskIds, t < num_tasks'
      PROVE  TaskSound(t)' /\ (t # current_task => Resumable(t)')
  <2>1. CASE t = num_tasks
    <3>1. /\ TopContext(t)' = FreshFrame(entry)
          /\ Below(t)' = 0
          /\ Resumable(t)'
      BY <1>0, <1>4, <1>5, <2>1
         DEF TopContext, Below, FrameAt, FreshFrame, Resumable
    <3>2. Shape(FreshFrame(entry), 0)
      BY DEF Shape, FreshFrame, DesktopPc
    <3>3. QED
      BY <3>1, <3>2 DEF TaskSound
  <2>2. CASE t = current_task
    BY <1>0, <1>1, <1>2, <1>5, <2>2, CurrentShape
       DEF TaskSound, TopContext, Below, GateFrame
  <2>3. CASE t # current_task /\ t # num_tasks
    <3>1. TaskSound(t) /\ tasks'[t] = tasks[t] /\ Resumable(t)
      BY <1>0, <1>4, <1>5, <1>6, <2>3 DEF IInv, Sound, Waiting, TypeOK
    <3>2. QED
      BY <1>5, <2>3, <3>1
         DEF TaskSound, TopContext, Below, GateFrame, FrameAt, Resumable
  <2>4. QED
    BY <2>1, <2>2, <2>3
<1>7. Sound' /\ Waiting' /\ Running'
  BY <1>0, <1>5, <1>6 DEF Sound, Waiting, Running, TypeOK
<1>8. TypeOK' /\ AllActive' /\ Booting' /\ Creating'
  BY <1>0, <1>1, <1>4, <1>5
     DEF CreateRegister, TypeOK, AllActive, Booting, Creating
<1>9. QED
  BY <1>7, <1>8 DEF IInv

(* int 0x80 puts the caller's registers in the first frame of its stack.   *)
LEMMA SyscallEnterIInv == ASSUME IInv, SyscallEnter PROVE IInv'
<1> USE SchedulerConstants DEF Context, Code, Pc, Bit, TaskIds
<1>0. /\ cpu \in Context /\ Shape(cpu, sp.h)
      /\ TypeOK /\ AllActive /\ Booting /\ Creating /\ Running
      /\ cpu.pc = "user" /\ cpu.if = 1
      /\ sp = [stk |-> current_task, h |-> 0]
      /\ current_task \in TaskIds
  <2>1. /\ cpu \in Context /\ Shape(cpu, sp.h)
        /\ TypeOK /\ AllActive /\ Booting /\ Creating /\ Running
        /\ current_task \in TaskIds
    BY CurrentShape DEF IInv, TypeOK
  <2>2. cpu.pc = "user" /\ cpu.if = 1 /\ sp.h = 0 /\ sp.stk = current_task
    BY <2>1 DEF SyscallEnter, Shape, Running
  <2>3. QED
    BY <2>1, <2>2 DEF TypeOK, Rsp
<1>1. /\ cpu' \in Context /\ cpu'.code = cpu.code
      /\ cpu'.pc = "sys" /\ cpu'.if = 0
  <2>1. Scratch(cpu) \in Context /\ Scratch(cpu).code = cpu.code
    BY <1>0 DEF Scratch
  <2>2. QED
    BY <2>1 DEF SyscallEnter
<1>2. Shape(cpu', 1)
  BY <1>0, <1>1 DEF SyscallEnter, Shape, DesktopPc, GateCode
<1>3. sp' = [stk |-> current_task, h |-> 1] /\ sp' \in Rsp
  BY <1>0 DEF SyscallEnter, Grown, Rsp, Heights
<1>4. /\ mem' \in [TaskIds -> [Heights -> Context]]
      /\ \A t \in TaskIds : t # current_task => mem'[t] = mem[t]
      /\ mem'[current_task][1] = cpu
  <2>1. /\ mem' = Pushed(mem, sp, cpu)
        /\ sp.stk = current_task /\ sp.h = 0 /\ sp \in Rsp
        /\ mem \in [TaskIds -> [Heights -> Context]]
    BY <1>0 DEF SyscallEnter, TypeOK
  <2>2. /\ mem' \in [TaskIds -> [Heights -> Context]]
        /\ \A t \in TaskIds : t # current_task => mem'[t] = mem[t]
        /\ mem'[current_task][0 + 1] = cpu
    <3> HIDE DEF Context, TaskIds
    <3>1. QED
      BY <1>0, <2>1, PushedFacts
  <2>3. QED
    BY <2>2
<1>5. UNCHANGED <<num_tasks, current_task, tasks, entry, wake_in, irr,
                  in_service, ram, launches>>
  BY DEF SyscallEnter
<1>6. Running' /\ Waiting'
  <2>1. ASSUME NEW t \in TaskIds \ {current_task}, t < num_tasks
        PROVE  Resumable(t)'
    <3>1. Resumable(t) /\ mem'[t] = mem[t]
      BY <1>4, <2>1 DEF IInv, Waiting
    <3>2. QED
      BY <1>5, <3>1 DEF Resumable, FrameAt
  <2>2. QED
    BY <1>0, <1>3, <1>5, <2>1 DEF Running, Waiting
<1>7. ASSUME NEW t \in TaskIds, t < num_tasks PROVE TaskSound(t)'
  <2>1. CASE t = current_task
    BY <1>0, <1>1, <1>2, <1>3, <1>4, <1>5, <2>1
       DEF TaskSound, TopContext, Below, GateFrame
  <2>2. CASE t # current_task
    <3>1. TaskSound(t) /\ mem'[t] = mem[t] /\ tasks[t].rsp.stk = t
      BY <1>4, <1>7, <2>2 DEF IInv, Sound, Waiting, Resumable
    <3>2. QED
      BY <1>5, <2>2, <3>1 DEF TaskSound, TopContext, Below, GateFrame, FrameAt
  <2>3. QED
    BY <2>1, <2>2
<1>8. Sound'
  BY <1>5, <1>7 DEF Sound
<1>9. TypeOK' /\ AllActive' /\ Booting' /\ Creating'
  BY <1>0, <1>1, <1>3, <1>4, <1>5
     DEF TypeOK, AllActive, Booting, Creating
<1>10. QED
  BY <1>6, <1>8, <1>9 DEF IInv

(* iretq of the gate takes them back.                                      *)
LEMMA SyscallReturnIInv == ASSUME IInv, SyscallReturn PROVE IInv'
<1> USE SchedulerConstants DEF Context, Code, Pc, Bit, TaskIds
<1>1. /\ TypeOK /\ AllActive /\ Booting /\ Creating /\ Running
      /\ current_task \in TaskIds
      /\ sp = [stk |-> current_task, h |-> 1]
  <2>1. /\ TypeOK /\ AllActive /\ Booting /\ Creating /\ Running
        /\ current_task \in TaskIds /\ Shape(cpu, sp.h)
    BY CurrentShape DEF IInv, TypeOK
  <2>2. sp.h = 1 /\ sp.stk = current_task
    BY <2>1 DEF SyscallReturn, Shape, Running
  <2>3. QED
    BY <2>1, <2>2 DEF TypeOK, Rsp
<1>2. /\ cpu' = mem[current_task][1] /\ GateFrame(cpu', cpu)
      /\ cpu' \in Context
  <2>1. cpu' = mem[current_task][1] /\ sp.h = 1
    BY <1>1 DEF SyscallReturn, FrameAt
  <2>2. GateFrame(cpu', cpu)
    BY <2>1, CurrentShape
  <2>3. cpu' \in Context
    BY <1>1, <2>1 DEF TypeOK, Heights
  <2>4. QED
    BY <2>1, <2>2, <2>3
<1>3. sp' = [stk |-> current_task, h |-> 0] /\ sp' \in Rsp
  BY <1>1 DEF SyscallReturn, Shrunk, Rsp, Heights
<1>4. Shape(cpu', 0)
  BY <1>2 DEF GateFrame, Shape, DesktopPc
<1>5. UNCHANGED <<mem, num_tasks, current_task, tasks, entry>>
  BY DEF SyscallReturn
<1>6. Running' /\ Waiting'
  BY <1>1, <1>3, <1>5 DEF IInv, Running, Waiting, Resumable, FrameAt
<1>7. ASSUME NEW t \in TaskIds, t < num_tasks PROVE TaskSound(t)'
  <2>1. TaskSound(t)
    BY <1>7 DEF IInv, Sound
  <2>2. CASE t = current_task
    BY <1>3, <1>4, <1>5, <2>2 DEF TaskSound, TopContext, Below
  <2>3. CASE t # current_task
    BY <1>5, <2>1, <2>3 DEF TaskSound, TopContext, Below, GateFrame, FrameAt
  <2>4. QED
    BY <2>2, <2>3
<1>8. Sound'
  BY <1>5, <1>7 DEF Sound
<1>9. TypeOK' /\ AllActive' /\ Booting' /\ Creating'
  BY <1>1, <1>2, <1>3, <1>5
     DEF SyscallReturn, GateFrame, TypeOK, AllActive, Booting, Creating
<1>10. QED
  BY <1>6, <1>8, <1>9 DEF IInv

(* What the timer interrupt saves is the context of a task that is not in  *)
(* hlt any more, and of the same program.                                  *)
LEMMA BehindHltFacts ==
  ASSUME NEW c \in Context, NEW h \in {0, 1}, Shape(c, h), c.if = 1
  PROVE  /\ BehindHlt(c) \in Context
         /\ BehindHlt(c).code = c.code
         /\ BehindHlt(c).work = c.work
         /\ BehindHlt(c).if = 1
         /\ BehindHlt(c).pc \notin {"boot", "limit", "frame"}
         /\ Shape(BehindHlt(c), h)
<1> USE DEF Context, Pc
<1>1. CASE c.pc = "halted"
  BY <1>1 DEF BehindHlt, Shape, DesktopPc
<1>2. CASE c.pc = "dozing"
  BY <1>2 DEF BehindHlt, Shape, DesktopPc
<1>3. CASE c.pc \notin {"halted", "dozing"}
  BY <1>3 DEF BehindHlt, Shape, DesktopPc
<1>4. QED
  BY <1>1, <1>2, <1>3

(* The timer interrupt: what it stores, and whom it picks.                 *)
LEMMA PitFacts ==
  ASSUME IInv, PitIsr
  PROVE  /\ mem' \in [TaskIds -> [Heights -> Context]]
         /\ \A t \in TaskIds : t # current_task => mem'[t] = mem[t]
         /\ mem'[current_task][sp.h + 1] = BehindHlt(cpu)
         /\ sp.h = 1 => mem'[current_task][1] = mem[current_task][1]
         /\ tasks' \in [TaskIds -> [rsp : Rsp, active : Bit]]
         /\ \A t \in TaskIds : /\ t # current_task => tasks'[t] = tasks[t]
                               /\ tasks'[t].active = tasks[t].active
         /\ tasks'[current_task].rsp = [stk |-> current_task, h |-> sp.h + 1]
         /\ current_task' \in TaskIds /\ current_task' < num_tasks
         /\ cpu' = FrameAt(mem', tasks'[current_task'].rsp)
         /\ sp' = Shrunk(tasks'[current_task'].rsp)
         /\ cpu.if = 1 /\ sp.h \in {0, 1}
<1> USE SchedulerConstants DEF TaskIds
<1>0. /\ cpu \in Context /\ Shape(cpu, sp.h) /\ cpu.if = 1
      /\ TypeOK /\ Running /\ current_task \in TaskIds /\ sp.h \in {0, 1}
      /\ sp = [stk |-> current_task, h |-> sp.h]
  <2>1. /\ cpu \in Context /\ Shape(cpu, sp.h) /\ cpu.if = 1
        /\ TypeOK /\ Running /\ current_task \in TaskIds
    BY CurrentShape DEF IInv, TypeOK, PitIsr
  <2>2. sp.h \in {0, 1} /\ sp.stk = current_task /\ sp \in Rsp
    BY <2>1 DEF Shape, Running, TypeOK
  <2>3. QED
    BY <2>1, <2>2 DEF Rsp
<1>1. BehindHlt(cpu) \in Context
  BY <1>0, BehindHltFacts
<1>2. /\ mem' \in [TaskIds -> [Heights -> Context]]
      /\ \A t \in TaskIds : t # current_task => mem'[t] = mem[t]
      /\ mem'[current_task][sp.h + 1] = BehindHlt(cpu)
      /\ sp.h = 1 => mem'[current_task][1] = mem[current_task][1]
  <2>1. /\ mem' = Pushed(mem, sp, BehindHlt(cpu))
        /\ sp \in Rsp /\ sp.h \in {0, 1, 2} /\ sp.stk = current_task
        /\ mem \in [TaskIds -> [Heights -> Context]]
    BY <1>0 DEF PitIsr, TypeOK
  <2>2. 1 \in Heights /\ (sp.h = 1 => 1 # sp.h + 1)
    BY DEF Heights
  <2>3. QED
    <3> HIDE DEF TaskIds
    <3>1. QED
      BY <1>1, <2>1, <2>2, PushedFacts
<1>3. /\ Grown(sp) = [stk |-> current_task, h |-> sp.h + 1]
      /\ Grown(sp) \in Rsp
  BY <1>0 DEF Grown, Rsp, Heights
<1>4. tasks' = [tasks EXCEPT ![current_task].rsp = Grown(sp)]
  BY DEF PitIsr, Saved
<1>5. /\ tasks' \in [TaskIds -> [rsp : Rsp, active : Bit]]
      /\ \A t \in TaskIds : /\ t # current_task => tasks'[t] = tasks[t]
                            /\ tasks'[t].active = tasks[t].active
      /\ tasks'[current_task].rsp = Grown(sp)
  <2>1. tasks \in [TaskIds -> [rsp : Rsp, active : Bit]]
    BY <1>0 DEF TypeOK
  <2>2. QED
    BY <1>0, <1>3, <1>4, <2>1
<1>6. /\ current_task' = NextTask(tasks', current_task, num_tasks)
      /\ cpu' = FrameAt(mem', tasks'[current_task'].rsp)
      /\ sp' = Shrunk(tasks'[current_task'].rsp)
  BY DEF PitIsr
<1>7. current_task' \in TaskIds /\ current_task' < num_tasks
  BY <1>0, <1>6 DEF NextTask, TypeOK, Running
<1>8. QED
  BY <1>0, <1>2, <1>3, <1>5, <1>6, <1>7

LEMMA PitIsrIInv == ASSUME IInv, PitIsr PROVE IInv'
<1> USE SchedulerConstants
<1> DEFINE Frame(t) == FrameAt(mem', tasks'[t].rsp)
           Under(t) == tasks'[t].rsp.h - 1
<1>0. /\ cpu \in Context /\ Shape(cpu, sp.h) /\ cpu.if = 1 /\ sp.h \in {0, 1}
      /\ TypeOK /\ AllActive /\ Booting /\ Running
      /\ current_task \in TaskIds
  BY CurrentShape, PitFacts DEF IInv, TypeOK
<1>1. /\ UNCHANGED <<num_tasks, entry, ram, launches>>
      /\ irr' \in Bit /\ in_service' \in Bit /\ wake_in' \in 0 .. MaxSleep
  BY <1>0 DEF PitIsr, Eoi, TypeOK, Bit
<1>2. ASSUME NEW t \in TaskIds, t < num_tasks
      PROVE  /\ tasks'[t].rsp.stk = t /\ tasks'[t].rsp.h \in {1, 2}
             /\ Frame(t) \in Context
             /\ Frame(t).if = 1
             /\ Frame(t).pc \notin {"boot", "limit", "frame"}
             /\ Shape(Frame(t), Under(t))
             /\ Under(t) = 1 => GateFrame(mem'[t][1], Frame(t))
  <2>1. CASE t = current_task
    <3>1. /\ tasks'[t].rsp.stk = t /\ tasks'[t].rsp.h = sp.h + 1
          /\ Frame(t) = BehindHlt(cpu) /\ Under(t) = sp.h
      BY <1>0, <2>1, PitFacts DEF FrameAt
    <3>2. /\ BehindHlt(cpu) \in Context /\ BehindHlt(cpu).code = cpu.code
          /\ BehindHlt(cpu).if = 1
          /\ BehindHlt(cpu).pc \notin {"boot", "limit", "frame"}
          /\ Shape(BehindHlt(cpu), sp.h)
      BY <1>0, BehindHltFacts
    <3>3. sp.h = 1 => GateFrame(mem'[t][1], BehindHlt(cpu))
      BY <2>1, <3>2, CurrentShape, PitFacts DEF GateFrame
    <3>4. QED
      BY <1>0, <3>1, <3>2, <3>3
  <2>2. CASE t # current_task
    <3>1. TaskSound(t) /\ Resumable(t)
      BY <1>2, <2>2 DEF IInv, Sound, Waiting
    <3>2. mem'[t] = mem[t] /\ tasks'[t] = tasks[t]
      BY <2>2, PitFacts
    <3>3. Frame(t) = TopContext(t) /\ Under(t) = Below(t)
      BY <2>2, <3>1, <3>2 DEF TopContext, Below, FrameAt, Resumable
    <3>4. Frame(t) \in Context
      BY <1>0, <3>1, <3>2 DEF FrameAt, Resumable, TypeOK, Heights
    <3>5. Frame(t).if = 1 /\ Shape(Frame(t), Under(t))
      BY <2>2, <3>1, <3>3 DEF TaskSound, Resumable, TopContext
    <3>6. Frame(t).pc \notin {"boot", "limit", "frame"}
      BY <3>5 DEF Shape
    <3>7. Under(t) = 1 => GateFrame(mem'[t][1], Frame(t))
      BY <3>1, <3>2, <3>3 DEF TaskSound
    <3>8. QED
      BY <3>1, <3>2, <3>4, <3>5, <3>6, <3>7 DEF Resumable
  <2>3. QED
    BY <2>1, <2>2
<1>3. /\ current_task' \in TaskIds /\ current_task' < num_tasks
      /\ cpu' = Frame(current_task') /\ sp' = Shrunk(tasks'[current_task'].rsp)
      /\ mem' \in [TaskIds -> [Heights -> Context]]
      /\ tasks' \in [TaskIds -> [rsp : Rsp, active : Bit]]
      /\ \A t \in TaskIds : tasks'[t].active = tasks[t].active
  BY PitFacts
<1>4. sp' \in Rsp /\ sp'.stk = current_task' /\ sp'.h = Under(current_task')
  BY <1>2, <1>3 DEF Shrunk, Rsp, Heights, TaskIds
<1>5. TypeOK'
  BY <1>0, <1>1, <1>2, <1>3, <1>4 DEF TypeOK
<1>6. Running' /\ Waiting'
  BY <1>1, <1>2, <1>3, <1>4 DEF Running, Waiting, Resumable
<1>7. Sound'
  BY <1>1, <1>2, <1>3, <1>4 DEF Sound, TaskSound, TopContext, Below
<1>8. AllActive' /\ Booting' /\ Creating'
  <2>1. cpu'.pc \notin {"boot", "limit", "frame"}
    BY <1>2, <1>3
  <2>2. cpu.pc # "boot"
    BY <1>0 DEF Shape
  <2>3. QED
    BY <1>0, <1>1, <1>3, <2>1, <2>2 DEF AllActive, Booting, Creating
<1>9. QED
  BY <1>5, <1>6, <1>7, <1>8 DEF IInv

LEMMA NextIInv == IInv /\ [Next]_vars => IInv'
<1> SUFFICES ASSUME IInv, [Next]_vars PROVE IInv'
  OBVIOUS
<1>1. CASE UNCHANGED vars
  BY <1>1 DEF vars, IInv, TypeOK, Running, Waiting, Resumable, Sound, TaskSound,
     TopContext, Below, AllActive, Booting, Creating, FrameAt
<1>2. CASE Next
  <2>1. num_tasks < MaxTasks \/ num_tasks >= MaxTasks
    BY SchedulerConstants DEF IInv, TypeOK
  <2>2. QED
    BY <1>2, <2>1, QuietActions, CreateFrameIInv, CreateRegisterIInv, SyscallEnterIInv,
       SyscallReturnIInv, PitIsrIInv DEF Next, KernelStep, UserStep
<1>3. QED
  BY <1>1, <1>2

THEOREM Invariance == SafeSpec => []IInv
BY InitIInv, NextIInv, PTL DEF SafeSpec

(* The properties the runs check follow from the invariant.                *)

(* Every variable keeps its type, for every size of the task table.        *)
THEOREM TypeCorrect == SafeSpec => []TypeOK
<1>1. IInv => TypeOK
  BY DEF IInv
<1>2. QED
  BY <1>1, Invariance, PTL

(* Whatever task schedule() picks can be resumed: its saved stack pointer  *)
(* names a frame on its own stack that lets the timer in again.            *)
THEOREM ContextsAreSaved == SafeSpec => []SavedContextsSound
<1>1. IInv => SavedContextsSound
  <2> SUFFICES ASSUME IInv, NEW t \in TaskIds \ {current_task}, Exists(t)
               PROVE  /\ tasks[t].active = 1
                      /\ tasks[t].rsp.stk = t
                      /\ tasks[t].rsp.h \in {1, 2}
                      /\ FrameAt(mem, tasks[t].rsp).if = 1
    BY DEF SavedContextsSound
  <2>1. Resumable(t)
    BY DEF IInv, Waiting, Exists
  <2>2. tasks[t].active = 1
    <3>1. cpu.pc # "boot"
      BY SchedulerConstants DEF IInv, Booting, Exists, TaskIds
    <3>2. QED
      BY <3>1 DEF IInv, AllActive, Exists
  <2>3. QED
    BY <2>1, <2>2 DEF Resumable
<1>2. QED
  BY <1>1, Invariance, PTL

(* The CPU runs on the stack of the task the scheduler believes is running *)
(* and never more than one gate frame deep between interrupts.             *)
THEOREM StacksStaySeparate == SafeSpec => []StackOfCurrentTask
<1>1. IInv => StackOfCurrentTask
  <2> SUFFICES ASSUME IInv PROVE StackOfCurrentTask
    OBVIOUS
  <2>1. sp.h <= 1
    BY CurrentShape DEF Shape
  <2>2. QED
    BY <2>1 DEF IInv, Running, StackOfCurrentTask, Exists
<1>2. QED
  BY <1>1, Invariance, PTL

(* No task computes or halts with interrupts off.                          *)
THEOREM NobodyIsDeaf == SafeSpec => []NeverDeaf
<1>1. IInv => NeverDeaf
  BY CurrentShape DEF NeverDeaf, Shape
<1>2. QED
  BY <1>1, Invariance, PTL

-----------------------------------------------------------------------------
(* The scheduler implements round robin *)

ProgramOf(t) == IF Exists(t) THEN OwnContext(t).code ELSE "none"
ProgressOf(t) == IF Exists(t) THEN OwnContext(t).work ELSE 0

(* Nothing a task has of its own changes. *)
OwnUnchanged == \A t \in TaskIds : /\ ProgramOf(t)' = ProgramOf(t)
                                   /\ ProgressOf(t)' = ProgressOf(t)

LEMMA OwnContextCases ==
  ASSUME IInv, NEW t \in TaskIds, Exists(t)
  PROVE  /\ Below(t) \in {0, 1}
         /\ t = current_task => Below(t) = sp.h /\ TopContext(t) = cpu
         /\ t # current_task => /\ tasks[t].rsp.stk = t
                                /\ tasks[t].rsp.h = Below(t) + 1
                                /\ TopContext(t) = mem[t][Below(t) + 1]
<1>1. TaskSound(t) /\ (t # current_task => Resumable(t))
  BY DEF IInv, Sound, Waiting, Exists
<1>2. Below(t) \in {0, 1}
  BY <1>1 DEF TaskSound, Shape
<1>3. QED
  BY <1>1, <1>2 DEF TopContext, Below, Resumable, FrameAt

(* A quiet step that keeps the work register keeps everything a task owns. *)
LEMMA QuietOwn ==
  ASSUME IInv,
         UNCHANGED <<sp, mem, num_tasks, current_task>>,
         \A t \in TaskIds : tasks'[t].rsp = tasks[t].rsp,
         cpu'.code = cpu.code, cpu'.work = cpu.work
  PROVE  OwnUnchanged
BY DEF OwnUnchanged, ProgramOf, ProgressOf, Exists, OwnContext, TopContext,
       Below, FrameAt

LEMMA StutterMaps ==
  ASSUME OwnUnchanged, UNCHANGED <<num_tasks, current_task>>
  PROVE  UNCHANGED RR!rrVars
<1>1. /\ [t \in TaskIds |-> ProgramOf(t)]' = [t \in TaskIds |-> ProgramOf(t)]
      /\ [t \in TaskIds |-> ProgressOf(t)]' = [t \in TaskIds |-> ProgressOf(t)]
  BY DEF OwnUnchanged
<1>2. QED
  BY <1>1 DEF RR!rrVars, ProgramOf, ProgressOf

(* How each step maps.  The quiet ones but UserWork keep the registers.    *)
LEMMA QuietMaps ==
  ASSUME IInv,
         \/ TimerTick \/ StartMultitasking \/ CreateCli
         \/ CreateFrame /\ num_tasks >= MaxTasks
         \/ WorkerYield \/ WorkerResumes \/ SyscallYield
         \/ SpawnCommand \/ OpenBin \/ LoadZero \/ LoadCopy
         \/ SleepBegin \/ SleepLoop
  PROVE  UNCHANGED RR!rrVars
<1>1. cpu \in Context /\ tasks \in [TaskIds -> [rsp : Rsp, active : Bit]]
  BY DEF IInv, TypeOK
<1>2. /\ UNCHANGED <<sp, mem, num_tasks, current_task>>
      /\ \A t \in TaskIds : tasks'[t].rsp = tasks[t].rsp
  BY <1>1 DEF TimerTick, StartMultitasking, CreateCli, CreateFrame,
     Refuse, WorkerYield, WorkerResumes, SyscallYield, SpawnCommand, OpenBin, LoadZero,
     LoadCopy, SleepBegin, SleepLoop
<1>3. cpu'.code = cpu.code /\ cpu'.work = cpu.work
  BY <1>1 DEF Context, TimerTick, StartMultitasking, CreateCli, EnterCreate,
     CreateFrame, Refuse, WorkerYield, WorkerResumes, SyscallYield, YieldHalt,
     SpawnCommand, OpenBin, LoadZero, LoadCopy, SleepBegin, SleepLoop
<1>4. QED
  BY <1>2, <1>3, QuietOwn, StutterMaps

LEMMA CreateFrameMaps ==
  ASSUME IInv, CreateFrame, num_tasks < MaxTasks
  PROVE  UNCHANGED RR!rrVars
<1>1. /\ UNCHANGED <<num_tasks, current_task, sp, tasks>>
      /\ num_tasks \in TaskIds /\ cpu \in Context
      /\ mem \in [TaskIds -> [Heights -> Context]]
      /\ BuildFrame
  BY SchedulerConstants DEF CreateFrame, IInv, TypeOK, TaskIds
<1>2. cpu'.code = cpu.code /\ cpu'.work = cpu.work
  BY <1>1 DEF BuildFrame, Context
<1>3. ASSUME NEW t \in TaskIds, Exists(t) PROVE mem'[t] = mem[t]
  BY <1>1, <1>3 DEF BuildFrame, Pushed, NewStack, Exists, TaskIds
<1>4. OwnUnchanged
  <2> SUFFICES ASSUME NEW t \in TaskIds
               PROVE  /\ ProgramOf(t)' = ProgramOf(t)
                      /\ ProgressOf(t)' = ProgressOf(t)
    BY DEF OwnUnchanged
  <2>1. CASE Exists(t)
    BY <1>1, <1>2, <1>3, <2>1, OwnContextCases
       DEF ProgramOf, ProgressOf, Exists, OwnContext, TopContext, Below, FrameAt
  <2>2. CASE ~Exists(t)
    BY <1>1, <2>2 DEF ProgramOf, ProgressOf, Exists
  <2>3. QED
    BY <2>1, <2>2
<1>5. QED
  BY <1>1, <1>4, StutterMaps

LEMMA SyscallEnterMaps ==
  ASSUME IInv, SyscallEnter PROVE UNCHANGED RR!rrVars
<1>1. /\ UNCHANGED <<num_tasks, current_task, tasks>>
      /\ cpu.pc = "user" /\ cpu \in Context /\ sp \in Rsp
      /\ mem \in [TaskIds -> [Heights -> Context]]
      /\ sp.h = 0 /\ sp.stk = current_task /\ current_task \in TaskIds
  BY CurrentShape DEF SyscallEnter, Shape, IInv, TypeOK, Running
<1>2. /\ \A t \in TaskIds : t # current_task => mem'[t] = mem[t]
      /\ mem'[current_task][1] = cpu
      /\ sp'.h = 1
  BY <1>1 DEF SyscallEnter, Pushed, Grown, Heights, Rsp
<1>3. OwnUnchanged
  <2> SUFFICES ASSUME NEW t \in TaskIds
               PROVE  /\ ProgramOf(t)' = ProgramOf(t)
                      /\ ProgressOf(t)' = ProgressOf(t)
    BY DEF OwnUnchanged
  <2>1. CASE t = current_task
    <3>1. OwnContext(t) = cpu /\ OwnContext(t)' = cpu
      BY <1>1, <1>2, <2>1 DEF OwnContext, TopContext, Below
    <3>2. QED
      BY <1>1, <3>1 DEF ProgramOf, ProgressOf, Exists
  <2>2. CASE t # current_task /\ Exists(t)
    <3>1. OwnContext(t)' = OwnContext(t)
      BY <1>1, <1>2, <2>2, OwnContextCases
         DEF OwnContext, TopContext, Below, FrameAt
    <3>2. QED
      BY <1>1, <3>1 DEF ProgramOf, ProgressOf, Exists
  <2>3. CASE ~Exists(t)
    BY <1>1, <2>3 DEF ProgramOf, ProgressOf, Exists
  <2>4. QED
    BY <2>1, <2>2, <2>3
<1>4. QED
  BY <1>1, <1>3, StutterMaps

LEMMA SyscallReturnMaps ==
  ASSUME IInv, SyscallReturn PROVE UNCHANGED RR!rrVars
<1>1. /\ UNCHANGED <<num_tasks, current_task, tasks, mem>>
      /\ sp \in Rsp /\ sp.h = 1 /\ sp.stk = current_task
  BY CurrentShape DEF SyscallReturn, Shape, IInv, TypeOK, Running
<1>2. cpu' = mem[current_task][1] /\ sp'.h = 0
  BY <1>1 DEF SyscallReturn, FrameAt, Shrunk, Rsp, Heights
<1>3. OwnUnchanged
  <2> SUFFICES ASSUME NEW t \in TaskIds
               PROVE  OwnContext(t)' = OwnContext(t)
    BY <1>1 DEF OwnUnchanged, ProgramOf, ProgressOf, Exists
  <2>1. CASE t = current_task
    BY <1>1, <1>2, <2>1 DEF OwnContext, TopContext, Below
  <2>2. CASE t # current_task
    BY <1>1, <2>2 DEF OwnContext, TopContext, Below, FrameAt
  <2>3. QED
    BY <2>1, <2>2
<1>4. QED
  BY <1>1, <1>3, StutterMaps

(* The context switch changes who runs and nothing else.                   *)
LEMMA PitIsrMaps == ASSUME IInv, PitIsr PROVE RR!Rotate
<1>0. /\ current_task \in TaskIds /\ cpu \in Context /\ Shape(cpu, sp.h)
      /\ num_tasks \in 1 .. MaxTasks /\ num_tasks' = num_tasks /\ Running
  BY CurrentShape DEF IInv, TypeOK, PitIsr
<1>1. current_task' = IF current_task + 1 < num_tasks
                      THEN current_task + 1 ELSE 0
  <2>1. cpu.pc # "boot"
    BY <1>0 DEF Shape, PitIsr
  <2>2. \A t \in TaskIds : t < num_tasks => tasks'[t].active = 1
    BY <2>1, PitFacts DEF IInv, AllActive
  <2>3. current_task' = NextTask(tasks', current_task, num_tasks)
    BY DEF PitIsr
  <2>4. QED
    BY SchedulerConstants, <1>0, <2>2, <2>3 DEF NextTask, TaskIds
<1>2. ASSUME NEW t \in TaskIds, Exists(t)
      PROVE  /\ OwnContext(t)'.code = OwnContext(t).code
             /\ OwnContext(t)'.work = OwnContext(t).work
  <2>1. /\ Below(t)' = tasks'[t].rsp.h - 1
        /\ TopContext(t)' = FrameAt(mem', tasks'[t].rsp)
    <3>1. /\ cpu' = FrameAt(mem', tasks'[current_task'].rsp)
          /\ sp'.h = tasks'[current_task'].rsp.h - 1
      BY PitFacts DEF Shrunk, Rsp, Heights
    <3>2. QED
      BY <3>1 DEF Below, TopContext
  <2>2. CASE t = current_task
    <3>1. /\ Below(t)' = sp.h /\ TopContext(t)' = BehindHlt(cpu)
          /\ BehindHlt(cpu).code = cpu.code /\ BehindHlt(cpu).work = cpu.work
          /\ sp.h = 1 => mem'[t][1] = mem[t][1]
      BY <1>0, <2>1, <2>2, PitFacts, BehindHltFacts DEF FrameAt
    <3>2. sp.h \in {0, 1} /\ Below(t) = sp.h /\ TopContext(t) = cpu
      BY <2>2, PitFacts DEF Below, TopContext
    <3>3. QED
      BY <3>1, <3>2 DEF OwnContext
  <2>3. CASE t # current_task
    <3>1. mem'[t] = mem[t] /\ tasks'[t] = tasks[t] /\ tasks[t].rsp.stk = t
      BY <1>2, <2>3, PitFacts, OwnContextCases
    <3>2. Below(t)' = Below(t) /\ TopContext(t)' = TopContext(t)
      BY <2>1, <2>3, <3>1 DEF Below, TopContext, FrameAt
    <3>3. QED
      BY <3>1, <3>2 DEF OwnContext
  <2>4. QED
    BY <2>2, <2>3
<1>3. OwnUnchanged
  BY <1>0, <1>2 DEF OwnUnchanged, ProgramOf, ProgressOf, Exists
<1>4. /\ [t \in TaskIds |-> ProgramOf(t)]' = [t \in TaskIds |-> ProgramOf(t)]
      /\ [t \in TaskIds |-> ProgressOf(t)]' = [t \in TaskIds |-> ProgressOf(t)]
  BY <1>3 DEF OwnUnchanged
<1>5. QED
  BY <1>0, <1>1, <1>4 DEF RR!Rotate, ProgramOf, ProgressOf

(* A step of a task's own program is a step of that task and no other.     *)
LEMMA UserWorkMaps == ASSUME IInv, UserWork PROVE RR!Work
<1>0. /\ UNCHANGED <<sp, mem, num_tasks, current_task, tasks>>
      /\ cpu \in Context /\ sp.h = 0 /\ current_task \in TaskIds
      /\ Exists(current_task)
  BY CurrentShape DEF UserWork, Shape, IInv, TypeOK, Running, Exists
<1>1. cpu'.code = cpu.code /\ cpu'.work = (cpu.work + 1) % WorkMod
  BY <1>0 DEF UserWork, Context
<1>2. ASSUME NEW t \in TaskIds
      PROVE  /\ ProgramOf(t)' = ProgramOf(t)
             /\ ProgressOf(t)' = IF t = current_task
                                 THEN (ProgressOf(t) + 1) % WorkMod
                                 ELSE ProgressOf(t)
  <2>1. CASE t = current_task
    BY <1>0, <1>1, <2>1
       DEF ProgramOf, ProgressOf, Exists, OwnContext, TopContext, Below
  <2>2. CASE t # current_task
    BY <1>0, <2>2
       DEF ProgramOf, ProgressOf, Exists, OwnContext, TopContext, Below, FrameAt
  <2>3. QED
    BY <2>1, <2>2
<1>3. /\ [t \in TaskIds |-> ProgramOf(t)]' = [t \in TaskIds |-> ProgramOf(t)]
      /\ [t \in TaskIds |-> ProgressOf(t)]' =
           [[t \in TaskIds |-> ProgressOf(t)] EXCEPT
              ![current_task] = (@ + 1) % WorkMod]
  BY <1>0, <1>2
<1>4. QED
  BY <1>0, <1>3 DEF RR!Work, ProgramOf, ProgressOf

(* Entering a task in the table is the moment it starts to exist.          *)
LEMMA CreateRegisterMaps == ASSUME IInv, CreateRegister PROVE RR!Spawn
<1>0. /\ UNCHANGED <<sp, mem, current_task>> /\ num_tasks' = num_tasks + 1
      /\ cpu \in Context /\ entry \in Code /\ num_tasks < MaxTasks
      /\ num_tasks \in TaskIds /\ current_task < num_tasks
      /\ current_task \in TaskIds
      /\ mem[num_tasks][1] = FreshFrame(entry)
  BY SchedulerConstants
     DEF CreateRegister, IInv, TypeOK, Running, Creating, TaskIds
<1>1. cpu'.code = cpu.code /\ cpu'.work = cpu.work
  BY <1>0 DEF CreateRegister, Context
<1>2. /\ \A t \in TaskIds : t # num_tasks => tasks'[t] = tasks[t]
      /\ tasks'[num_tasks].rsp = [stk |-> num_tasks, h |-> 1]
  BY <1>0 DEF CreateRegister, Grown, NewStack, IInv, TypeOK
<1>3. ASSUME NEW t \in TaskIds
      PROVE  /\ ProgramOf(t)' = IF t = num_tasks THEN entry ELSE ProgramOf(t)
             /\ ProgressOf(t)' = ProgressOf(t)
  <2>1. CASE t = num_tasks
    <3>1. OwnContext(t)' = FreshFrame(entry) /\ Exists(t)' /\ ~Exists(t)
      BY <1>0, <1>2, <2>1
         DEF OwnContext, TopContext, Below, FrameAt, Exists, TaskIds
    <3>2. QED
      BY <2>1, <3>1 DEF ProgramOf, ProgressOf, FreshFrame
  <2>2. CASE t # num_tasks
    <3>1. Exists(t)' = Exists(t)
      BY <1>0, <2>2 DEF Exists, TaskIds
    <3>2. CASE t = current_task
      BY <1>0, <1>1, <2>2, <3>1, <3>2
         DEF ProgramOf, ProgressOf, OwnContext, TopContext, Below
    <3>3. CASE t # current_task
      BY <1>0, <1>2, <2>2, <3>1, <3>3
         DEF ProgramOf, ProgressOf, OwnContext, TopContext, Below, FrameAt
    <3>4. QED
      BY <3>2, <3>3
  <2>3. QED
    BY <2>1, <2>2
<1>4. /\ [t \in TaskIds |-> ProgramOf(t)]' =
           [[t \in TaskIds |-> ProgramOf(t)] EXCEPT ![num_tasks] = entry]
      /\ [t \in TaskIds |-> ProgressOf(t)]' = [t \in TaskIds |-> ProgressOf(t)]
  BY <1>0, <1>3
<1>5. QED
  BY <1>0, <1>4 DEF RR!Spawn, ProgramOf, ProgressOf

LEMMA InitMaps == Init => RR!Init
<1> SUFFICES ASSUME Init PROVE RR!Init
  OBVIOUS
<1>1. /\ current_task = 0 /\ num_tasks = 1 /\ sp.h = 0
      /\ cpu.code = "main" /\ cpu.work = 0
  BY DEF Init
<1>2. /\ \A t \in TaskIds : ProgramOf(t) \in Code \cup {"none"}
      /\ \A t \in TaskIds : t > 0 => ProgramOf(t) = "none"
      /\ \A t \in TaskIds : ProgressOf(t) = 0
  BY <1>1, SchedulerConstants DEF ProgramOf, ProgressOf, Exists, OwnContext, TopContext, Below, Code,
     TaskIds
<1>3. QED
  BY <1>1, <1>2, SchedulerConstants
     DEF RR!Init, RR!TaskIds, RR!NoProgram, ProgramOf, ProgressOf, TaskIds

(* The kernel's multitasking implements round robin: whatever the tasks do *)
(* and whenever the timer fires, only the running task makes progress, the *)
(* CPU goes to the next task in order, and a preempted task comes back     *)
(* with the context it was preempted with.                                 *)
THEOREM ImplementsRoundRobinSafely == SafeSpec => RR!SafeSpec
<1>1. Init => RR!Init
  BY InitMaps
<1>2. IInv /\ [Next]_vars => [RR!Next]_(RR!rrVars)
  <2> SUFFICES ASSUME IInv, [Next]_vars PROVE [RR!Next]_(RR!rrVars)
    OBVIOUS
  <2>1. CASE UNCHANGED vars
    <3>1. OwnUnchanged
      BY <2>1 DEF vars, OwnUnchanged, ProgramOf, ProgressOf, Exists, OwnContext,
         TopContext, Below, FrameAt
    <3>2. QED
      BY <2>1, <3>1, StutterMaps DEF vars
  <2>2. CASE Next
    <3>1. num_tasks < MaxTasks \/ num_tasks >= MaxTasks
      BY SchedulerConstants DEF IInv, TypeOK
    <3>2. QED
      BY <2>2, <3>1, QuietMaps, CreateFrameMaps, CreateRegisterMaps,
         SyscallEnterMaps, SyscallReturnMaps, PitIsrMaps, UserWorkMaps
         DEF Next, KernelStep, UserStep, RR!Next
  <2>3. QED
    BY <2>1, <2>2
<1>3. QED
  BY <1>1, <1>2, Invariance, PTL DEF SafeSpec, RR!SafeSpec

-----------------------------------------------------------------------------
(* What only the desktop does: creating tasks and loading programs         *)

HasApp == \E t \in TaskIds : t < num_tasks /\ TopContext(t).code = "app"
AppAbout == HasApp \/ entry = "app"

(* Only task 0 runs the desktop, and from its test of the limit to the     *)
(* entry in the table there is room for one more.                          *)
DeskInv ==
  /\ \A t \in TaskIds : t < num_tasks => (TopContext(t).code = "main" <=> t = 0)
  /\ entry # "main"
  /\ TopContext(0).pc \in {"call", "limit", "frame", "zero", "copy"}
       => num_tasks < MaxTasks

(* Before the first program is copied there is no task that could run it,  *)
(* and behind it nobody clears the area.                                   *)
AppInv ==
  /\ launches = 0 => ~AppAbout /\ TopContext(0).pc \notin {"zero", "copy"}
  /\ launches <= 1 =>
       /\ TopContext(0).pc \in {"zero", "copy"} => ~AppAbout
       /\ AppAbout => ram = "image"

(* Except for the timer interrupt a step is one of the running task.       *)
LEMMA OwnStep ==
  ASSUME IInv, Next, ~PitIsr
  PROVE  /\ UNCHANGED current_task /\ cpu'.code = cpu.code
         /\ \A t \in TaskIds \ {current_task} :
              t < num_tasks => TopContext(t)' = TopContext(t)
<1>0. /\ cpu \in Context /\ mem \in [TaskIds -> [Heights -> Context]]
      /\ tasks \in [TaskIds -> [rsp : Rsp, active : Bit]] /\ current_task \in TaskIds
      /\ sp \in Rsp /\ sp.stk = current_task /\ Shape(cpu, sp.h)
      /\ num_tasks \in 1 .. MaxTasks
      /\ \A t \in TaskIds \ {current_task} : t < num_tasks => tasks[t].rsp.stk = t
  BY CurrentShape DEF IInv, TypeOK, Running, Waiting, Resumable
<1>1. ASSUME UNCHANGED current_task,
             \A t \in TaskIds \ {current_task} :
               t < num_tasks => tasks'[t].rsp = tasks[t].rsp /\ mem'[t] = mem[t]
      PROVE  \A t \in TaskIds \ {current_task} :
               t < num_tasks => TopContext(t)' = TopContext(t)
  BY <1>0, <1>1 DEF TopContext, FrameAt
<1>2. CASE \/ TimerTick \/ StartMultitasking \/ CreateCli
           \/ UserWork \/ WorkerYield \/ WorkerResumes \/ SyscallYield
           \/ SpawnCommand \/ OpenBin \/ LoadZero \/ LoadCopy
           \/ SleepBegin \/ SleepLoop
  <2>1. /\ UNCHANGED <<current_task, mem>> /\ cpu'.code = cpu.code
        /\ tasks' = tasks \/ tasks' = [tasks EXCEPT ![0].active = 1]
    BY <1>0, <1>2
       DEF TimerTick, StartMultitasking, CreateCli, EnterCreate, UserWork, WorkerYield,
           YieldHalt, WorkerResumes, SyscallYield, SpawnCommand, OpenBin, LoadZero,
           LoadCopy, SleepBegin, SleepLoop, Context
  <2>2. \A t \in TaskIds : tasks'[t].rsp = tasks[t].rsp
    BY <1>0, <2>1
  <2>. QED
    BY <1>1, <2>1, <2>2
<1>3. CASE CreateFrame
  <2>1. UNCHANGED <<current_task, tasks>> /\ cpu'.code = cpu.code
    BY <1>0, <1>3 DEF CreateFrame, Refuse, BuildFrame, Context
  <2>2. \A t \in TaskIds : t < num_tasks => mem'[t] = mem[t]
    <3>1. CASE num_tasks >= MaxTasks
      BY <1>3, <3>1 DEF CreateFrame, Refuse
    <3>2. CASE ~(num_tasks >= MaxTasks)
      BY <1>0, <1>3, <3>2 DEF CreateFrame, BuildFrame, Pushed, NewStack
    <3>. QED
      BY <3>1, <3>2
  <2>. QED
    BY <1>1, <2>1, <2>2
<1>4. CASE CreateRegister
  <2>1. UNCHANGED <<current_task, mem>> /\ cpu'.code = cpu.code
    BY <1>0, <1>4 DEF CreateRegister, Context
  <2>2. \A t \in TaskIds : t < num_tasks => tasks'[t] = tasks[t]
    BY <1>0, <1>4 DEF CreateRegister
  <2>. QED
    BY <1>1, <2>1, <2>2
<1>5. CASE SyscallEnter
  <2>1. UNCHANGED <<current_task, tasks>> /\ cpu'.code = cpu.code
    BY <1>0, <1>5 DEF SyscallEnter, Scratch, Context
  <2>2. \A t \in TaskIds \ {current_task} : mem'[t] = mem[t]
    BY <1>0, <1>5 DEF SyscallEnter, Pushed
  <2>. QED
    BY <1>1, <2>1, <2>2
<1>6. CASE SyscallReturn
  <2>1. UNCHANGED <<current_task, tasks, mem>> /\ sp.h = 1
    BY <1>0, <1>6 DEF SyscallReturn, Shape
  <2>2. cpu'.code = cpu.code
    BY <1>0, <1>6, <2>1, CurrentShape DEF SyscallReturn, FrameAt, GateFrame
  <2>. QED
    BY <1>1, <2>1, <2>2
<1>. QED
  BY <1>2, <1>3, <1>4, <1>5, <1>6 DEF Next, KernelStep, UserStep

(* The timer interrupt leaves every task where it is, behind its hlt.      *)
LEMMA PitLeaves ==
  ASSUME IInv, PitIsr, NEW t \in TaskIds, t < num_tasks
  PROVE  /\ TopContext(t)'.code = TopContext(t).code
         /\ TopContext(t)'.pc \in {TopContext(t).pc, "woken", "sleep"}
<1>0. /\ cpu \in Context /\ Shape(cpu, sp.h) /\ cpu.if = 1 /\ sp.h \in {0, 1}
      /\ cpu' = FrameAt(mem', tasks'[current_task'].rsp)
  BY CurrentShape, PitFacts DEF IInv, TypeOK
<1>1. TopContext(t)' = FrameAt(mem', tasks'[t].rsp)
  BY <1>0 DEF TopContext, FrameAt
<1>2. CASE t = current_task
  <2>1. TopContext(t)' = BehindHlt(cpu) /\ TopContext(t) = cpu
    BY <1>1, <1>2, PitFacts DEF FrameAt, TopContext
  <2>2. BehindHlt(cpu).code = cpu.code /\ BehindHlt(cpu).pc \in {cpu.pc, "woken", "sleep"}
    BY <1>0, BehindHltFacts DEF BehindHlt, Context
  <2>. QED
    BY <2>1, <2>2
<1>3. CASE t # current_task
  <2>1. /\ mem'[t] = mem[t] /\ tasks'[t] = tasks[t] /\ tasks[t].rsp.stk = t
    BY <1>3, PitFacts DEF IInv, Waiting, Resumable
  <2>. QED
    BY <1>1, <1>3, <2>1 DEF TopContext, FrameAt
<1>. QED
  BY <1>2, <1>3

(* How a step of the running task goes on with creating and loading.       *)
Reserving == {"call", "limit", "frame", "zero", "copy"}

LEMMA DeskStep ==
  ASSUME IInv, Next, ~PitIsr
  PROVE  /\ num_tasks' = num_tasks \/ CreateRegister
         /\ cpu'.pc \in Reserving =>
              /\ num_tasks' = num_tasks
              /\ cpu.pc \in Reserving \cup {"boot"} \/ num_tasks < MaxTasks
         /\ \/ /\ UNCHANGED <<launches, ram>> /\ entry' \in {entry, "syscaller", "worker"}
               /\ cpu'.pc \in {"zero", "copy"} => cpu'.pc = cpu.pc
            \/ OpenBin \/ LoadZero \/ LoadCopy
<1>0. /\ cpu \in Context /\ num_tasks \in 1 .. MaxTasks /\ Shape(cpu, sp.h)
      /\ MaxTasks \in Nat
  BY CurrentShape, SchedulerConstants DEF IInv, TypeOK
<1>1. CASE TimerTick
  BY <1>0, <1>1 DEF TimerTick, Reserving
<1>2. CASE StartMultitasking \/ CreateCli
  BY <1>0, <1>2 DEF StartMultitasking, CreateCli, EnterCreate, Reserving, Context
<1>3. CASE UserWork \/ WorkerYield \/ WorkerResumes \/ SyscallYield
  BY <1>0, <1>3 DEF UserWork, WorkerYield, YieldHalt, WorkerResumes, SyscallYield,
     Reserving, Context
<1>4. CASE SpawnCommand
  BY <1>0, <1>4 DEF SpawnCommand, Reserving, Context
<1>5. CASE OpenBin
  <2>1. num_tasks >= MaxTasks \/ num_tasks < MaxTasks
    BY <1>0
  <2>. QED
    BY <1>0, <1>5, <2>1 DEF OpenBin, Reserving, Context
<1>6. CASE LoadZero \/ LoadCopy
  BY <1>0, <1>6 DEF LoadZero, LoadCopy, Reserving, Context
<1>7. CASE SleepBegin \/ SleepLoop
  BY <1>0, <1>7 DEF SleepBegin, SleepLoop, Reserving, Context
<1>8. CASE CreateFrame
  BY <1>0, <1>8 DEF CreateFrame, Refuse, BuildFrame, Reserving, Context
<1>9. CASE CreateRegister
  BY <1>0, <1>9 DEF CreateRegister, Reserving, Context
<1>10. CASE SyscallEnter
  BY <1>0, <1>10 DEF SyscallEnter, Scratch, Reserving, Context
<1>11. CASE SyscallReturn
  <2>1. sp.h = 1 /\ sp.stk = current_task
    BY <1>0, <1>11 DEF SyscallReturn, Shape, IInv, Running
  <2>2. cpu'.pc = "user"
    BY <1>11, <2>1, CurrentShape DEF SyscallReturn, FrameAt, GateFrame
  <2>. QED
    BY <1>11, <2>2 DEF SyscallReturn, Reserving
<1>. QED
  BY <1>1, <1>2, <1>3, <1>4, <1>5, <1>6, <1>7, <1>8, <1>9, <1>10, <1>11
     DEF Next, KernelStep, UserStep

(* The program of every task stays, and a new task runs what it was        *)
(* created for.                                                            *)
LEMMA CodeStays ==
  ASSUME IInv, Next
  PROVE  /\ \A t \in TaskIds : t < num_tasks => TopContext(t)'.code = TopContext(t).code
         /\ CreateRegister => /\ num_tasks' = num_tasks + 1 /\ num_tasks \in TaskIds
                              /\ \A t \in TaskIds : t = num_tasks => TopContext(t)'.code = entry
                              /\ cpu.code = "main"
<1>1. CASE PitIsr
  <2>1. ~CreateRegister
    BY <1>1, CurrentShape DEF PitIsr, CreateRegister, Shape
  <2>. QED
    BY <1>1, <2>1, PitLeaves
<1>2. CASE ~PitIsr
  <2>1. ASSUME NEW t \in TaskIds, t < num_tasks
        PROVE  TopContext(t)'.code = TopContext(t).code
    <3>1. CASE t = current_task
      BY <1>2, <3>1, OwnStep DEF TopContext
    <3>2. CASE t # current_task
      BY <1>2, <2>1, <3>2, OwnStep
    <3>. QED
      BY <3>1, <3>2
  <2>2. ASSUME CreateRegister
        PROVE  /\ num_tasks' = num_tasks + 1 /\ num_tasks \in TaskIds
               /\ cpu.code = "main"
    <3>1. /\ num_tasks \in TaskIds /\ cpu.code = "main"
      BY <2>2, CurrentShape, SchedulerConstants
         DEF CreateRegister, IInv, Creating, TypeOK, TaskIds, Shape, DesktopPc, Running
    <3>. QED
      BY <2>2, <3>1 DEF CreateRegister
  <2>3. ASSUME CreateRegister, NEW t \in TaskIds, t = num_tasks
        PROVE  TopContext(t)'.code = entry
    <3>1. /\ mem[t][1] = FreshFrame(entry) /\ current_task # t
          /\ tasks \in [TaskIds -> [rsp : Rsp, active : Bit]]
      BY <2>3, CurrentShape, SchedulerConstants
         DEF CreateRegister, IInv, Creating, TypeOK, TaskIds, Shape, DesktopPc, Running
    <3>2. /\ tasks'[t].rsp = Grown(NewStack(t)) /\ current_task' = current_task
          /\ mem' = mem
      BY <2>3, <3>1 DEF CreateRegister
    <3>3. Grown(NewStack(t)) = [stk |-> t, h |-> 1]
      BY DEF Grown, NewStack
    <3>4. TopContext(t)' = FreshFrame(entry)
      BY <3>1, <3>2, <3>3 DEF TopContext, FrameAt
    <3>. QED
      BY <3>4 DEF FreshFrame
  <2>. QED
    BY <2>1, <2>2, <2>3
<1>. QED
  BY <1>1, <1>2

(* The desktop's code runs as task 0.                                      *)
LEMMA DesktopIsTaskZero ==
  ASSUME IInv, DeskInv, cpu.code = "main"
  PROVE  current_task = 0 /\ TopContext(0) = cpu
<1>1. current_task \in TaskIds /\ current_task < num_tasks
  BY CurrentShape DEF IInv, Running
<1>2. TopContext(current_task) = cpu
  BY DEF TopContext
<1>. QED
  BY <1>1, <1>2 DEF DeskInv

LEMMA InitDesk == Init => DeskInv /\ AppInv
<1> SUFFICES ASSUME Init PROVE DeskInv /\ AppInv
  OBVIOUS
<1>1. num_tasks = 1 /\ current_task = 0 /\ TopContext(0) = cpu
  BY DEF Init, TopContext
<1>2. \A t \in TaskIds : t < num_tasks => t = 0
  BY <1>1, SchedulerConstants DEF TaskIds
<1>3. cpu.code = "main" /\ cpu.pc = "boot" /\ entry = "syscaller" /\ launches = 0
  BY DEF Init
<1>4. DeskInv
  BY <1>1, <1>2, <1>3 DEF DeskInv
<1>5. ~AppAbout
  BY <1>1, <1>2, <1>3 DEF AppAbout, HasApp
<1>. QED
  BY <1>1, <1>3, <1>4, <1>5 DEF AppInv

LEMMA DeskKept == IInv /\ DeskInv /\ [Next]_vars => DeskInv'
<1> SUFFICES ASSUME IInv, DeskInv, [Next]_vars PROVE DeskInv'
  OBVIOUS
<1>0. /\ num_tasks \in 1 .. MaxTasks /\ MaxTasks \in Nat \ {0, 1}
      /\ 0 \in TaskIds /\ 0 < num_tasks /\ current_task \in TaskIds
  BY SchedulerConstants, CurrentShape DEF IInv, TypeOK, TaskIds
<1>1. CASE UNCHANGED vars
  BY <1>1 DEF vars, DeskInv, TopContext, FrameAt
<1>2. CASE Next
  <2>1. ASSUME NEW t \in TaskIds, t < num_tasks'
        PROVE  TopContext(t)'.code = "main" <=> t = 0
    <3>1. CASE t < num_tasks
      BY <1>2, <3>1, CodeStays DEF DeskInv
    <3>2. CASE ~(t < num_tasks)
      <4>1. CreateRegister
        BY <1>2, <2>1, <3>2, DeskStep DEF PitIsr
      <4>2. num_tasks' = num_tasks + 1 /\ t \in Nat
        BY <1>2, <4>1, CodeStays DEF TaskIds
      <4>3. t = num_tasks
        BY <1>0, <2>1, <3>2, <4>2
      <4>4. TopContext(t)'.code = entry
        BY <1>2, <4>1, <4>3, CodeStays
      <4>. QED
        BY <1>0, <4>3, <4>4 DEF DeskInv
    <3>. QED
      BY <3>1, <3>2
  <2>2. entry' # "main"
    <3>1. CASE PitIsr
      BY <3>1 DEF PitIsr, DeskInv
    <3>2. CASE ~PitIsr
      BY <1>2, <3>2, DeskStep DEF DeskInv, OpenBin, LoadZero, LoadCopy
    <3>. QED
      BY <3>1, <3>2
  <2>3. ASSUME TopContext(0)'.pc \in Reserving
        PROVE  num_tasks' < MaxTasks
    <3>1. CASE PitIsr
      <4>1. TopContext(0)'.pc \in {TopContext(0).pc, "woken", "sleep"}
        BY <1>0, <3>1, PitLeaves
      <4>2. TopContext(0).pc \in Reserving
        BY <2>3, <4>1 DEF Reserving
      <4>. QED
        BY <3>1, <4>2 DEF PitIsr, DeskInv, Reserving
    <3>2. CASE ~PitIsr /\ current_task = 0
      <4>1. TopContext(0)' = cpu' /\ TopContext(0) = cpu
        BY <1>2, <3>2, OwnStep DEF TopContext
      <4>2. num_tasks' = num_tasks /\ (cpu.pc \in Reserving \cup {"boot"} \/ num_tasks < MaxTasks)
        BY <1>2, <2>3, <3>2, <4>1, DeskStep
      <4>3. CASE cpu.pc = "boot"
        BY <1>0, <4>2, <4>3 DEF IInv, Booting
      <4>4. CASE cpu.pc \in Reserving
        BY <4>1, <4>2, <4>4 DEF DeskInv, Reserving
      <4>. QED
        BY <4>2, <4>3, <4>4
    <3>3. CASE ~PitIsr /\ current_task # 0
      <4>1. TopContext(0)' = TopContext(0)
        BY <1>0, <1>2, <3>3, OwnStep
      <4>2. ~CreateRegister
        BY <1>2, <3>3, CodeStays, DesktopIsTaskZero
      <4>3. num_tasks' = num_tasks
        BY <1>2, <3>3, <4>2, DeskStep
      <4>. QED
        BY <2>3, <4>1, <4>3 DEF DeskInv, Reserving
    <3>. QED
      BY <3>1, <3>2, <3>3
  <2>. QED
    BY <2>1, <2>2, <2>3 DEF DeskInv, Reserving
<1>. QED
  BY <1>1, <1>2

(* Only the copy of a program brings a task about that could run it.       *)
LEMMA AppAppears ==
  ASSUME IInv, DeskInv, Next
  PROVE  AppAbout' => AppAbout \/ LoadCopy
<1> SUFFICES ASSUME AppAbout', ~LoadCopy PROVE AppAbout
  OBVIOUS
<1>0. num_tasks \in Nat /\ \A t \in TaskIds : t \in Nat
  BY DEF IInv, TypeOK, TaskIds
<1>1. CASE entry' = "app"
  <2>1. CASE PitIsr
    BY <1>1, <2>1 DEF PitIsr, AppAbout
  <2>2. CASE ~PitIsr
    <3>1. entry' \in {entry, "syscaller", "worker"} \/ OpenBin \/ LoadZero
      BY <2>2, DeskStep
    <3>. QED
      BY <1>1, <3>1 DEF OpenBin, LoadZero, AppAbout
  <2>. QED
    BY <2>1, <2>2
<1>2. CASE HasApp'
  <2>1. PICK t \in TaskIds : t < num_tasks' /\ TopContext(t)'.code = "app"
    BY <1>2 DEF HasApp
  <2>2. CASE t < num_tasks
    BY <2>1, <2>2, CodeStays DEF AppAbout, HasApp
  <2>3. CASE ~(t < num_tasks)
    <3>1. CreateRegister
      BY <2>1, <2>3, DeskStep DEF PitIsr
    <3>2. num_tasks' = num_tasks + 1
      BY <3>1, CodeStays
    <3>3. t = num_tasks
      BY <1>0, <2>1, <2>3, <3>2
    <3>. QED
      BY <2>1, <3>1, <3>3, CodeStays DEF AppAbout
  <2>. QED
    BY <2>2, <2>3
<1>. QED
  BY <1>1, <1>2 DEF AppAbout

(* Where the desktop stands between clearing the area and copying.         *)
LEMMA AppStep ==
  ASSUME IInv, DeskInv, Next
  PROVE  /\ launches \in Nat /\ launches' \in Nat /\ launches <= launches'
         /\ TopContext(0)'.pc \in {"zero", "copy"} =>
              TopContext(0).pc \in {"zero", "copy"} \/ launches' = launches + 1
         /\ ram' = ram \/ LoadCopy \/ TopContext(0).pc = "zero"
         /\ LoadCopy => TopContext(0).pc = "copy" /\ TopContext(0)'.pc = "call"
                        /\ launches' = launches /\ ram' = "image"
<1>0. /\ 0 \in TaskIds /\ 0 < num_tasks /\ cpu \in Context
      /\ Shape(cpu, sp.h) /\ launches \in Nat
  BY SchedulerConstants, CurrentShape DEF IInv, TypeOK, TaskIds
<1>1. CASE PitIsr
  <2>1. TopContext(0)'.pc \in {TopContext(0).pc, "woken", "sleep"}
    BY <1>0, <1>1, PitLeaves
  <2>2. ~LoadCopy
    BY <1>0, <1>1 DEF PitIsr, LoadCopy
  <2>. QED
    BY <1>0, <1>1, <2>1, <2>2 DEF PitIsr
<1>2. CASE ~PitIsr
  <2>1. \/ UNCHANGED <<launches, ram>> /\ (cpu'.pc \in {"zero", "copy"} => cpu'.pc = cpu.pc)
        \/ OpenBin \/ LoadZero \/ LoadCopy
    BY <1>2, DeskStep
  <2>2. CASE current_task = 0
    <3>1. TopContext(0)' = cpu' /\ TopContext(0) = cpu
      BY <1>2, <2>2, OwnStep DEF TopContext
    <3>2. CASE LoadCopy
      BY <1>0, <3>1, <3>2 DEF LoadCopy, Context
    <3>3. CASE OpenBin
      BY <1>0, <3>1, <3>3 DEF OpenBin, LoadCopy, InDesktop
    <3>4. CASE LoadZero
      BY <1>0, <3>1, <3>4 DEF LoadZero, LoadCopy
    <3>5. CASE /\ UNCHANGED <<launches, ram>>
               /\ cpu'.pc \in {"zero", "copy"} => cpu'.pc = cpu.pc
               /\ ~LoadCopy
      BY <1>0, <3>1, <3>5
    <3>. QED
      BY <2>1, <3>2, <3>3, <3>4, <3>5
  <2>3. CASE current_task # 0
    <3>1. TopContext(0)' = TopContext(0)
      BY <1>0, <1>2, <2>3, OwnStep
    <3>2. cpu.code # "main"
      BY <2>3, DesktopIsTaskZero
    <3>3. ~OpenBin /\ ~LoadZero /\ ~LoadCopy
      BY <1>0, <3>2 DEF OpenBin, LoadZero, LoadCopy, InDesktop, Shape, DesktopPc
    <3>. QED
      BY <1>0, <2>1, <3>1, <3>3
  <2>. QED
    BY <2>2, <2>3
<1>. QED
  BY <1>1, <1>2

LEMMA AppKept == IInv /\ DeskInv /\ AppInv /\ [Next]_vars => AppInv'
<1> SUFFICES ASSUME IInv, DeskInv, AppInv, [Next]_vars PROVE AppInv'
  OBVIOUS
<1>1. CASE UNCHANGED vars
  BY <1>1 DEF vars, AppInv, AppAbout, HasApp, TopContext, FrameAt
<1>2. CASE Next
  <2> USE <1>2
  <2>1. /\ launches \in Nat /\ launches' \in Nat /\ launches <= launches'
    BY AppStep
  <2>2. ASSUME launches' = 0
        PROVE  ~AppAbout' /\ TopContext(0)'.pc \notin {"zero", "copy"}
    <3>1. launches = 0 /\ launches' # launches + 1
      BY <2>1, <2>2
    <3>2. ~AppAbout /\ TopContext(0).pc \notin {"zero", "copy"}
      BY <3>1 DEF AppInv
    <3>. QED
      BY <3>1, <3>2, AppStep, AppAppears
  <2>3. ASSUME launches' <= 1, TopContext(0)'.pc \in {"zero", "copy"}
        PROVE  ~AppAbout'
    <3>1. ~LoadCopy
      BY <2>3, AppStep
    <3>2. ~AppAbout
      <4>1. CASE TopContext(0).pc \in {"zero", "copy"}
        <5>1. launches <= 1
          BY <2>1, <2>3
        <5>. QED
          BY <4>1, <5>1 DEF AppInv
      <4>2. CASE launches' = launches + 1
        <5>1. launches = 0
          BY <2>1, <2>3, <4>2
        <5>. QED
          BY <5>1 DEF AppInv
      <4>. QED
        BY <2>3, <4>1, <4>2, AppStep
    <3>. QED
      BY <3>1, <3>2, AppAppears
  <2>4. ASSUME launches' <= 1, AppAbout'
        PROVE  ram' = "image"
    <3>1. launches <= 1
      BY <2>1, <2>4
    <3>2. CASE LoadCopy
      BY <3>2, AppStep
    <3>3. CASE ~LoadCopy
      <4>1. AppAbout
        BY <2>4, <3>3, AppAppears
      <4>2. ram = "image" /\ TopContext(0).pc # "zero"
        BY <3>1, <4>1 DEF AppInv
      <4>. QED
        BY <3>3, <4>2, AppStep
    <3>. QED
      BY <3>2, <3>3
  <2>. QED
    BY <2>2, <2>3, <2>4 DEF AppInv
<1>. QED
  BY <1>1, <1>2

(* What holds of the desktop holds in every state of the system.           *)
LEMMA DesktopCreates == SafeSpec => [](IInv /\ DeskInv /\ AppInv)
BY InitIInv, NextIInv, InitDesk, DeskKept, AppKept, PTL DEF SafeSpec

(* The test of the limit that the callers of create_task make with         *)
(* interrupts on still holds when create_task, behind its cli, makes its   *)
(* own: only task 0 creates tasks, however often the timer comes between.  *)
THEOREM CallersTestIsEnough == SafeSpec => []CallerTestStillHolds
<1>1. IInv /\ DeskInv => CallerTestStillHolds
  <2> SUFFICES ASSUME IInv, DeskInv, cpu.pc = "limit" PROVE num_tasks < MaxTasks
    BY DEF CallerTestStillHolds
  <2>1. cpu.code = "main"
    BY CurrentShape DEF Shape, DesktopPc
  <2>2. TopContext(0).pc = "limit"
    BY <2>1, DesktopIsTaskZero
  <2>. QED
    BY <2>2 DEF DeskInv
<1>. QED
  BY <1>1, DesktopCreates, PTL

(* load_and_run_bin clears the program area only while no task can run     *)
(* there, as long as one program is opened: the task of the first .BIN     *)
(* finds its code in place whenever it runs.                               *)
THEOREM FirstProgramIntact == SafeSpec => []FirstAppIntact
<1>1. IInv /\ AppInv => FirstAppIntact
  <2> SUFFICES ASSUME IInv, AppInv, launches <= 1, cpu.code = "app"
               PROVE  ram = "image"
    BY DEF FirstAppIntact, AppCodeIntact
  <2>1. /\ current_task \in TaskIds /\ current_task < num_tasks
        /\ TopContext(current_task) = cpu
    BY CurrentShape DEF IInv, Running, TopContext
  <2>2. AppAbout
    BY <2>1 DEF AppAbout, HasApp
  <2>. QED
    BY <2>2 DEF AppInv
<1>. QED
  BY <1>1, DesktopCreates, PTL
=============================================================================
