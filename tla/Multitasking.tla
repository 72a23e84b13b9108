---------------------------- MODULE Multitasking ----------------------------
(***************************************************************************)
(* Preemptive multitasking: kernel_main makes stacks and tasks, and from   *)
(* then on the timer interrupt switches between them (task.c, idt.c, the   *)
(* stub in interrupt_stubs.s).  A task that is not running exists only as  *)
(* a frame on its stack, so what matters is that the frame is still there, *)
(* unchanged, when the task's turn comes.                                  *)
(*                                                                         *)
(* A stack is named by the address of its top.  Below the top it is a      *)
(* number of cells; a cell holds one frame, of a call or of an interrupt.  *)
(* An interrupt frame saves the registers the stub pushes and what the CPU *)
(* pushes: the code that was running and its stack pointer.                *)
(***************************************************************************)
EXTENDS Heap

CONSTANTS
  StackSize,   \* what kernel_main asks for: 4096
  MaxTasks,    \* entries of tasks[]: 10
  Entries,     \* the tasks kernel_main creates: <<"taskA", "taskB">>
  MaxDepth     \* bound on how deep calls nest

ASSUME StackAssumption == StackSize \in Nat \ {0} /\ StackSize \in Request
ASSUME TasksAssumption == MaxTasks \in Nat \ {0}
ASSUME DepthAssumption == MaxDepth \in Nat \ {0}
ASSUME EntriesAssumption == Entries \in Seq(STRING \ {"kernel_main", "irq0", "stub", "data"})

VARIABLES
  created,       \* how many of Entries kernel_main has passed to Task_Create
  tops,          \* the tops of the stacks kernel_main has allocated
  rsp,           \* tasks[].rsp, a sequence: its length is task_count
  current_task,  \* as in the code, from 0
  cpu,           \* what runs and the stack pointer
  enabled,       \* kernel_main has enabled interrupts
  in_service,    \* the PIC waits for the end of the last timer interrupt
  mem,           \* cell |-> content, for the cells that were written
  stopped        \* history: task |-> where it stopped, for those that do not run

boot == <<created, heap, tops, enabled>>
vars == <<boot, rsp, current_task, cpu, in_service, mem, stopped>>

Cell(top, depth) == [top |-> top, depth |-> depth]
Context(code, sp) == [code |-> code, sp |-> sp]

(* The stack the boot loader left, and a call's own data.                  *)
BootStack == Cell(0, 0)
Local == Context("data", BootStack)

Code == {"kernel_main", "irq0", "stub", "data"} \union Range(Entries)
SP == [top : {0} \union Range(tops), depth : 0 .. (MaxDepth + 2)]

NumTasks == Len(rsp)
Interrupted == cpu.code \in {"irq0", "stub"}

TypeOK ==
  /\ created \in 0 .. Len(tops)
  /\ Len(tops) \in 0 .. Len(Entries)
  /\ NumTasks \in 1 .. MaxTasks /\ Range(rsp) \subseteq SP
  /\ current_task \in 0 .. (NumTasks - 1)
  /\ cpu \in [code : Code, sp : SP]
  /\ enabled \in BOOLEAN /\ in_service \in BOOLEAN
  /\ DOMAIN mem \subseteq SP /\ Range(mem) \subseteq [code : Code, sp : SP]
  /\ DOMAIN stopped \subseteq 0 .. (NumTasks - 1)

(* Task_Init has made what is running task 0. *)
Init ==
  /\ created = 0 /\ tops = << >> /\ enabled = FALSE
  /\ Heap_Init
  /\ rsp = <<BootStack>> /\ current_task = 0
  /\ cpu = Context("kernel_main", BootStack)
  /\ in_service = FALSE
  /\ mem = << >> /\ stopped = << >>

-----------------------------------------------------------------------------
(* kernel_main.                                                            *)

Running(code) == cpu.code = code

(* stackA = kmalloc(4096), and its top, 4096 above what was returned. *)
AllocateStack ==
  /\ Running("kernel_main") /\ Len(tops) < Len(Entries)
  /\ kmalloc(StackSize)
  /\ LET ptr == Kmalloc(blocks, StackSize).ptr
     IN  tops' = Append(tops, (IF ptr = NULL THEN 0 ELSE ptr) + StackSize)
  /\ UNCHANGED <<created, enabled, rsp, current_task, cpu, in_service, mem, stopped>>

(* The first frame of a task is built on its stack. *)
Task_Create(entry, top) ==
  IF NumTasks >= MaxTasks THEN UNCHANGED <<mem, rsp, stopped>>
  ELSE /\ mem' = Bind(mem, Cell(top, 1), Context(entry, Cell(top, 0)))
       /\ rsp' = Append(rsp, Cell(top, 1))
       /\ stopped' = Bind(stopped, NumTasks, Context(entry, Cell(top, 0)))

CreateTask ==
  /\ Running("kernel_main") /\ Len(tops) = Len(Entries) /\ created < Len(Entries)
  /\ created' = created + 1
  /\ Task_Create(Entries[created + 1], tops[created + 1])
  /\ UNCHANGED <<heap, tops, enabled, current_task, cpu, in_service>>

Sti ==
  /\ Running("kernel_main") /\ created = Len(Entries) /\ ~enabled
  /\ enabled' = TRUE
  /\ UNCHANGED <<created, heap, tops, rsp, current_task, cpu, in_service, mem, stopped>>

-----------------------------------------------------------------------------
(* What runs, runs: it calls and returns.                                  *)

Below(sp) == [sp EXCEPT !.depth = @ + 1]

Call ==
  /\ enabled /\ ~Interrupted /\ cpu.sp.depth < MaxDepth
  /\ mem' = Bind(mem, Below(cpu.sp), Local)
  /\ cpu' = [cpu EXCEPT !.sp = Below(@)]
  /\ UNCHANGED <<boot, rsp, current_task, in_service, stopped>>

Return ==
  /\ enabled /\ ~Interrupted /\ cpu.sp.depth > 0
  /\ cpu' = [cpu EXCEPT !.sp.depth = @ - 1]
  /\ UNCHANGED <<boot, rsp, current_task, in_service, mem, stopped>>

-----------------------------------------------------------------------------
(* The timer interrupt.  Its gate keeps interrupts off until the iretq.    *)

(* The CPU and irq0_stub save the context; the handler's own calls use the *)
(* cell below.                                                             *)
TimerInterrupt ==
  /\ enabled /\ ~Interrupted /\ ~in_service
  /\ in_service' = TRUE
  /\ mem' = Bind(Bind(mem, Below(Below(cpu.sp)), Local), Below(cpu.sp), cpu)
  /\ cpu' = Context("irq0", Below(cpu.sp))
  /\ stopped' = Bind(stopped, current_task, cpu)
  /\ UNCHANGED <<boot, rsp, current_task>>

Following == (current_task + 1) % NumTasks

(* Faulty variant: the stack pointer is stored for the task to come. *)
ScheduleStoresLate ==
  /\ rsp' = [rsp EXCEPT ![Following + 1] = cpu.sp]
  /\ current_task' = Following
  /\ cpu' = Context("stub", rsp[Following + 1])

(* Faulty variant: the stub does not take over the stack pointer. *)
ScheduleIgnored ==
  /\ rsp' = [rsp EXCEPT ![current_task + 1] = cpu.sp]
  /\ current_task' = Following
  /\ cpu' = Context("stub", cpu.sp)

(* The stack pointer is stored and the next one returned; the stub takes   *)
(* it over.                                                                *)
Task_Schedule ==
  LET stored == [rsp EXCEPT ![current_task + 1] = cpu.sp]
  IN  /\ rsp' = stored
      /\ current_task' = Following
      /\ cpu' = Context("stub", stored[Following + 1])

(* Faulty variant: the end of the interrupt is not signalled. *)
EndForgotten == UNCHANGED in_service

PIC_EndMaster == in_service' = FALSE

irq0_handler ==
  /\ Running("irq0")
  /\ Task_Schedule
  /\ PIC_EndMaster
  /\ UNCHANGED <<boot, mem, stopped>>

(* The stub restores what it finds at the stack pointer. *)
Iretq ==
  /\ Running("stub")
  /\ cpu' = mem[cpu.sp]
  /\ stopped' = Restrict(stopped, DOMAIN stopped \ {current_task})
  /\ UNCHANGED <<boot, rsp, current_task, in_service, mem>>

Next ==
  \/ AllocateStack \/ CreateTask \/ Sti
  \/ Call \/ Return
  \/ TimerInterrupt \/ irq0_handler \/ Iretq

Spec == Init /\ [][Next]_vars

(* The boot goes on, the timer ticks, and an interrupt is served.          *)
FairSpec ==
  /\ Spec
  /\ WF_vars(AllocateStack) /\ WF_vars(CreateTask) /\ WF_vars(Sti)
  /\ WF_vars(TimerInterrupt) /\ WF_vars(irq0_handler) /\ WF_vars(Iretq)

-----------------------------------------------------------------------------
(***************************************************************************)
(* While a task waits for its turn, the frame its tasks[] entry points to  *)
(* is the one that was saved when it stopped: no other task's calls and no *)
(* other frame have touched it.                                            *)
(***************************************************************************)
FramesSurvive ==
  \A t \in DOMAIN stopped \ {current_task} :
    /\ rsp[t + 1] \in DOMAIN mem
    /\ mem[rsp[t + 1]] = stopped[t]

(***************************************************************************)
(* Stacks, frames and the task table are well formed, and each waiting     *)
(* task's frame is as it was saved.                                        *)
(***************************************************************************)
Inv == TypeOK /\ FramesSurvive

(***************************************************************************)
(* "Starting Preemptive Multitasking..." (main.c:226): an interrupt        *)
(* returns to the task that is current now, at the point where it stopped. *)
(***************************************************************************)
ResumesWhereStopped ==
  [][Iretq => cpu' = stopped[current_task]]_vars

(***************************************************************************)
(* Every task that was created runs again and again, none is starved.      *)
(***************************************************************************)
EveryTaskRuns ==
  \A t \in 0 .. (MaxTasks - 1) :
    enabled /\ t < NumTasks ~> current_task = t /\ ~Interrupted
=============================================================================
