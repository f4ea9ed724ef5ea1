------------------------------- MODULE Server -------------------------------
(***************************************************************************)
(* The server process of stftpu: server_listener_loop() in the main thread,*)
(* one detached thread (a task) per accepted request, the connection slots *)
(* both share under slots_mutex, and the shutdown after a termination      *)
(* signal.  A request, its OperationData_t and its thread share one number.*)
(* What a task does to its file is left to Transfer and Storage: here it   *)
(* is one step that ends.                                                  *)
(***************************************************************************)
EXTENDS Integers, FiniteSets

CONSTANTS
  MaxConnections,   \* SERVER_MAX_CONNECTIONS: 5 in the program
  MaxRequests,      \* bound: how many requests get as far as a slot
  Faults            \* the environment faults that may happen

FaultKinds ==
  { "signal",       \* SIGINT, SIGTERM or SIGHUP
    "thread",       \* pthread_create() fails
    "socket",       \* socket() or setsockopt() fails
    "port" }        \* bind() fails for the port that was drawn

ASSUME ServerAssumption ==
  /\ MaxConnections \in Nat \ {0}
  /\ MaxRequests \in Nat \ {0}
  /\ Faults \subseteq FaultKinds

Slots == 0 .. MaxConnections - 1
Requests == 1 .. MaxRequests

NoSlot == -1      \* server_acquire_connection_slot() found none
Null == 0         \* a thread handle or pointer that was never set
Garbage == -1     \* what a failing pthread_create() may leave in the handle

VARIABLES
  term,        \* should_terminate
  proc,        \* the process: running, exited or crashed
  main,        \* the main thread: pc, the slot in its hand, join index
  requests,    \* how many requests have been given a slot
  free,        \* free_slots_count
  occupied,    \* slot_occupied_flags
  handle,      \* slot_thread_handles
  slotOp,      \* slot_data[].op_data_ptr
  op,          \* the OperationData_t of each request: none, live or freed
  task,        \* the thread of each request: pc, slot in its args, its op_data
  detached,    \* the threads that have called pthread_detach()
  data         \* the ServerData_t: live, blank (its slots zeroed) or freed

slots == <<free, occupied, handle, slotOp>>
vars == <<term, proc, main, requests, slots, op, task, detached, data>>

Running == proc = "running"

-----------------------------------------------------------------------------
(* The connection slots, each call under slots_mutex                       *)

Unoccupied == {s \in Slots : ~ occupied[s]}

\* The flags are searched from the first slot on.
FirstFree(s) == s \in Unoccupied /\ \A o \in Unoccupied : s <= o

\* Mutant: the counter is not decremented.
TakesUncounted(s) ==
  /\ free > 0
  /\ FirstFree(s)
  /\ occupied' = [occupied EXCEPT ![s] = TRUE]
  /\ UNCHANGED free

\* Mutant: the flag test is missing, the first slot is always taken.
TakesFirstSlot(s) ==
  /\ free > 0
  /\ s = 0
  /\ occupied' = [occupied EXCEPT ![s] = TRUE]
  /\ free' = free - 1

\* server_acquire_connection_slot() returning s
Acquires(s) ==
  /\ free > 0
  /\ FirstFree(s)
  /\ occupied' = [occupied EXCEPT ![s] = TRUE]
  /\ free' = free - 1

\* Mutant: the counter is not given back with the flag.
ForgetsCount(s) ==
  /\ occupied' = [occupied EXCEPT ![s] = FALSE]
  /\ UNCHANGED free

\* Mutant: the counter is given back but the flag stays.
ForgetsFlag(s) ==
  /\ free' = free + 1
  /\ UNCHANGED occupied

\* server_release_connection_slot()
Releases(s) ==
  /\ occupied' = [occupied EXCEPT ![s] = FALSE]
  /\ free' = free + 1

-----------------------------------------------------------------------------
(* The listener loop                                                       *)

\* while (!should_terminate), then the call of recvfrom(); a signal may still
\* come in between.
ListenerCheck ==
  /\ main.pc = "check"
  /\ main' = [main EXCEPT !.pc = IF term THEN "join" ELSE "call"]
  /\ UNCHANGED <<term, proc, requests, slots, op, task, detached, data>>

ListenerBlocks ==
  /\ main.pc = "call"
  /\ main' = [main EXCEPT !.pc = "recv"]
  /\ UNCHANGED <<term, proc, requests, slots, op, task, detached, data>>

\* A datagram arrives at port 69: a request, or anything else.
Arrives(got) ==
  /\ main.pc = "recv"
  /\ got = "request" => requests < MaxRequests
  /\ main' = [main EXCEPT !.pc = got]
  /\ UNCHANGED <<term, proc, requests, slots, op, task, detached, data>>

\* Mutant: the flag is not looked at after recvfrom().
ListenerReturnsUnchecked ==
  /\ main.pc \in {"request", "other"}
  /\ main' = [main EXCEPT !.pc = IF main.pc = "request" THEN "accept" ELSE "check"]
  /\ UNCHANGED <<term, proc, requests, slots, op, task, detached, data>>

\* recvfrom() is back: the flag is looked at again, then an error, an empty
\* datagram or a packet that is no request is dismissed.
ListenerReturns ==
  /\ main.pc \in {"request", "other"}
  /\ main' = [main EXCEPT !.pc = IF term THEN "join"
                                 ELSE IF main.pc = "request" THEN "accept" ELSE "check"]
  /\ UNCHANGED <<term, proc, requests, slots, op, task, detached, data>>

\* server_try_create_operation_thread(), stage 1
Accept ==
  /\ main.pc = "accept"
  /\ \E s \in Slots :
       /\ Acquires(s)
       /\ main' = [main EXCEPT !.pc = "parse", !.slot = s]
  /\ requests' = requests + 1
  /\ UNCHANGED <<term, proc, handle, slotOp, op, task, detached, data>>

Reject ==
  /\ main.pc = "accept"
  /\ free = 0 \/ Unoccupied = {}
  /\ main' = [main EXCEPT !.pc = "check"]
  /\ UNCHANGED <<term, proc, requests, slots, op, task, detached, data>>

\* Stage 2: tftp_init_operation_data() refuses the request, or ...
ParseFails ==
  /\ main.pc = "parse"
  /\ Releases(main.slot)
  /\ main' = [main EXCEPT !.pc = "check", !.slot = NoSlot]
  /\ UNCHANGED <<term, proc, requests, handle, slotOp, op, task, detached, data>>

\* ... ends the whole process when it gets no data socket, or ...
SocketFails ==
  /\ main.pc = "parse"
  /\ "socket" \in Faults
  /\ proc' = "exited"
  /\ UNCHANGED <<term, main, requests, slots, op, task, detached, data>>

\* Mutant: the operation data is not stored in the slot of the request.
SlotForDataFirst(s) == 0

SlotForData(s) == s

\* ... draws port after port until bind() succeeds, with no limit and no look at
\* should_terminate, or ...
PortRefused ==
  /\ main.pc = "parse"
  /\ "port" \in Faults
  /\ main' = [main EXCEPT !.pc = "bind"]
  /\ UNCHANGED <<term, proc, requests, slots, op, task, detached, data>>

\* ... allocates the operation data of the request.
Parse ==
  /\ main.pc \in {"parse", "bind"}
  /\ op' = [op EXCEPT ![requests] = "live"]
  /\ slotOp' = [slotOp EXCEPT ![SlotForData(main.slot)] = requests]
  /\ main' = [main EXCEPT !.pc = "create"]
  /\ UNCHANGED <<term, proc, requests, free, occupied, handle, task, detached, data>>

\* Stage 3
CreateThread ==
  /\ main.pc = "create"
  /\ handle' = [handle EXCEPT ![main.slot] = requests]
  /\ task' = [task EXCEPT ![requests] = [pc |-> "start", slot |-> main.slot, op |-> Null]]
  /\ main' = [main EXCEPT !.pc = "check", !.slot = NoSlot]
  /\ UNCHANGED <<term, proc, requests, free, occupied, slotOp, op, detached, data>>

\* The result of pthread_create() is not looked at.
CreateFails ==
  /\ main.pc = "create"
  /\ "thread" \in Faults
  /\ \E h \in {handle[main.slot], Garbage} :
       handle' = [handle EXCEPT ![main.slot] = h]
  /\ task' = [task EXCEPT ![requests] = [pc |-> "unborn", slot |-> main.slot, op |-> Null]]
  /\ main' = [main EXCEPT !.pc = "check", !.slot = NoSlot]
  /\ UNCHANGED <<term, proc, requests, free, occupied, slotOp, op, detached, data>>

-----------------------------------------------------------------------------
(* The shutdown of server_start()                                          *)

\* pthread_join() of the handle of slot s comes back ...
JoinReturns(s) ==
  /\ handle[s] # Null
  /\ handle[s] \in Requests /\ handle[s] \notin detached => task[handle[s]].pc = "exited"

\* ... or is undefined: a handle that names no thread any more, or never did.
\* A null handle is dereferenced by the C library.
JoinCrashes(s) ==
  \/ handle[s] \in {Null, Garbage}
  \/ handle[s] \in detached /\ task[handle[s]].pc = "exited"

\* Mutant: the loop ends one slot early.
JoinAllButLast ==
  /\ main.pc = "join"
  /\ JoinReturns(main.i)
  /\ main' = IF main.i + 2 \in Slots THEN [main EXCEPT !.i = @ + 1]
                                     ELSE [main EXCEPT !.pc = "free"]
  /\ UNCHANGED <<term, proc, requests, slots, op, task, detached, data>>

Join ==
  /\ main.pc = "join"
  /\ JoinReturns(main.i)
  /\ main' = IF main.i + 1 \in Slots THEN [main EXCEPT !.i = @ + 1]
                                     ELSE [main EXCEPT !.pc = "free"]
  /\ UNCHANGED <<term, proc, requests, slots, op, task, detached, data>>

JoinFaults ==
  /\ main.pc = "join"
  /\ JoinCrashes(main.i)
  /\ proc' = "crashed"
  /\ UNCHANGED <<term, main, requests, slots, op, task, detached, data>>

\* server_deinit_slots_data() destroys the mutex and zeroes the slots.
DeinitSlots ==
  /\ main.pc = "free"
  /\ free' = 0
  /\ occupied' = [s \in Slots |-> FALSE]
  /\ handle' = [s \in Slots |-> Null]
  /\ slotOp' = [s \in Slots |-> Null]
  /\ data' = "blank"
  /\ main' = [main EXCEPT !.pc = "dealloc"]
  /\ UNCHANGED <<term, proc, requests, op, task, detached>>

FreeData ==
  /\ main.pc = "dealloc"
  /\ data' = "freed"
  /\ main' = [main EXCEPT !.pc = "return"]
  /\ UNCHANGED <<term, proc, requests, slots, op, task, detached>>

\* server_start() and main() return, which ends every thread.
ProcessExits ==
  /\ main.pc = "return"
  /\ proc' = "exited"
  /\ UNCHANGED <<term, main, requests, slots, op, task, detached, data>>

-----------------------------------------------------------------------------
(* A task: server_task_start() and server_task_release()                   *)

MovesTo(t, pc) == task' = [task EXCEPT ![t].pc = pc]

\* Mutant: a task that finds the flag set returns without any clean-up.
ReturnsAtOnce == IF term THEN "exited" ELSE "run"

\* Without a signal the task runs its operation, with one it goes straight to
\* server_task_release().
AfterStart == IF term THEN "detach" ELSE "run"

TaskStart(t) ==
  /\ task[t].pc = "start"
  /\ task' = [task EXCEPT ![t].pc = AfterStart, ![t].op = slotOp[task[t].slot]]
  /\ UNCHANGED <<term, proc, main, requests, slots, op, detached, data>>

\* The operation runs and ends.
TaskRun(t) ==
  /\ task[t].pc = "run"
  /\ MovesTo(t, "freeop")
  /\ UNCHANGED <<term, proc, main, requests, slots, op, detached, data>>

\* Mutant: the operation data is never freed.
TaskKeepsOperation(t) ==
  /\ task[t].pc = "freeop"
  /\ MovesTo(t, "detach")
  /\ UNCHANGED <<term, proc, main, requests, slots, op, detached, data>>

TaskFreesOperation(t) ==
  /\ task[t].pc = "freeop"
  /\ op' = [op EXCEPT ![task[t].op] = "freed"]
  /\ MovesTo(t, "detach")
  /\ UNCHANGED <<term, proc, main, requests, slots, detached, data>>

TaskDetaches(t) ==
  /\ task[t].pc = "detach"
  /\ detached' = detached \cup {t}
  /\ MovesTo(t, "release")
  /\ UNCHANGED <<term, proc, main, requests, slots, op, data>>

TaskReleases(t) ==
  /\ task[t].pc = "release"
  /\ data = "live"
  /\ Releases(task[t].slot)
  /\ MovesTo(t, "exit")
  /\ UNCHANGED <<term, proc, main, requests, handle, slotOp, op, detached, data>>

\* A detached thread is not waited for: its release may come after the mutex is
\* destroyed and the slots are zeroed or freed, and is undefined then.  It works
\* on the zeroes, writes to memory that is nobody's slot any more, or ends the
\* process; that it waits for the mutex is this step not taken.
TaskReleasesLate(t) ==
  /\ task[t].pc = "release"
  /\ data # "live"
  /\ \/ /\ IF data = "blank" THEN Releases(task[t].slot) ELSE UNCHANGED <<free, occupied>>
        /\ MovesTo(t, "exit")
        /\ UNCHANGED proc
     \/ /\ proc' = "crashed"
        /\ UNCHANGED <<free, occupied, task>>
  /\ UNCHANGED <<term, main, requests, handle, slotOp, op, detached, data>>

\* free(task_args), pthread_exit()
TaskExits(t) ==
  /\ task[t].pc = "exit"
  /\ MovesTo(t, "exited")
  /\ UNCHANGED <<term, proc, main, requests, slots, op, detached, data>>

-----------------------------------------------------------------------------
(* Signals                                                                 *)

\* The threads that a signal of the process may be handled in, beside main.
Alive == {t \in Requests : task[t].pc \notin {"none", "unborn", "exited"}}

\* signal_handler() sets the flag.  In the main thread it interrupts a
\* recvfrom() that has already begun; any other thread may run it instead.
Signal ==
  /\ "signal" \in Faults
  /\ ~ term
  /\ term' = TRUE
  /\ \/ main' = IF main.pc = "recv" THEN [main EXCEPT !.pc = "other"] ELSE main
     \/ Alive # {} /\ UNCHANGED main
  /\ UNCHANGED <<proc, requests, slots, op, task, detached, data>>

-----------------------------------------------------------------------------
(* Specification                                                           *)

Init ==
  /\ term = FALSE
  /\ proc = "running"
  /\ main = [pc |-> "check", slot |-> NoSlot, i |-> 0]
  /\ requests = 0
  /\ free = MaxConnections
  /\ occupied = [s \in Slots |-> FALSE]
  /\ handle = [s \in Slots |-> Null]
  /\ slotOp = [s \in Slots |-> Null]
  /\ op = [t \in Requests |-> "none"]
  /\ task = [t \in Requests |-> [pc |-> "none", slot |-> NoSlot, op |-> Null]]
  /\ detached = {}
  /\ data = "live"

\* What the main thread does by itself; a datagram has to come from outside.
MainStep ==
  /\ Running
  /\ \/ ListenerCheck \/ ListenerBlocks \/ ListenerReturns
     \/ Accept \/ Reject
     \/ ParseFails \/ SocketFails \/ PortRefused \/ Parse
     \/ CreateThread \/ CreateFails
     \/ Join \/ JoinFaults \/ DeinitSlots \/ FreeData \/ ProcessExits

TaskStep(t) ==
  /\ Running
  /\ \/ TaskStart(t) \/ TaskRun(t) \/ TaskFreesOperation(t)
     \/ TaskDetaches(t) \/ TaskReleases(t) \/ TaskReleasesLate(t) \/ TaskExits(t)

Finished == ~ Running /\ UNCHANGED vars

Next ==
  \/ MainStep
  \/ Running /\ \E got \in {"request", "other"} : Arrives(got)
  \/ Running /\ Signal
  \/ \E t \in Requests : TaskStep(t)
  \/ Finished

Spec == Init /\ [][Next]_vars

\* The scheduler runs every thread, and an operation ends (Transfer's
\* Termination); nobody has to send another datagram, and nothing makes bind()
\* succeed.
Fairness ==
  /\ WF_vars(main.pc # "bind" /\ MainStep)
  /\ \A t \in Requests : WF_vars(TaskStep(t))

FairSpec == Spec /\ Fairness

-----------------------------------------------------------------------------
(* Properties                                                              *)

\* The state variables keep their types; until the clean-up, the count of free
\* slots stays within the number of slots.
TypeOK ==
  /\ term \in BOOLEAN
  /\ proc \in {"running", "exited", "crashed"}
  /\ main \in [pc : {"check", "call", "recv", "request", "other", "accept", "parse",
                     "bind", "create", "join", "free", "dealloc", "return"},
               slot : Slots \cup {NoSlot},
               i : Slots]
  /\ requests \in 0 .. MaxRequests
  /\ free \in Nat
  /\ data = "live" => free <= MaxConnections
  /\ occupied \in [Slots -> BOOLEAN]
  /\ handle \in [Slots -> Requests \cup {Null, Garbage}]
  /\ slotOp \in [Slots -> Requests \cup {Null}]
  /\ op \in [Requests -> {"none", "live", "freed"}]
  /\ task \in [Requests -> [pc : {"none", "unborn", "start", "run", "freeop", "detach",
                                  "release", "exit", "exited"},
                            slot : Slots \cup {NoSlot},
                            op : Requests \cup {Null}]]
  /\ detached \subseteq Requests
  /\ data \in {"live", "blank", "freed"}

\* A request owns a slot from server_acquire_connection_slot() until the
\* release; one whose thread was never created owns it for good.
Owns(r, s) ==
  \/ main.slot = s /\ r = requests
  \/ task[r].slot = s /\ task[r].pc \in {"unborn", "start", "run", "freeop", "detach", "release"}

Owned == {p \in Slots \X Requests : Owns(p[2], p[1])}

\* Until the clean-up, free_slots_count counts the slots whose flag is clear, in
\* whatever order listener and tasks acquire and release.
SlotAccounting == data = "live" => free = Cardinality(Unoccupied)

\* Until the clean-up, a flag is set exactly while some request owns the slot: no
\* slot is lost but by a thread that was never created.
OccupiedIsOwned ==
  data = "live" => \A s \in Slots : occupied[s] <=> \E r \in Requests : Owns(r, s)

\* The op_data_ptr a task has read from its slot is the operation of its own
\* request, and it is alive until the task itself frees it.
OperationIsOwn ==
  \A t \in Requests :
    task[t].pc \in {"run", "freeop"} => task[t].op = t /\ op[t] = "live"

\* "Rejecting request - exceeded max connection count" is true: a request is
\* rejected only when every slot is owned by another one.
RejectedOnlyWhenFull ==
  [][Reject => \A s \in Slots : \E r \in Requests : Owns(r, s)]_vars

\* A slot whose thread was never created.
Lost(s) == \E r \in Requests : task[r].pc = "unborn" /\ task[r].slot = s

\* The slot of a request the listener still draws ports for.
Binding(s) == main.pc = "bind" /\ main.slot = s

\* Every slot that is taken comes back, unless pthread_create() failed for it,
\* the listener is stuck in drawing ports for it, or the server ends: tasks that
\* fail, or that a signal stops, release theirs, also while the listener is stuck.
SlotsComeBack ==
  \A s \in Slots : occupied[s] ~> (~ occupied[s] \/ Lost(s) \/ Binding(s) \/ ~ Running)

\* Unless the process is asked to terminate, a task has freed the operation
\* data of its request when its slot goes to another.
OperationsAreFreed ==
  \A t \in Requests :
    task[t].pc \in {"release", "exit", "exited"} => op[t] = "freed" \/ term

\* The shutdown awaits every operation: no task is still at it when the server
\* cleans up the slots, though handles are overwritten as slots are reused and
\* threads detach themselves.
ShutdownAwaitsOperations ==
  data # "live" =>
    \A t \in Requests : task[t].pc \notin {"start", "run", "freeop", "detach"}

\* A request that reaches the listener after the termination signal gets no
\* slot.
SignalStopsAdmission ==
  \A k \in 0 .. MaxRequests :
    []( term /\ main.pc \in {"check", "call", "recv", "request", "other"} /\ requests = k
        => [](requests = k) )

\* The server never crashes on its way out.
ShutdownIsGraceful == proc # "crashed"

\* The slots are shared as SlotPool specifies.
Pool == INSTANCE SlotPool WITH owns <- Owned

PoolSpec == Pool!Spec
=============================================================================
