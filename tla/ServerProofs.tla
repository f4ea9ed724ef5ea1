---------------------------- MODULE ServerProofs ----------------------------
(***************************************************************************)
(* Theorems about Server for every number of connection slots and requests *)
(* and every set of environment faults.                                    *)
(*                                                                         *)
(* The argument: a slot is handed from the listener to one task and back   *)
(* to the pool, so the owners of a slot never meet (Exclusive), its flag   *)
(* is set exactly as long as it has an owner, and what the slot says of    *)
(* the operation data is written before its task is created and not again  *)
(* before that task has given the slot back (OperationInSlot).             *)
(***************************************************************************)
EXTENDS Server, FiniteSetTheorems, TLAPS

\* The task of a request exists once the listener has let go of its slot.
Stages ==
  /\ main.pc \in {"parse", "bind", "create"} <=> main.slot \in Slots
  /\ main.slot \in Slots => requests \in Requests /\ task[requests].pc = "none"
  /\ main.pc \in {"request", "accept"} => requests < MaxRequests
  /\ \A t \in Requests : task[t].pc # "none" => t <= requests /\ task[t].slot \in Slots
  /\ data = "live" <=> main.pc \notin {"dealloc", "return"}

\* A task between its creation and pthread_detach().
Working(t) == task[t].pc \in {"start", "run", "freeop", "detach"}

\* Behind the joins no task is at work.
Quiescent == main.pc \in {"free", "dealloc", "return"} => \A t \in Requests : ~ Working(t)

\* A slot has one owner at most.
Exclusive == \A s \in Slots : \A q, r \in Requests : Owns(q, s) /\ Owns(r, s) => q = r

\* The slot holds the operation data of its request, from before the task is
\* created until the task has read it.
OperationInSlot ==
  /\ main.pc = "create" => slotOp[main.slot] = requests /\ op[requests] = "live"
  /\ \A t \in Requests :
       task[t].pc = "start" => slotOp[task[t].slot] = t /\ op[t] = "live"

IInv ==
  /\ TypeOK
  /\ Stages
  /\ Exclusive
  /\ OccupiedIsOwned
  /\ SlotAccounting
  /\ OperationInSlot
  /\ OperationIsOwn

\* Where a task may stand, and where it owns its slot.
TaskPcs == {"none", "unborn", "start", "run", "freeop", "detach", "release", "exit", "exited"}

Owning == {"unborn", "start", "run", "freeop", "detach", "release"}

\* What a step may do to the owners.
PoolStep == Pool!Next \/ UNCHANGED Owned

-----------------------------------------------------------------------------
(* Facts that the steps share                                              *)

\* What the assumptions say of the constants.
LEMMA Constants ==
  /\ MaxConnections \in Nat /\ MaxConnections >= 1
  /\ MaxRequests \in Nat /\ MaxRequests >= 1
  /\ Slots = 0 .. MaxConnections - 1 /\ Requests = 1 .. MaxRequests
  /\ NoSlot \notin Slots /\ Null \notin Requests /\ Garbage \notin Requests
BY ServerAssumption DEF Slots, Requests, NoSlot, Null, Garbage

\* A step of one task leaves the others alone.
LEMMA MovesToFacts ==
  ASSUME TypeOK, NEW t \in Requests, NEW pc \in TaskPcs, MovesTo(t, pc)
  PROVE  /\ task' \in [Requests -> [pc : TaskPcs, slot : Slots \cup {NoSlot},
                                    op : Requests \cup {Null}]]
         /\ task'[t].pc = pc /\ task'[t].slot = task[t].slot /\ task'[t].op = task[t].op
         /\ \A r \in Requests \ {t} : task'[r] = task[r]
BY DEF TypeOK, MovesTo, TaskPcs

\* Taking one more slot, or giving one back, changes the number of clear flags
\* by one.
LEMMA CountsOne ==
  ASSUME TypeOK, SlotAccounting, data = "live", NEW s \in Slots
  PROVE  /\ Acquires(s) => /\ SlotAccounting' /\ occupied' \in [Slots -> BOOLEAN]
                           /\ free' \in Nat /\ free' <= MaxConnections
         /\ occupied[s] /\ Releases(s) => /\ SlotAccounting' /\ occupied' \in [Slots -> BOOLEAN]
                                         /\ free' \in Nat /\ free' <= MaxConnections
<1>1. IsFiniteSet(Slots) /\ Cardinality(Slots) = MaxConnections
  <2>1. Cardinality(0 .. MaxConnections - 1) = MaxConnections - 1 - 0 + 1
        /\ IsFiniteSet(0 .. MaxConnections - 1)
    BY FS_Interval, Constants
  <2> QED
    BY <2>1, Constants
<1>2. /\ Unoccupied \subseteq Slots /\ IsFiniteSet(Unoccupied)
      /\ Cardinality(Unoccupied) \in Nat
  BY <1>1, FS_Subset, FS_CardinalityType DEF Unoccupied
<1>3. CASE Acquires(s)
  <2>1. occupied' = [occupied EXCEPT ![s] = TRUE] /\ s \in Unoccupied /\ free' = free - 1
    BY <1>3 DEF Acquires, FirstFree
  <2>2. Unoccupied' = Unoccupied \ {s} /\ occupied' \in [Slots -> BOOLEAN]
    BY <2>1 DEF Unoccupied, TypeOK
  <2>3. Cardinality(Unoccupied') = Cardinality(Unoccupied) - 1
    BY <1>2, <2>1, <2>2, FS_RemoveElement
  <2>4. free > 0
    BY <1>3 DEF Acquires
  <2> QED
    BY <1>2, <2>1, <2>2, <2>3, <2>4, Constants DEF SlotAccounting, TypeOK
<1>4. CASE occupied[s] /\ Releases(s)
  <2>1. occupied' = [occupied EXCEPT ![s] = FALSE] /\ s \notin Unoccupied /\ free' = free + 1
    BY <1>4 DEF Releases, Unoccupied
  <2>2. Unoccupied' = Unoccupied \cup {s} /\ occupied' \in [Slots -> BOOLEAN]
    BY <2>1 DEF Unoccupied, TypeOK
  <2>3. Cardinality(Unoccupied') = Cardinality(Unoccupied) + 1
    BY <1>2, <2>1, <2>2, FS_AddElement
  <2>4. Cardinality(Unoccupied') <= MaxConnections
    <3>1. Unoccupied' \subseteq Slots
      BY <2>2, <1>2
    <3> QED
      BY <1>1, <3>1, FS_Subset
  <2> QED
    BY <1>2, <2>1, <2>2, <2>3, <2>4, Constants DEF SlotAccounting, TypeOK
<1> QED
  BY <1>3, <1>4

\* A step that moves no slot from owner to owner keeps the accounts.
LEMMA SameOwners ==
  ASSUME IInv, UNCHANGED <<free, occupied>> \/ data' # "live", data' = "live" => data = "live",
         \A r \in Requests, s \in Slots : Owns(r, s)' <=> Owns(r, s)
  PROVE  Exclusive' /\ OccupiedIsOwned' /\ SlotAccounting' /\ PoolStep
<1>1. Exclusive'
  BY DEF IInv, Exclusive
<1>2. OccupiedIsOwned'
  BY DEF IInv, OccupiedIsOwned
<1>3. SlotAccounting'
  BY DEF IInv, SlotAccounting, Unoccupied
<1>4. PoolStep
  BY DEF PoolStep, Owned
<1> QED
  BY <1>1, <1>2, <1>3, <1>4

\* A step of the main thread that keeps its slot and touches no task.
LEMMA MainFrame ==
  ASSUME IInv, UNCHANGED <<requests, slots, op, task, detached>>,
         main' \in [pc : {"check", "call", "recv", "request", "other", "accept", "parse",
                          "bind", "create", "join", "free", "dealloc", "return"},
                    slot : Slots \cup {NoSlot}, i : Slots],
         main'.slot = main.slot,
         main'.pc \in {"parse", "bind", "create"} <=> main.pc \in {"parse", "bind", "create"},
         main'.pc = "create" => main.pc = "create",
         main'.pc \in {"request", "accept"} => requests < MaxRequests,
         data' = "live" <=> main'.pc \notin {"dealloc", "return"},
         main'.pc \in {"dealloc", "return"} <=> main.pc \in {"dealloc", "return"},
         term' \in BOOLEAN, proc' \in {"running", "exited", "crashed"},
         data' \in {"live", "blank", "freed"}
  PROVE  IInv' /\ PoolStep
<1>1. TypeOK'
  <2>1. free' = free /\ (data' = "live" => data = "live")
    BY DEF IInv, Stages, slots
  <2> QED
    BY <2>1 DEF IInv, TypeOK, slots
<1>2. Stages'
  BY DEF IInv, Stages
<1>3. Exclusive' /\ OccupiedIsOwned' /\ SlotAccounting' /\ PoolStep
  BY SameOwners DEF Owns, slots, IInv, Stages
<1>4. OperationInSlot' /\ OperationIsOwn'
  BY DEF IInv, OperationInSlot, OperationIsOwn, slots
<1> QED
  BY <1>1, <1>2, <1>3, <1>4 DEF IInv

\* The server starts from the inductive invariant.
LEMMA InitInvariant == Init => IInv
<1> SUFFICES ASSUME Init PROVE IInv
  OBVIOUS
<1>1. TypeOK
  <2>1. 0 \in Slots /\ 0 \in 0 .. MaxRequests /\ free \in Nat /\ free <= MaxConnections
    BY Constants DEF Init
  <2>2. /\ occupied \in [Slots -> BOOLEAN]
        /\ handle \in [Slots -> Requests \cup {Null, Garbage}]
        /\ slotOp \in [Slots -> Requests \cup {Null}]
        /\ op \in [Requests -> {"none", "live", "freed"}]
        /\ task \in [Requests -> [pc : TaskPcs, slot : Slots \cup {NoSlot},
                                  op : Requests \cup {Null}]]
    BY DEF Init, TaskPcs
  <2> QED
    BY <2>1, <2>2 DEF Init, TypeOK, TaskPcs
<1>2. Stages /\ Exclusive /\ OccupiedIsOwned /\ OperationInSlot /\ OperationIsOwn
  BY Constants DEF Init, Stages, Exclusive, OccupiedIsOwned, OperationInSlot,
                   OperationIsOwn, Owns
<1>3. SlotAccounting
  <2>1. Unoccupied = 0 .. MaxConnections - 1
    BY Constants DEF Init, Unoccupied
  <2>2. Cardinality(0 .. MaxConnections - 1) = MaxConnections - 1 - 0 + 1
    BY FS_Interval, Constants
  <2> QED
    BY <2>1, <2>2, Constants DEF Init, SlotAccounting
<1> QED
  BY <1>1, <1>2, <1>3 DEF IInv

-----------------------------------------------------------------------------
(* The main thread                                                         *)

\* Stage 1 of a request: from now on it owns the slot.
LEMMA AcceptKeepsInv ==
  ASSUME IInv, Accept
  PROVE  IInv' /\ PoolStep
<1>1. PICK s \in Slots : /\ Acquires(s)
                         /\ main' = [main EXCEPT !.pc = "parse", !.slot = s]
  BY DEF Accept
<1>2. /\ main.pc = "accept" /\ requests' = requests + 1
      /\ UNCHANGED <<term, proc, handle, slotOp, op, task, detached, data>>
      /\ ~ occupied[s] /\ occupied' = [occupied EXCEPT ![s] = TRUE]
  BY <1>1 DEF Accept, Acquires, FirstFree, Unoccupied
<1>3. /\ main.slot \notin Slots /\ requests \in Nat /\ requests' \in Requests
      /\ requests' \in 0 .. MaxRequests
      /\ main'.slot = s /\ main'.pc = "parse"
      /\ \A t \in Requests : task[t].pc # "none" => t <= requests
  BY <1>1, <1>2, Constants DEF IInv, TypeOK, Stages
<1>4. task'[requests'].pc = "none"
  BY <1>2, <1>3, Constants DEF IInv, TypeOK
<1>5. /\ data = "live"
      /\ SlotAccounting' /\ occupied' \in [Slots -> BOOLEAN]
      /\ free' \in Nat /\ free' <= MaxConnections
  BY <1>1, <1>2, CountsOne DEF IInv, Stages
<1>6. TypeOK'
  BY <1>1, <1>2, <1>3, <1>5 DEF IInv, TypeOK
<1>7. Stages'
  BY <1>2, <1>3, <1>4, Constants DEF IInv, Stages
<1>8. \A r \in Requests, o \in Slots :
        Owns(r, o)' <=> Owns(r, o) \/ (r = requests' /\ o = s)
  BY <1>2, <1>3 DEF Owns
<1>9. \A r \in Requests : ~ Owns(r, s)
  BY <1>2, <1>5 DEF IInv, OccupiedIsOwned
<1>10. Exclusive'
  BY <1>8, <1>9 DEF IInv, Exclusive
<1>11. OccupiedIsOwned'
  BY <1>2, <1>3, <1>8 DEF IInv, OccupiedIsOwned, TypeOK
<1>12. OperationInSlot' /\ OperationIsOwn'
  BY <1>2, <1>3 DEF IInv, OperationInSlot, OperationIsOwn
<1>13. PoolStep
  <2>1. Owned' = Owned \cup {<<s, requests'>>}
    <3>1. \A p \in Slots \X Requests :
            Owns(p[2], p[1])' <=> Owns(p[2], p[1]) \/ p = <<s, requests'>>
      BY <1>8
    <3> QED
      BY <1>3, <3>1 DEF Owned
  <2>2. \A o \in Slots : ~ Owns(requests', o)
    BY <1>2, <1>3, <1>4 DEF Owns
  <2>3. \A p \in Owned : p[1] # s /\ p[2] # requests'
    BY <1>9, <2>2 DEF Owned
  <2>4. Pool!Take(s, requests')
    BY <2>1, <2>3 DEF Pool!Take
  <2> QED
    BY <1>3, <2>4 DEF PoolStep, Pool!Next
<1> QED
  BY <1>5, <1>6, <1>7, <1>10, <1>11, <1>12, <1>13 DEF IInv

\* A request that is refused gives its slot back at once.
LEMMA ParseFailsKeepsInv ==
  ASSUME IInv, ParseFails
  PROVE  IInv' /\ PoolStep
<1> DEFINE s == main.slot
<1>1. /\ main.pc = "parse" /\ Releases(s)
      /\ main' = [main EXCEPT !.pc = "check", !.slot = NoSlot]
      /\ UNCHANGED <<term, proc, requests, handle, slotOp, op, task, detached, data>>
      /\ occupied' = [occupied EXCEPT ![s] = FALSE]
  BY DEF ParseFails, Releases
<1>2. /\ s \in Slots /\ requests \in Requests /\ task[requests].pc = "none"
      /\ main'.slot = NoSlot /\ main'.pc = "check" /\ data = "live"
  BY <1>1 DEF IInv, TypeOK, Stages
<1>3. Owns(requests, s) /\ occupied[s]
  BY <1>2 DEF Owns, IInv, OccupiedIsOwned
<1>4. /\ SlotAccounting' /\ occupied' \in [Slots -> BOOLEAN]
      /\ free' \in Nat /\ free' <= MaxConnections
  BY <1>1, <1>2, <1>3, CountsOne DEF IInv
<1>5. TypeOK'
  BY <1>1, <1>4 DEF IInv, TypeOK
<1>6. Stages'
  BY <1>1, <1>2, Constants DEF IInv, Stages
<1>7. \A r \in Requests, o \in Slots :
        Owns(r, o)' <=> Owns(r, o) /\ o # s
  <2>1. \A r \in Requests : Owns(r, s) => r = requests
    BY <1>2, <1>3 DEF IInv, Exclusive
  <2> QED
    BY <1>1, <1>2, <2>1, Constants DEF Owns
<1>8. Exclusive'
  BY <1>7 DEF IInv, Exclusive
<1>9. OccupiedIsOwned'
  BY <1>1, <1>2, <1>7 DEF IInv, OccupiedIsOwned, TypeOK
<1>10. OperationInSlot' /\ OperationIsOwn'
  BY <1>1, <1>2 DEF IInv, OperationInSlot, OperationIsOwn
<1>11. PoolStep
  <2>1. \A r \in Requests, o \in Slots : Owns(r, o) /\ o = s => r = requests
    BY <1>2, <1>3 DEF IInv, Exclusive
  <2>2. Owned' = Owned \ {<<s, requests>>}
    BY <1>2, <1>7, <2>1 DEF Owned
  <2>3. Pool!Give(s, requests)
    BY <1>2, <1>3, <2>2 DEF Pool!Give, Owned
  <2> QED
    BY <1>2, <2>3 DEF PoolStep, Pool!Next
<1> QED
  BY <1>4, <1>5, <1>6, <1>8, <1>9, <1>10, <1>11 DEF IInv

\* Stage 2 writes to the slot of the request and to no other.
LEMMA ParseKeepsInv ==
  ASSUME IInv, Parse
  PROVE  IInv' /\ PoolStep
<1>1. /\ main.pc \in {"parse", "bind"}
      /\ op' = [op EXCEPT ![requests] = "live"]
      /\ slotOp' = [slotOp EXCEPT ![main.slot] = requests]
      /\ main' = [main EXCEPT !.pc = "create"]
      /\ UNCHANGED <<term, proc, requests, free, occupied, handle, task, detached, data>>
  BY DEF Parse, SlotForData
<1>2. /\ main.slot \in Slots /\ requests \in Requests /\ task[requests].pc = "none"
      /\ main'.slot = main.slot /\ main'.pc = "create"
  BY <1>1 DEF IInv, TypeOK, Stages
<1>3. TypeOK'
  BY <1>1, <1>2 DEF IInv, TypeOK
<1>4. Stages'
  BY <1>1, <1>2 DEF IInv, Stages
<1>5. Exclusive' /\ OccupiedIsOwned' /\ SlotAccounting' /\ PoolStep
  BY <1>1, <1>2, SameOwners DEF Owns
<1>6. \A t \in Requests : task[t].pc = "start" => task[t].slot # main.slot /\ t # requests
  BY <1>2 DEF IInv, Exclusive, Owns
<1>7. OperationInSlot'
  BY <1>1, <1>2, <1>6 DEF IInv, OperationInSlot, Stages, TypeOK
<1>8. OperationIsOwn'
  BY <1>1, <1>2 DEF IInv, OperationIsOwn, TypeOK
<1> QED
  BY <1>3, <1>4, <1>5, <1>7, <1>8 DEF IInv

\* Stage 3 hands the slot to the task, born or not.
LEMMA CreateKeepsInv ==
  ASSUME IInv, CreateThread \/ CreateFails
  PROVE  IInv' /\ PoolStep
<1>1. /\ main.pc = "create"
      /\ main' = [main EXCEPT !.pc = "check", !.slot = NoSlot]
      /\ UNCHANGED <<term, proc, requests, free, occupied, slotOp, op, detached, data>>
  BY DEF CreateThread, CreateFails
<1>2. /\ main.slot \in Slots /\ requests \in Requests /\ task[requests].pc = "none"
      /\ main'.slot = NoSlot /\ main'.pc = "check" /\ data = "live"
  BY <1>1 DEF IInv, TypeOK, Stages
<1>3. handle' \in [Slots -> Requests \cup {Null, Garbage}]
  <2>1. CASE CreateThread
    BY <1>2, <2>1 DEF CreateThread, IInv, TypeOK
  <2>2. CASE CreateFails
    <3>1. PICK h \in {handle[main.slot], Garbage} :
            handle' = [handle EXCEPT ![main.slot] = h]
      BY <2>2 DEF CreateFails
    <3> QED
      BY <1>2, <3>1 DEF IInv, TypeOK
  <2> QED
    BY <2>1, <2>2
<1>4. /\ task' \in [Requests -> [pc : TaskPcs, slot : Slots \cup {NoSlot},
                                 op : Requests \cup {Null}]]
      /\ task'[requests].pc \in {"start", "unborn"} /\ task'[requests].slot = main.slot
      /\ \A r \in Requests \ {requests} : task'[r] = task[r]
  <2>1. CASE CreateThread
    BY <1>2, <2>1 DEF CreateThread, IInv, TypeOK, TaskPcs
  <2>2. CASE CreateFails
    <3>1. task' = [task EXCEPT ![requests] = [pc |-> "unborn", slot |-> main.slot, op |-> Null]]
      BY <2>2 DEF CreateFails
    <3> QED
      BY <1>2, <3>1 DEF IInv, TypeOK, TaskPcs
  <2> QED
    BY <2>1, <2>2
<1>5. TypeOK'
  BY <1>1, <1>3, <1>4 DEF IInv, TypeOK, TaskPcs
<1>6. Stages'
  <2>1. requests \in Nat /\ requests <= requests
    BY <1>2, Constants
  <2>2. \A t \in Requests : task'[t].pc # "none" => t <= requests /\ task'[t].slot \in Slots
    BY <1>2, <1>4, <2>1 DEF IInv, Stages
  <2> QED
    BY <1>1, <1>2, <2>2, Constants DEF Stages
<1>7. \A r \in Requests, s \in Slots : Owns(r, s)' <=> Owns(r, s)
  <2> SUFFICES ASSUME NEW r \in Requests, NEW s \in Slots
               PROVE  Owns(r, s)' <=> Owns(r, s)
    OBVIOUS
  <2>1. CASE r = requests
    <3>1. Owns(r, s) <=> s = main.slot
      BY <1>2, <2>1 DEF Owns
    <3>2. Owns(r, s)' <=> s = main.slot
      BY <1>1, <1>2, <1>4, <2>1, Constants DEF Owns
    <3> QED
      BY <3>1, <3>2
  <2>2. CASE r # requests
    BY <1>1, <1>2, <1>4, <2>2, Constants DEF Owns
  <2> QED
    BY <2>1, <2>2
<1>8. Exclusive' /\ OccupiedIsOwned' /\ SlotAccounting' /\ PoolStep
  BY <1>1, <1>7, SameOwners
<1>9. OperationInSlot' /\ OperationIsOwn'
  BY <1>1, <1>2, <1>4 DEF IInv, OperationInSlot, OperationIsOwn
<1> QED
  BY <1>5, <1>6, <1>8, <1>9 DEF IInv

\* Zeroing the slots takes nothing from a task that has still to read its slot.
LEMMA DeinitKeepsInv ==
  ASSUME IInv, Quiescent, DeinitSlots
  PROVE  IInv' /\ PoolStep
<1>1. /\ main.pc = "free" /\ main' = [main EXCEPT !.pc = "dealloc"] /\ data' = "blank"
      /\ free' = 0 /\ occupied' = [s \in Slots |-> FALSE]
      /\ handle' = [s \in Slots |-> Null] /\ slotOp' = [s \in Slots |-> Null]
      /\ UNCHANGED <<term, proc, requests, op, task, detached>>
  BY DEF DeinitSlots
<1>2. main'.slot = main.slot /\ main'.pc = "dealloc"
  BY <1>1 DEF IInv, TypeOK
<1>3. TypeOK'
  BY <1>1 DEF IInv, TypeOK
<1>4. Stages'
  BY <1>1, <1>2 DEF IInv, Stages
<1>5. Exclusive' /\ OccupiedIsOwned' /\ SlotAccounting' /\ PoolStep
  BY <1>1, <1>2, SameOwners DEF Owns
<1>6. \A t \in Requests : task[t].pc # "start"
  BY <1>1 DEF Quiescent, Working
<1>7. OperationInSlot' /\ OperationIsOwn'
  BY <1>1, <1>2, <1>6 DEF IInv, OperationInSlot, OperationIsOwn
<1> QED
  BY <1>3, <1>4, <1>5, <1>7 DEF IInv

\* One case per step of the main thread.
LEMMA MainStepKeepsInv == IInv /\ Quiescent /\ MainStep => IInv' /\ PoolStep
<1> SUFFICES ASSUME IInv, Quiescent, MainStep PROVE IInv' /\ PoolStep
  OBVIOUS
<1>1. /\ term \in BOOLEAN /\ proc \in {"running", "exited", "crashed"}
      /\ data \in {"live", "blank", "freed"}
      /\ data = "live" <=> main.pc \notin {"dealloc", "return"}
      /\ main.pc \in {"request", "accept"} => requests < MaxRequests
  BY DEF IInv, TypeOK, Stages
<1>2. CASE ListenerCheck
  BY <1>1, <1>2, MainFrame DEF ListenerCheck, IInv, TypeOK
<1>3. CASE ListenerBlocks
  BY <1>1, <1>3, MainFrame DEF ListenerBlocks, IInv, TypeOK
<1>4. CASE ListenerReturns
  <2>1. \E pc \in {"join", "accept", "check"} :
          /\ main' = [main EXCEPT !.pc = pc]
          /\ pc = "accept" => main.pc = "request"
    BY <1>4 DEF ListenerReturns
  <2>2. PICK pc \in {"join", "accept", "check"} :
          /\ main' = [main EXCEPT !.pc = pc]
          /\ pc = "accept" => main.pc = "request"
    BY <2>1
  <2>3. main.pc = "request" => requests < MaxRequests
    BY DEF IInv, Stages
  <2> QED
    BY <1>1, <1>4, <2>2, <2>3, MainFrame DEF ListenerReturns, IInv, TypeOK
<1>5. CASE Reject
  BY <1>1, <1>5, MainFrame DEF Reject, IInv, TypeOK
<1>6. CASE SocketFails \/ JoinFaults \/ ProcessExits
  <2>1. main' = main /\ UNCHANGED <<term, data, requests, slots, op, task, detached>>
        /\ proc' \in {"running", "exited", "crashed"}
    BY <1>6 DEF SocketFails, JoinFaults, ProcessExits
  <2>2. main.pc \in {"request", "accept"} => requests < MaxRequests
    BY DEF IInv, Stages
  <2> QED
    BY <1>1, <2>1, <2>2, MainFrame DEF IInv, TypeOK
<1>7. CASE Join
  <2>1. CASE main.i + 1 \in Slots
    BY <1>1, <1>7, <2>1, MainFrame DEF Join, IInv, TypeOK
  <2>2. CASE main.i + 1 \notin Slots
    BY <1>1, <1>7, <2>2, MainFrame DEF Join, IInv, TypeOK
  <2> QED
    BY <2>1, <2>2
<1>8. CASE FreeData
  BY <1>1, <1>8, MainFrame DEF FreeData, IInv, TypeOK
<1>9. CASE PortRefused
  BY <1>1, <1>9, MainFrame DEF PortRefused, IInv, TypeOK
<1>10. CASE DeinitSlots
  BY <1>10, DeinitKeepsInv
<1> QED
  BY <1>2, <1>3, <1>4, <1>5, <1>6, <1>7, <1>8, <1>9, <1>10, AcceptKeepsInv,
     ParseFailsKeepsInv, ParseKeepsInv, CreateKeepsInv DEF MainStep

-----------------------------------------------------------------------------
(* The tasks                                                               *)

\* A step of a task that keeps its slot.
LEMMA TaskFrame ==
  ASSUME IInv, NEW t \in Requests, task[t].pc \in Owning,
         UNCHANGED <<term, proc, main, requests, slots, data>>,
         detached' \subseteq Requests,
         op' \in [Requests -> {"none", "live", "freed"}],
         \A r \in Requests \ {t} : op'[r] = op[r],
         task' \in [Requests -> [pc : TaskPcs, slot : Slots \cup {NoSlot},
                                 op : Requests \cup {Null}]],
         \A r \in Requests \ {t} : task'[r] = task[r],
         task'[t].slot = task[t].slot, task'[t].pc \in Owning \ {"start"},
         task'[t].pc \in {"run", "freeop"} => task'[t].op = t /\ op'[t] = "live"
  PROVE  IInv' /\ PoolStep
<1>1. TypeOK'
  BY DEF IInv, TypeOK, TaskPcs, slots
<1>2. task[t].pc # "none" /\ task'[t].pc # "none"
  BY DEF Owning
<1>3. main.slot \in Slots => requests # t
  BY <1>2 DEF IInv, Stages
<1>4. Stages'
  BY <1>2, <1>3 DEF IInv, Stages
<1>5. \A r \in Requests, s \in Slots : Owns(r, s)' <=> Owns(r, s)
  <2> SUFFICES ASSUME NEW r \in Requests, NEW s \in Slots
               PROVE  Owns(r, s)' <=> Owns(r, s)
    OBVIOUS
  <2>1. CASE r = t
    BY <2>1 DEF Owns, Owning
  <2>2. CASE r # t
    BY <2>2 DEF Owns
  <2> QED
    BY <2>1, <2>2
<1>6. Exclusive' /\ OccupiedIsOwned' /\ SlotAccounting' /\ PoolStep
  BY <1>5, SameOwners DEF slots
<1>7. OperationInSlot'
  <2>1. main.pc = "create" => requests \in Requests \ {t}
    BY <1>3 DEF IInv, Stages
  <2> QED
    BY <2>1 DEF IInv, OperationInSlot, slots
<1>8. OperationIsOwn'
  BY DEF IInv, OperationIsOwn
<1> QED
  BY <1>1, <1>4, <1>6, <1>7, <1>8 DEF IInv

\* The task gives its slot back, in time or late.
LEMMA TaskReleasesKeepsInv ==
  ASSUME IInv, NEW t \in Requests, task[t].pc = "release", MovesTo(t, "exit"),
         \/ Releases(task[t].slot)
         \/ data # "live" /\ UNCHANGED <<free, occupied>>,
         UNCHANGED <<term, proc, main, requests, handle, slotOp, op, detached, data>>
  PROVE  IInv' /\ PoolStep
<1> DEFINE s == task[t].slot
<1>1. /\ data = "live" => Releases(s)
      /\ data = "live" => occupied' = [occupied EXCEPT ![s] = FALSE]
      /\ Releases(s) \/ UNCHANGED <<free, occupied>>
  BY DEF Releases
<1>2. s \in Slots /\ Owns(t, s) /\ (data = "live" => occupied[s])
  BY <1>1 DEF IInv, Stages, Owns, OccupiedIsOwned
<1>3. /\ SlotAccounting' /\ free' \in Nat /\ occupied' \in [Slots -> BOOLEAN]
      /\ data = "live" => free' <= MaxConnections
  <2>1. CASE data = "live"
    BY <1>1, <1>2, <2>1, CountsOne, Constants DEF IInv
  <2>2. CASE data # "live"
    <3>1. CASE Releases(s)
      BY <1>2, <2>2, <3>1 DEF IInv, TypeOK, SlotAccounting, Releases
    <3>2. CASE UNCHANGED <<free, occupied>>
      BY <2>2, <3>2 DEF IInv, TypeOK, SlotAccounting
    <3> QED
      BY <1>1, <3>1, <3>2
  <2> QED
    BY <2>1, <2>2
<1>4. /\ task' \in [Requests -> [pc : TaskPcs, slot : Slots \cup {NoSlot},
                                 op : Requests \cup {Null}]]
      /\ task'[t].pc = "exit" /\ task'[t].slot = s
      /\ \A r \in Requests \ {t} : task'[r] = task[r]
  BY <1>1, MovesToFacts DEF IInv, TaskPcs
<1>5. TypeOK'
  BY <1>1, <1>3, <1>4 DEF IInv, TypeOK, TaskPcs
<1>6. main.slot \in Slots => requests # t
  BY <1>1 DEF IInv, Stages
<1>7. Stages'
  BY <1>1, <1>2, <1>4, <1>6 DEF IInv, Stages
<1>8. \A r \in Requests, o \in Slots : Owns(r, o)' <=> Owns(r, o) /\ o # s
  <2> SUFFICES ASSUME NEW r \in Requests, NEW o \in Slots
               PROVE  Owns(r, o)' <=> Owns(r, o) /\ o # s
    OBVIOUS
  <2>1. Owns(r, s) => r = t
    BY <1>2 DEF IInv, Exclusive
  <2>2. CASE r = t
    BY <1>1, <1>2, <1>4, <1>6, <2>2 DEF Owns
  <2>3. CASE r # t
    BY <1>1, <1>4, <2>1, <2>3 DEF Owns
  <2> QED
    BY <2>2, <2>3
<1>9. Exclusive'
  BY <1>8 DEF IInv, Exclusive
<1>10. OccupiedIsOwned'
  BY <1>1, <1>2, <1>8 DEF IInv, OccupiedIsOwned, TypeOK
<1>11. OperationInSlot' /\ OperationIsOwn'
  BY <1>1, <1>4, <1>6 DEF IInv, OperationInSlot, OperationIsOwn, Stages
<1>12. PoolStep
  <2>1. \A r \in Requests, o \in Slots : Owns(r, o) /\ o = s => r = t
    BY <1>2 DEF IInv, Exclusive
  <2>2. Owned' = Owned \ {<<s, t>>}
    BY <1>2, <1>8, <2>1 DEF Owned
  <2>3. Pool!Give(s, t)
    BY <1>2, <2>2 DEF Pool!Give, Owned
  <2> QED
    BY <1>2, <2>3 DEF PoolStep, Pool!Next
<1> QED
  BY <1>3, <1>5, <1>7, <1>9, <1>10, <1>11, <1>12 DEF IInv

\* One case per step of a task.
LEMMA TaskStepKeepsInv ==
  ASSUME IInv, NEW t \in Requests, TaskStep(t)
  PROVE  IInv' /\ PoolStep
<1>1. op \in [Requests -> {"none", "live", "freed"}] /\ detached \subseteq Requests
  BY DEF IInv, TypeOK
<1>2. CASE TaskStart(t)
  <2>1. /\ task[t].pc = "start" /\ slotOp[task[t].slot] = t /\ op[t] = "live"
        /\ UNCHANGED <<term, proc, main, requests, slots, op, detached, data>>
    BY <1>2 DEF TaskStart, IInv, OperationInSlot
  <2>2. PICK pc \in {"detach", "run"} :
          task' = [task EXCEPT ![t].pc = pc, ![t].op = t]
    BY <1>2, <2>1 DEF TaskStart, AfterStart
  <2>3. /\ task' \in [Requests -> [pc : TaskPcs, slot : Slots \cup {NoSlot},
                                   op : Requests \cup {Null}]]
        /\ task'[t].pc \in {"detach", "run"} /\ task'[t].op = t
        /\ task'[t].slot = task[t].slot
        /\ \A r \in Requests \ {t} : task'[r] = task[r]
    BY <2>2 DEF IInv, TypeOK, TaskPcs
  <2> QED
    BY <1>1, <2>1, <2>3, TaskFrame DEF Owning
<1>3. CASE TaskRun(t)
  <2>1. task[t].op = t /\ op[t] = "live" /\ task[t].pc = "run" /\ MovesTo(t, "freeop")
        /\ UNCHANGED <<term, proc, main, requests, slots, op, detached, data>>
    BY <1>3 DEF TaskRun, IInv, OperationIsOwn
  <2> QED
    BY <1>1, <2>1, MovesToFacts, TaskFrame DEF IInv, Owning, TaskPcs
<1>4. CASE TaskFreesOperation(t)
  <2>1. task[t].op = t /\ task[t].pc = "freeop" /\ MovesTo(t, "detach")
        /\ op' = [op EXCEPT ![t] = "freed"]
        /\ UNCHANGED <<term, proc, main, requests, slots, detached, data>>
    BY <1>4 DEF TaskFreesOperation, IInv, OperationIsOwn
  <2> QED
    BY <1>1, <2>1, MovesToFacts, TaskFrame DEF IInv, Owning, TaskPcs
<1>5. CASE TaskDetaches(t)
  <2>1. task[t].pc = "detach" /\ MovesTo(t, "release") /\ detached' = detached \cup {t}
        /\ UNCHANGED <<term, proc, main, requests, slots, op, data>>
    BY <1>5 DEF TaskDetaches
  <2> QED
    BY <1>1, <2>1, MovesToFacts, TaskFrame DEF IInv, Owning, TaskPcs
<1>6. CASE TaskReleases(t)
  BY <1>6, TaskReleasesKeepsInv DEF TaskReleases
<1>8. CASE TaskReleasesLate(t)
  <2>1. CASE proc' = "crashed" /\ UNCHANGED <<free, occupied, task>>
    <3>1. UNCHANGED <<term, main, requests, slots, op, task, detached, data>>
      BY <1>8, <2>1 DEF TaskReleasesLate, slots
    <3>2. main.pc \in {"request", "accept"} => requests < MaxRequests
      BY DEF IInv, Stages
    <3>3. data = "live" <=> main.pc \notin {"dealloc", "return"}
      BY DEF IInv, Stages
    <3> QED
      BY <2>1, <3>1, <3>2, <3>3, MainFrame DEF IInv, TypeOK
  <2>2. CASE ~ (proc' = "crashed" /\ UNCHANGED <<free, occupied, task>>)
    BY <1>8, <2>2, TaskReleasesKeepsInv DEF TaskReleasesLate
  <2> QED
    BY <2>1, <2>2
<1>7. CASE TaskExits(t)
  <2>1. task[t].pc = "exit" /\ MovesTo(t, "exited")
        /\ UNCHANGED <<term, proc, main, requests, slots, op, detached, data>>
    BY <1>7 DEF TaskExits
  <2>2. /\ task' \in [Requests -> [pc : TaskPcs, slot : Slots \cup {NoSlot},
                                   op : Requests \cup {Null}]]
        /\ task'[t].pc = "exited" /\ task'[t].slot = task[t].slot
        /\ \A r \in Requests \ {t} : task'[r] = task[r]
    BY <2>1, MovesToFacts DEF IInv, TaskPcs
  <2>3. TypeOK'
    BY <2>1, <2>2 DEF IInv, TypeOK, TaskPcs, slots
  <2>4. Stages'
    BY <2>1, <2>2 DEF IInv, Stages
  <2>5. \A r \in Requests, s \in Slots : Owns(r, s)' <=> Owns(r, s)
    <3> SUFFICES ASSUME NEW r \in Requests, NEW s \in Slots
                 PROVE  Owns(r, s)' <=> Owns(r, s)
      OBVIOUS
    <3>1. CASE r = t
      BY <2>1, <2>2, <3>1 DEF Owns
    <3>2. CASE r # t
      BY <2>1, <2>2, <3>2 DEF Owns
    <3> QED
      BY <3>1, <3>2
  <2>6. Exclusive' /\ OccupiedIsOwned' /\ SlotAccounting' /\ PoolStep
    BY <2>1, <2>5, SameOwners DEF slots
  <2>7. OperationInSlot' /\ OperationIsOwn'
    BY <2>1, <2>2 DEF IInv, OperationInSlot, OperationIsOwn, slots
  <2> QED
    BY <2>3, <2>4, <2>6, <2>7 DEF IInv
<1> QED
  BY <1>2, <1>3, <1>4, <1>5, <1>6, <1>7, <1>8 DEF TaskStep

\* Datagrams and signals keep the invariant too.
LEMMA NextInvariant == IInv /\ Quiescent /\ [Next]_vars => IInv' /\ PoolStep
<1> SUFFICES ASSUME IInv, Quiescent, [Next]_vars PROVE IInv' /\ PoolStep
  OBVIOUS
<1>1. /\ term \in BOOLEAN /\ proc \in {"running", "exited", "crashed"}
      /\ data \in {"live", "blank", "freed"}
      /\ main.pc \in {"request", "accept"} => requests < MaxRequests
      /\ data = "live" <=> main.pc \notin {"dealloc", "return"}
  BY DEF IInv, TypeOK, Stages
<1>2. ASSUME NEW got \in {"request", "other"}, Arrives(got)
      PROVE  IInv' /\ PoolStep
  BY <1>1, <1>2, MainFrame DEF Arrives, IInv, TypeOK
<1>3. CASE Signal
  BY <1>1, <1>3, MainFrame DEF Signal, IInv, TypeOK
<1>4. CASE UNCHANGED vars
  BY <1>1, <1>4, MainFrame DEF vars, slots, IInv, TypeOK
<1> QED
  BY <1>2, <1>3, <1>4, MainStepKeepsInv, TaskStepKeepsInv DEF Next, Finished

-----------------------------------------------------------------------------
(* Clean-up and shutdown.  The invariants below are inductive together with*)
(* IInv.                                                                   *)

\* The handle in the slot of a working task is its own, and joinable.
Handles ==
  /\ \A t \in Requests : Working(t) => handle[task[t].slot] = t
  /\ \A t \in detached : task[t].pc \in {"release", "exit", "exited"}

\* How far the joins have come.
Joined ==
  /\ main.pc \notin {"join", "free", "dealloc", "return"} => main.i = 0
  /\ main.pc = "join" => \A t \in Requests : Working(t) => main.i <= task[t].slot
  /\ main.pc \in {"free", "dealloc", "return"} => \A t \in Requests : ~ Working(t)

\* A task that has finished has freed its operation, or skipped it at a signal.
Cleaned ==
  \A t \in Requests :
    task[t].pc \in {"detach", "release", "exit", "exited"} => op[t] = "freed" \/ term

JInv == Handles /\ Joined /\ Cleaned

\* A step of the main thread, a datagram or a signal that touches no task.
LEMMA JoinFrame ==
  ASSUME IInv, JInv, UNCHANGED <<handle, op, task, detached>>, term => term', Joined'
  PROVE  JInv'
BY DEF JInv, Handles, Cleaned, Working, IInv, TypeOK

\* pthread_join() of slot s does not come back while a task works with s.
LEMMA JoinAwaits ==
  ASSUME IInv, JInv, NEW s \in Slots, JoinReturns(s), NEW t \in Requests, Working(t)
  PROVE  task[t].slot # s
<1>1. handle[task[t].slot] = t /\ t \notin detached /\ task[t].pc # "exited"
  BY DEF JInv, Handles, Working
<1> QED
  BY <1>1 DEF JoinReturns

\* The server starts with no task to wait for.
LEMMA InitJoin == Init => JInv
BY DEF Init, JInv, Handles, Joined, Cleaned, Working

\* The joins go through the slots one by one.
LEMMA JoinKeepsJoin ==
  ASSUME IInv, JInv, Join
  PROVE  JInv'
<1>1. /\ main.pc = "join" /\ JoinReturns(main.i) /\ main.i \in Slots
      /\ UNCHANGED <<term, handle, op, task, detached, data>>
  BY DEF Join, slots, IInv, TypeOK
<1>2. \A t \in Requests : Working(t) => main.i + 1 <= task[t].slot /\ task[t].slot \in Slots
  <2> SUFFICES ASSUME NEW t \in Requests, Working(t)
               PROVE  main.i + 1 <= task[t].slot /\ task[t].slot \in Slots
    OBVIOUS
  <2>1. task[t].slot \in Slots
    BY DEF IInv, Stages, Working
  <2>2. main.i <= task[t].slot /\ task[t].slot # main.i
    BY <1>1, JoinAwaits DEF JInv, Joined
  <2> QED
    BY <1>1, <2>1, <2>2, Constants
<1>3. CASE main.i + 1 \in Slots
  <2>1. main'.pc = "join" /\ main'.i = main.i + 1
    BY <1>1, <1>3 DEF Join, IInv, TypeOK
  <2>2. Joined'
    BY <1>1, <1>2, <2>1 DEF Joined, Working, JInv
  <2> QED
    BY <1>1, <2>2, JoinFrame
<1>4. CASE main.i + 1 \notin Slots
  <2>1. main'.pc = "free"
    BY <1>1, <1>4 DEF Join, IInv, TypeOK
  <2>2. \A t \in Requests : ~ Working(t)
    BY <1>1, <1>2, <1>4, Constants
  <2>3. Joined'
    BY <1>1, <2>1, <2>2 DEF Joined, Working, JInv
  <2> QED
    BY <1>1, <2>3, JoinFrame
<1> QED
  BY <1>3, <1>4

\* A new thread, or one that was not created, writes only the handle of the
\* slot that its request owns.
LEMMA CreateKeepsJoin ==
  ASSUME IInv, JInv, CreateThread \/ CreateFails
  PROVE  JInv'
<1>1. /\ main.pc = "create" /\ main.slot \in Slots /\ requests \in Requests
      /\ task[requests].pc = "none"
      /\ main' = [main EXCEPT !.pc = "check", !.slot = NoSlot]
      /\ UNCHANGED <<term, op, detached, data>>
  BY DEF CreateThread, CreateFails, IInv, Stages
<1>2. /\ \A r \in Requests \ {requests} : task'[r] = task[r]
      /\ task'[requests].slot = main.slot
      /\ \/ task'[requests].pc = "start" /\ handle'[main.slot] = requests
         \/ task'[requests].pc = "unborn"
      /\ \A s \in Slots \ {main.slot} : handle'[s] = handle[s]
  <2>1. CASE CreateThread
    BY <1>1, <2>1 DEF CreateThread, IInv, TypeOK
  <2>2. CASE CreateFails
    <3>1. PICK h \in {handle[main.slot], Garbage} :
            handle' = [handle EXCEPT ![main.slot] = h]
      BY <2>2 DEF CreateFails
    <3>2. task' = [task EXCEPT ![requests] = [pc |-> "unborn", slot |-> main.slot, op |-> Null]]
      BY <2>2 DEF CreateFails
    <3> QED
      BY <1>1, <3>1, <3>2 DEF IInv, TypeOK
  <2> QED
    BY <2>1, <2>2
<1>3. requests \notin detached
  BY <1>1 DEF JInv, Handles
<1>4. \A t \in Requests \ {requests} : Working(t) => task[t].slot \in Slots \ {main.slot}
  BY <1>1 DEF IInv, Stages, Exclusive, Owns, Working
<1>5. Handles'
  <2>1. \A t \in Requests : Working(t)' => handle'[task'[t].slot] = t
    BY <1>1, <1>2, <1>4 DEF JInv, Handles, Working
  <2>2. \A t \in detached' : task'[t].pc \in {"release", "exit", "exited"}
    BY <1>1, <1>2, <1>3 DEF JInv, Handles, IInv, TypeOK
  <2> QED
    BY <2>1, <2>2 DEF Handles
<1>6. Joined'
  BY <1>1 DEF JInv, Joined, IInv, TypeOK
<1>7. Cleaned'
  BY <1>1, <1>2 DEF JInv, Cleaned
<1> QED
  BY <1>5, <1>6, <1>7 DEF JInv

\* One case per step of the main thread.
LEMMA MainStepKeepsJoin ==
  ASSUME IInv, JInv, MainStep
  PROVE  JInv'
<1>1. main \in [pc : {"check", "call", "recv", "request", "other", "accept", "parse",
                      "bind", "create", "join", "free", "dealloc", "return"},
                slot : Slots \cup {NoSlot}, i : Slots]
  BY DEF IInv, TypeOK
<1>2. CASE ListenerCheck
  <2>1. \A t \in Requests : Working(t) => 0 <= task[t].slot
    BY Constants DEF IInv, Stages, Working
  <2>2. Joined'
    BY <1>1, <1>2, <2>1 DEF ListenerCheck, JInv, Joined, Working
  <2> QED
    BY <1>2, <2>2, JoinFrame DEF ListenerCheck, slots
<1>3. CASE ListenerBlocks
  <2>1. Joined'
    BY <1>1, <1>3 DEF ListenerBlocks, JInv, Joined, Working
  <2> QED
    BY <1>3, <2>1, JoinFrame DEF ListenerBlocks, slots
<1>4. CASE ListenerReturns
  <2>1. PICK pc \in {"join", "accept", "check"} : main' = [main EXCEPT !.pc = pc]
    BY <1>4 DEF ListenerReturns
  <2>2. \A t \in Requests : Working(t) => 0 <= task[t].slot
    BY Constants DEF IInv, Stages, Working
  <2>3. Joined'
    BY <1>1, <1>4, <2>1, <2>2 DEF ListenerReturns, JInv, Joined, Working
  <2> QED
    BY <1>4, <2>3, JoinFrame DEF ListenerReturns, slots
<1>5. CASE Accept
  <2>1. PICK s \in Slots : main' = [main EXCEPT !.pc = "parse", !.slot = s]
    BY <1>5 DEF Accept
  <2>2. Joined'
    BY <1>1, <1>5, <2>1 DEF Accept, JInv, Joined, Working
  <2> QED
    BY <1>5, <2>2, JoinFrame DEF Accept
<1>6. CASE Reject
  <2>1. Joined'
    BY <1>1, <1>6 DEF Reject, JInv, Joined, Working
  <2> QED
    BY <1>6, <2>1, JoinFrame DEF Reject, slots
<1>7. CASE ParseFails
  <2>1. Joined'
    BY <1>1, <1>7 DEF ParseFails, JInv, Joined, Working
  <2> QED
    BY <1>7, <2>1, JoinFrame DEF ParseFails
<1>8. CASE SocketFails \/ JoinFaults \/ ProcessExits
  <2>1. UNCHANGED <<term, main, handle, op, task, detached, data>>
    BY <1>8 DEF SocketFails, JoinFaults, ProcessExits, slots
  <2>2. Joined'
    BY <2>1 DEF JInv, Joined, Working
  <2> QED
    BY <2>1, <2>2, JoinFrame
<1>9. CASE Parse
  <2>1. /\ op' = [op EXCEPT ![requests] = "live"] /\ requests \in Requests
        /\ task[requests].pc = "none" /\ main.pc \in {"parse", "bind"}
        /\ main' = [main EXCEPT !.pc = "create"]
        /\ UNCHANGED <<term, handle, task, detached, data>>
    BY <1>9 DEF Parse, IInv, Stages
  <2>2. Handles' /\ Joined'
    BY <1>1, <2>1 DEF JInv, Handles, Joined, Working
  <2>3. Cleaned'
    BY <2>1 DEF JInv, Cleaned, IInv, TypeOK
  <2> QED
    BY <2>2, <2>3 DEF JInv
<1>10. CASE CreateThread \/ CreateFails
  BY <1>10, CreateKeepsJoin
<1>11. CASE Join
  BY <1>11, JoinKeepsJoin
<1>12. CASE FreeData
  <2>1. Joined'
    BY <1>1, <1>12 DEF FreeData, JInv, Joined, Working
  <2> QED
    BY <1>12, <2>1, JoinFrame DEF FreeData, slots
<1>13. CASE PortRefused
  <2>1. Joined'
    BY <1>1, <1>13 DEF PortRefused, JInv, Joined, Working
  <2> QED
    BY <1>13, <2>1, JoinFrame DEF PortRefused, slots
<1>14. CASE DeinitSlots
  <2>1. Handles' /\ Joined' /\ Cleaned'
    BY <1>1, <1>14 DEF DeinitSlots, JInv, Handles, Joined, Cleaned, Working
  <2> QED
    BY <2>1 DEF JInv
<1> QED
  BY <1>2, <1>3, <1>4, <1>5, <1>6, <1>7, <1>8, <1>9, <1>10, <1>11, <1>12, <1>13, <1>14
     DEF MainStep

\* A task leaves its handle alone and never goes back to work.
LEMMA TaskStepKeepsJoin ==
  ASSUME IInv, JInv, NEW t \in Requests, TaskStep(t)
  PROVE  JInv'
<1>1. UNCHANGED <<term, main, handle, data>>
  BY DEF TaskStep, TaskStart, TaskRun, TaskFreesOperation, TaskDetaches, TaskReleases,
         TaskReleasesLate, TaskExits, slots
<1>2. /\ \A r \in Requests \ {t} : task'[r] = task[r]
      /\ task'[t].slot = task[t].slot
      /\ Working(t)' => Working(t)
  BY DEF TaskStep, TaskStart, TaskRun, TaskFreesOperation, TaskDetaches, TaskReleases,
         TaskReleasesLate, TaskExits, MovesTo, AfterStart, Working, IInv, TypeOK
<1>3. /\ detached' \subseteq detached \cup {t}
      /\ t \in detached' => task'[t].pc \in {"release", "exit", "exited"}
  <2>1. CASE TaskDetaches(t)
    BY <2>1 DEF TaskDetaches, MovesTo, IInv, TypeOK
  <2>2. CASE TaskReleases(t) \/ TaskReleasesLate(t) \/ TaskExits(t)
    BY <2>2 DEF TaskReleases, TaskReleasesLate, TaskExits, MovesTo, IInv, TypeOK
  <2>3. CASE TaskStart(t) \/ TaskRun(t) \/ TaskFreesOperation(t)
    <3>1. detached' = detached /\ task[t].pc \in {"start", "run", "freeop"}
      BY <2>3 DEF TaskStart, TaskRun, TaskFreesOperation
    <3> QED
      BY <3>1 DEF JInv, Handles
  <2> QED
    BY <2>1, <2>2, <2>3 DEF TaskStep
<1>4. Handles'
  <2>1. \A r \in Requests : Working(r)' => handle'[task'[r].slot] = r
    BY <1>1, <1>2 DEF JInv, Handles, Working
  <2>2. \A r \in detached' : task'[r].pc \in {"release", "exit", "exited"}
    BY <1>2, <1>3 DEF JInv, Handles, IInv, TypeOK
  <2> QED
    BY <2>1, <2>2 DEF Handles
<1>5. Joined'
  BY <1>1, <1>2 DEF JInv, Joined, Working
<1>6. /\ \A r \in Requests \ {t} : op'[r] = op[r]
      /\ task'[t].pc \in {"detach", "release", "exit", "exited"} => op'[t] = "freed" \/ term
  <2>1. CASE TaskStart(t)
    BY <2>1 DEF TaskStart, AfterStart, IInv, TypeOK
  <2>2. CASE TaskRun(t)
    BY <2>2 DEF TaskRun, MovesTo, IInv, TypeOK
  <2>3. CASE TaskFreesOperation(t)
    <3>1. task[t].op = t
      BY <2>3 DEF TaskFreesOperation, IInv, OperationIsOwn
    <3> QED
      BY <2>3, <3>1 DEF TaskFreesOperation, MovesTo, IInv, TypeOK
  <2>4. CASE TaskDetaches(t) \/ TaskReleases(t) \/ TaskReleasesLate(t) \/ TaskExits(t)
    <3>1. op' = op /\ task[t].pc \in {"detach", "release", "exit"}
      BY <2>4 DEF TaskDetaches, TaskReleases, TaskReleasesLate, TaskExits
    <3> QED
      BY <3>1 DEF JInv, Cleaned
  <2> QED
    BY <2>1, <2>2, <2>3, <2>4 DEF TaskStep
<1>7. Cleaned'
  BY <1>1, <1>2, <1>6 DEF JInv, Cleaned
<1> QED
  BY <1>4, <1>5, <1>7 DEF JInv

\* Every step keeps the relative invariant.
LEMMA NextJoin == IInv /\ JInv /\ [Next]_vars => JInv'
<1> SUFFICES ASSUME IInv, JInv, [Next]_vars PROVE JInv'
  OBVIOUS
<1>1. main \in [pc : {"check", "call", "recv", "request", "other", "accept", "parse",
                      "bind", "create", "join", "free", "dealloc", "return"},
                slot : Slots \cup {NoSlot}, i : Slots]
  BY DEF IInv, TypeOK
<1>2. ASSUME NEW got \in {"request", "other"}, Arrives(got)
      PROVE  JInv'
  <2>1. Joined'
    BY <1>1, <1>2 DEF Arrives, JInv, Joined, Working
  <2> QED
    BY <1>2, <2>1, JoinFrame DEF Arrives, slots
<1>3. CASE Signal
  <2>1. main' = main \/ (main.pc = "recv" /\ main' = [main EXCEPT !.pc = "other"])
    BY <1>3 DEF Signal
  <2>2. Joined'
    BY <1>1, <1>3, <2>1 DEF Signal, JInv, Joined, Working
  <2> QED
    BY <1>3, <2>2, JoinFrame DEF Signal, slots
<1>4. CASE UNCHANGED vars
  <2>1. Joined'
    BY <1>4 DEF vars, JInv, Joined, Working
  <2> QED
    BY <1>4, <2>1, JoinFrame DEF vars, slots
<1> QED
  BY <1>2, <1>3, <1>4, MainStepKeepsJoin, TaskStepKeepsJoin DEF Next, Finished

-----------------------------------------------------------------------------
(* What follows for every behaviour                                        *)

\* The two parts of the inductive invariant hold throughout.
LEMMA Invariance == Spec => [](IInv /\ JInv)
<1>1. JInv => Quiescent
  BY DEF JInv, Joined, Quiescent
<1> QED
  BY <1>1, InitInvariant, InitJoin, NextInvariant, NextJoin, PTL DEF Spec

\* The shared variables of listener and tasks keep their types, and
\* free_slots_count stays within the number of slots.
THEOREM TypeCorrect == Spec => []TypeOK
<1>1. IInv => TypeOK
  BY DEF IInv
<1> QED
  BY <1>1, Invariance, PTL

\* free_slots_count is the number of clear flags, for any number of slots and
\* requests and any order of acquisitions and releases.
THEOREM SlotsAreCounted == Spec => []SlotAccounting
<1>1. IInv => SlotAccounting
  BY DEF IInv
<1> QED
  BY <1>1, Invariance, PTL

\* A slot is taken exactly as long as a request owns it.
THEOREM TakenSlotsAreOwned == Spec => []OccupiedIsOwned
<1>1. IInv => OccupiedIsOwned
  BY DEF IInv
<1> QED
  BY <1>1, Invariance, PTL

\* No task works on the operation data of another, or on freed data.
THEOREM OperationsAreOwn == Spec => []OperationIsOwn
<1>1. IInv => OperationIsOwn
  BY DEF IInv
<1> QED
  BY <1>1, Invariance, PTL

\* A request is rejected only when every slot has an owner.
THEOREM RejectionsAreHonest == Spec => RejectedOnlyWhenFull
<1>1. IInv /\ Reject => \A s \in Slots : \E r \in Requests : Owns(r, s)
  <2> SUFFICES ASSUME IInv, Reject, NEW s \in Slots PROVE occupied[s]
    BY DEF IInv, OccupiedIsOwned, Stages, Reject
  <2>1. IsFiniteSet(Slots)
    BY FS_Interval, Constants
  <2>2. Unoccupied = {}
    <3>1. Cardinality(Unoccupied) = 0 => Unoccupied = {}
      BY <2>1, FS_Subset, FS_EmptySet DEF Unoccupied
    <3> QED
      BY <3>1 DEF Reject, IInv, SlotAccounting, Stages
  <2> QED
    BY <2>2 DEF Unoccupied
<1> QED
  BY <1>1, Invariance, PTL DEF Spec, RejectedOnlyWhenFull

\* The slots of the server are a SlotPool: no two requests share one, and none
\* changes hands but through its release.
THEOREM ImplementsPool == Spec => PoolSpec
<1>1. Init => Pool!Init
  BY Constants DEF Init, Pool!Init, Owned, Owns
<1>2. IInv /\ JInv /\ [Next]_vars => [Pool!Next]_Owned
  BY NextInvariant DEF PoolStep, JInv, Joined, Quiescent
<1> QED
  BY <1>1, <1>2, Invariance, PTL DEF Spec, PoolSpec, Pool!Spec

\* Without a termination signal no operation data is leaked by a task.
THEOREM OperationsGetFreed == Spec => []OperationsAreFreed
<1>1. JInv => OperationsAreFreed
  BY DEF JInv, Cleaned, OperationsAreFreed
<1> QED
  BY <1>1, Invariance, PTL

\* However slots are reused and threads detach themselves, server_start() cleans
\* up the slots only when no task is at its operation any more.
THEOREM OperationsAreAwaited == Spec => []ShutdownAwaitsOperations
<1>1. IInv /\ JInv => ShutdownAwaitsOperations
  BY DEF IInv, Stages, JInv, Joined, Working, ShutdownAwaitsOperations
<1> QED
  BY <1>1, Invariance, PTL

-----------------------------------------------------------------------------

\* A listener that has not got as far as a slot when the flag is set, and has
\* given out k of them.
Closing(k) ==
  /\ term /\ requests = k
  /\ main.pc \in {"check", "call", "recv", "request", "other", "join", "free", "dealloc",
                  "return"}

\* Once the termination signal is there, no request is given a slot: the flag
\* is read before recvfrom() is called and again when it comes back.
THEOREM AdmissionStops == Spec => SignalStopsAdmission
<1> SUFFICES ASSUME NEW k \in 0 .. MaxRequests
             PROVE  Spec => []( term /\ main.pc \in {"check", "call", "recv", "request", "other"}
                                /\ requests = k => [](requests = k) )
  BY DEF SignalStopsAdmission
<1>1. term /\ main.pc \in {"check", "call", "recv", "request", "other"} /\ requests = k /\ IInv
      => Closing(k)
  BY DEF Closing, IInv, TypeOK
<1>2. IInv /\ Closing(k) /\ [Next]_vars => Closing(k)'
  <2> SUFFICES ASSUME IInv, Closing(k), [Next]_vars PROVE Closing(k)'
    OBVIOUS
  <2>1. term = TRUE
    BY DEF Closing, IInv, TypeOK
  <2>2. CASE MainStep
    <3>1. main.pc \notin {"accept", "parse", "bind", "create"}
      BY DEF Closing
    <3>2. CASE ListenerCheck \/ ListenerBlocks \/ ListenerReturns
      BY <2>1, <3>2 DEF ListenerCheck, ListenerBlocks, ListenerReturns, Closing, IInv, TypeOK
    <3>3. CASE Join \/ JoinFaults \/ DeinitSlots \/ FreeData \/ ProcessExits
      BY <2>1, <3>3 DEF Join, JoinFaults, DeinitSlots, FreeData, ProcessExits, Closing, IInv,
         TypeOK
    <3> QED
      BY <2>2, <3>1, <3>2, <3>3 DEF MainStep, Accept, Reject, ParseFails, SocketFails,
         PortRefused, Parse, CreateThread, CreateFails
  <2>3. ASSUME NEW t \in Requests, TaskStep(t)
        PROVE  Closing(k)'
    BY <2>3 DEF Closing, TaskStep, TaskStart, TaskRun, TaskFreesOperation, TaskDetaches,
       TaskReleases, TaskReleasesLate, TaskExits
  <2>4. ASSUME NEW got \in {"request", "other"}, Arrives(got)
        PROVE  Closing(k)'
    BY <2>4 DEF Closing, Arrives, IInv, TypeOK
  <2>5. CASE Signal \/ Finished \/ UNCHANGED vars
    BY <2>1, <2>5 DEF Closing, Signal, Finished, vars
  <2> QED
    BY <2>2, <2>3, <2>4, <2>5 DEF Next
<1>3. Closing(k) => requests = k
  BY DEF Closing
<1> QED
  BY <1>1, <1>2, <1>3, Invariance, PTL DEF Spec
=============================================================================
