------------------------------- MODULE Buffer --------------------------------
(***************************************************************************)
(* One slot (key) of the shared buffer of ot_app_buffer.c under the        *)
(* threads that call it.  The OpenThread thread OT runs every handler that *)
(* writes through a pointer (ot_app_coap_uri.c, ot_app_pair.c,             *)
(* ot_app_dns.c); any thread may append and read.                          *)
(*                                                                         *)
(* An action is what a thread does between two points where another may    *)
(* come in.  A thread whose pc names an operation waits for the mutex, or  *)
(* is inside the critical section when mutex names it.  A byte is known by *)
(* the thread that wrote it; NoThread stands for zero.                     *)
(***************************************************************************)
EXTENDS Integers, Sequences

CONSTANTS
  Thread,
  OT,         \* the thread the handlers run on
  NoThread,
  Size        \* max_size of the slot

ASSUME BufferAssumption ==
  /\ OT \in Thread
  /\ NoThread \notin Thread
  /\ Size \in Nat \ {0}

Byte == 0 .. Size - 1
Request == 1 .. Size + 1    \* lengths asked for, one of them too long

VARIABLES
  mutex,         \* the thread in the critical section, or NoThread
  write_lock,
  current_len,
  data,
  pc, arg        \* what each thread is doing, and the length it asked for

vars == <<mutex, write_lock, current_len, data, pc, arg>>

Init ==
  /\ mutex = NoThread
  /\ write_lock = FALSE
  /\ current_len = 0
  /\ data = [b \in Byte |-> NoThread]
  /\ pc = [t \in Thread |-> "idle"]
  /\ arg = [t \in Thread |-> 0]

(* Bytes lo .. lo + n - 1 become v. *)
written(lo, n, v) == [b \in Byte |-> IF b \in lo .. lo + n - 1 THEN v ELSE data[b]]

goto(t, place) == pc' = [pc EXCEPT ![t] = place]

(* The thread asks an operation for n bytes. *)
call(t, op, n) == goto(t, op) /\ arg' = [arg EXCEPT ![t] = n]

(* The critical section ends and the call returns. *)
Return(t) == mutex' = NoThread /\ call(t, "idle", 0)

(* The thread is at this place with the mutex in its hands. *)
inside_NotExclusive(t, place) == pc[t] = place
inside(t, place) == pc[t] = place /\ mutex = t

-----------------------------------------------------------------------------
(* otapp_buf_append: write_lock is looked at before the mutex is taken.  A *)
(* call that finds it set returns OTAPP_BUF_ERROR_WRITE_LOCK: no step.     *)
AppendCall(t, n) ==
  /\ pc[t] = "idle"
  /\ ~write_lock
  /\ call(t, "append", n)
  /\ UNCHANGED <<mutex, write_lock, current_len, data>>

mutex_lock(t) ==
  /\ pc[t] \in {"append", "reserve", "unlock", "clear", "read"}
  /\ mutex = NoThread
  /\ mutex' = t
  /\ UNCHANGED <<write_lock, current_len, data, pc, arg>>

AppendFull_MutexKept(t) ==
  /\ inside(t, "append")
  /\ current_len + arg[t] > Size
  /\ call(t, "idle", 0)
  /\ UNCHANGED <<mutex, write_lock, current_len, data>>
AppendFull(t) ==
  /\ inside(t, "append")
  /\ current_len + arg[t] > Size
  /\ Return(t)
  /\ UNCHANGED <<write_lock, current_len, data>>

AppendCopy_OffByOne(t) ==
  /\ inside(t, "append")
  /\ current_len + arg[t] <= Size + 1
  /\ data' = written(current_len, arg[t], t)
  /\ goto(t, "copied")
  /\ UNCHANGED <<mutex, write_lock, current_len, arg>>
AppendCopy(t) ==
  /\ inside(t, "append")
  /\ current_len + arg[t] <= Size
  /\ data' = written(current_len, arg[t], t)
  /\ goto(t, "copied")
  /\ UNCHANGED <<mutex, write_lock, current_len, arg>>

AppendDone(t) ==
  /\ inside(t, "copied")
  /\ current_len' = current_len + arg[t]
  /\ Return(t)
  /\ UNCHANGED <<write_lock, data>>

-----------------------------------------------------------------------------
(* A handler: otapp_buf_getWriteOnly_ptr, writes through the pointer,      *)
(* otapp_buf_writeUnlock - which some also call when they got no pointer.  *)
Handler(n) ==
  /\ pc[OT] = "idle"
  /\ call(OT, "reserve", n)
  /\ UNCHANGED <<mutex, write_lock, current_len, data>>

getWriteOnly_ptr_LengthUnset ==
  /\ inside(OT, "reserve")
  /\ ~write_lock /\ arg[OT] <= Size
  /\ write_lock' = TRUE
  /\ data' = written(0, arg[OT], NoThread)
  /\ mutex' = NoThread
  /\ goto(OT, "holding")
  /\ UNCHANGED <<current_len, arg>>
getWriteOnly_ptr ==
  /\ inside(OT, "reserve")
  /\ ~write_lock /\ arg[OT] <= Size
  /\ write_lock' = TRUE
  /\ data' = written(0, arg[OT], NoThread)
  /\ current_len' = arg[OT]
  /\ mutex' = NoThread
  /\ goto(OT, "holding")
  /\ UNCHANGED arg

NoPointer ==
  /\ inside(OT, "reserve")
  /\ write_lock \/ arg[OT] > Size
  /\ mutex' = NoThread
  /\ \/ goto(OT, "unlock") /\ UNCHANGED arg
     \/ call(OT, "idle", 0)
  /\ UNCHANGED <<write_lock, current_len, data>>

(* The handler writes through the pointer, outside the mutex... *)
Fill ==
  /\ pc[OT] = "holding"
  /\ data' = written(0, arg[OT], OT)
  /\ goto(OT, "filled")
  /\ UNCHANGED <<mutex, write_lock, current_len, arg>>

(* ...and leaves, having used what it wrote or given up before writing. *)
HandlerDone ==
  /\ pc[OT] \in {"holding", "filled"}
  /\ goto(OT, "unlock")
  /\ UNCHANGED <<mutex, write_lock, current_len, data, arg>>

writeUnlock ==
  /\ inside(OT, "unlock")
  /\ write_lock' = FALSE
  /\ current_len' = 0
  /\ Return(OT)
  /\ UNCHANGED data

-----------------------------------------------------------------------------
(* otapp_buff_clear does not look at write_lock.  No handler calls it with *)
(* a pointer in its hands, and no other thread is to: OT between handlers. *)
ClearCall ==
  /\ pc[OT] = "idle"
  /\ goto(OT, "clear")
  /\ UNCHANGED <<mutex, write_lock, current_len, data, arg>>

clear ==
  /\ inside(OT, "clear")
  /\ data' = [b \in Byte |-> NoThread]
  /\ current_len' = 0
  /\ Return(OT)
  /\ UNCHANGED write_lock

(* otapp_buf_getData, otapp_buf_getReadOnly_ptr, and                       *)
(* otapp_buf_getCurrentLenSize: what is read is not modelled.              *)
ReadCall(t) ==
  /\ pc[t] = "idle"
  /\ goto(t, "read")
  /\ UNCHANGED <<mutex, write_lock, current_len, data, arg>>

getData(t) ==
  /\ inside(t, "read")
  /\ Return(t)
  /\ UNCHANGED <<write_lock, current_len, data>>

-----------------------------------------------------------------------------
Call(t) == (\E n \in Request : AppendCall(t, n)) \/ ReadCall(t)

CriticalSection(t) ==
  AppendFull(t) \/ AppendCopy(t) \/ AppendDone(t) \/ getData(t)

Handlers ==
  \/ \E n \in Request : Handler(n)
  \/ getWriteOnly_ptr \/ NoPointer \/ Fill \/ HandlerDone \/ writeUnlock
  \/ ClearCall \/ clear

Next ==
  \/ \E t \in Thread : Call(t) \/ mutex_lock(t) \/ CriticalSection(t)
  \/ Handlers

(* A critical section holds no blocking call, and a task that holds a      *)
(* FreeRTOS mutex inherits the priority of those that wait: it gets on.    *)
Fairness ==
  /\ \A t \in Thread : WF_vars(CriticalSection(t))
  /\ WF_vars(getWriteOnly_ptr \/ NoPointer \/ writeUnlock \/ clear)

Spec == Init /\ [][Next]_vars /\ Fairness

-----------------------------------------------------------------------------
TypeOK ==
  /\ mutex \in Thread \cup {NoThread}
  /\ write_lock \in BOOLEAN
  /\ current_len \in 0 .. Size
  /\ data \in [Byte -> Thread \cup {NoThread}]
  /\ pc \in [Thread -> {"idle", "append", "copied", "reserve", "holding",
                        "filled", "unlock", "clear", "read"}]
  /\ arg \in [Thread -> 0 .. Size + 1]

(* What a handler has written through its pointer stays as it wrote it     *)
(* until it leaves, although an append that looked at write_lock too early *)
(* may still come in: it lands behind the reserved bytes, or finds no room. *)
ReservedUntouched ==
  pc[OT] = "filled" => \A b \in 0 .. arg[OT] - 1 : b \in Byte /\ data[b] = OT

(* Whatever way a call takes out of its critical section, the mutex comes  *)
(* free again.                                                             *)
MutexComesFree == []<>(mutex = NoThread)

(* Under the mutex each operation is one step of SharedSlot. *)
S == INSTANCE SharedSlot WITH
  None <- NoThread,
  bytes <- [i \in 1 .. current_len |-> data[i - 1]],
  reserved <- write_lock

ImplementsSlot == S!Spec
=============================================================================
