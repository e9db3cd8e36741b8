---------------------------- MODULE Buffer_proofs ----------------------------
(***************************************************************************)
(* Type correctness of the shared buffer and the safety of what a handler  *)
(* writes through its pointer, for any number of threads and any size.     *)
(***************************************************************************)
EXTENDS Buffer, SequenceTheorems, TLAPS

(* The handlers run on OT alone. *)
OnlyOTReserves ==
  \A t \in Thread \ {OT} : pc[t] \in {"idle", "append", "copied", "read"}

(* Between its copy and its new length an append has the mutex, and its    *)
(* bytes fit.                                                              *)
CopiedFits ==
  \A t \in Thread : pc[t] = "copied" => mutex = t /\ current_len + arg[t] <= Size

(* While a handler has its pointer, appends start behind what it reserved. *)
ReservedIsBelow ==
  pc[OT] \in {"holding", "filled"} => write_lock /\ arg[OT] <= current_len

IInv ==
  /\ TypeOK
  /\ OnlyOTReserves
  /\ CopiedFits
  /\ ReservedIsBelow
  /\ ReservedUntouched

USE BufferAssumption

LEMMA InitIInv == Init => IInv
<1> SUFFICES ASSUME Init PROVE IInv
  OBVIOUS
<1>1. TypeOK
  <2>1. data \in [Byte -> Thread \cup {NoThread}]
    BY DEF Init
  <2>2. mutex \in Thread \cup {NoThread} /\ write_lock \in BOOLEAN
    BY DEF Init
  <2>3. current_len \in 0 .. Size /\ arg \in [Thread -> 0 .. Size + 1]
    BY DEF BufferAssumption, Init
  <2> QED
    BY <2>1, <2>2, <2>3 DEF Init, TypeOK
<1>2. \A t \in Thread : pc[t] = "idle"
  BY DEF Init
<1> QED
  BY <1>1, <1>2
  DEF BufferAssumption, IInv, OnlyOTReserves, CopiedFits, ReservedIsBelow, ReservedUntouched

(* Bytes written are bytes of the slot. *)
LEMMA WrittenType ==
  ASSUME NEW lo \in Int, NEW n \in Int, NEW v \in Thread \cup {NoThread}, TypeOK
  PROVE  written(lo, n, v) \in [Byte -> Thread \cup {NoThread}]
  BY DEF written, TypeOK

(* One lemma per operation that changes length, lock or contents. *)
LEMMA AppendCopyIInv ==
  ASSUME IInv, NEW t \in Thread, AppendCopy(t)
  PROVE  IInv'
<1> USE DEF IInv, AppendCopy, inside, goto
<1>1. TypeOK'
  BY WrittenType DEF TypeOK
<1>2. OnlyOTReserves'
  BY DEF OnlyOTReserves, TypeOK
<1>3. CopiedFits'
  BY DEF CopiedFits, TypeOK
<1>4. ReservedIsBelow'
  BY DEF ReservedIsBelow, TypeOK
<1>5. ReservedUntouched'
  <2> SUFFICES ASSUME pc'[OT] = "filled", NEW b \in 0 .. arg[OT] - 1
               PROVE  b \in Byte /\ data'[b] = OT
    BY DEF ReservedUntouched
  <2>1. t # OT /\ pc[OT] = "filled"
    BY DEF TypeOK
  <2>2. b \in Byte /\ data[b] = OT /\ b < current_len
    BY <2>1 DEF ReservedUntouched, ReservedIsBelow, TypeOK
  <2> QED
    BY <2>2 DEF written, TypeOK
<1> QED
  BY <1>1, <1>2, <1>3, <1>4, <1>5

LEMMA AppendDoneIInv ==
  ASSUME IInv, NEW t \in Thread, AppendDone(t)
  PROVE  IInv'
<1> USE DEF IInv, AppendDone, inside, Return, call, goto
<1>1. TypeOK'
  BY DEF TypeOK, CopiedFits
<1>2. OnlyOTReserves'
  BY DEF OnlyOTReserves, TypeOK
<1>3. CopiedFits'
  BY DEF CopiedFits, TypeOK
<1>4. ReservedIsBelow'
  BY DEF ReservedIsBelow, TypeOK
<1>5. ReservedUntouched'
  BY DEF ReservedUntouched, TypeOK
<1> QED
  BY <1>1, <1>2, <1>3, <1>4, <1>5

LEMMA ReserveIInv ==
  ASSUME IInv, getWriteOnly_ptr
  PROVE  IInv'
<1> USE DEF IInv, getWriteOnly_ptr, inside, goto
<1>1. TypeOK'
  BY WrittenType DEF TypeOK
<1>2. OnlyOTReserves'
  BY DEF OnlyOTReserves, TypeOK
<1>3. CopiedFits'
  BY DEF CopiedFits, TypeOK
<1>4. ReservedIsBelow'
  BY DEF ReservedIsBelow, TypeOK
<1>5. ReservedUntouched'
  BY DEF ReservedUntouched, TypeOK
<1> QED
  BY <1>1, <1>2, <1>3, <1>4, <1>5

LEMMA FillIInv ==
  ASSUME IInv, Fill
  PROVE  IInv'
<1> USE DEF IInv, Fill, goto
<1>1. TypeOK'
  BY WrittenType DEF TypeOK
<1>2. OnlyOTReserves'
  BY DEF OnlyOTReserves, TypeOK
<1>3. CopiedFits'
  BY DEF CopiedFits, TypeOK
<1>4. ReservedIsBelow'
  BY DEF ReservedIsBelow, TypeOK
<1>5. ReservedUntouched'
  <2> SUFFICES ASSUME NEW b \in 0 .. arg[OT] - 1
               PROVE  b \in Byte /\ data'[b] = OT
    BY DEF ReservedUntouched
  <2>1. b \in Byte
    BY DEF ReservedIsBelow, TypeOK, Byte
  <2> QED
    BY <2>1 DEF written, TypeOK
<1> QED
  BY <1>1, <1>2, <1>3, <1>4, <1>5

LEMMA WriteUnlockIInv ==
  ASSUME IInv, writeUnlock \/ clear
  PROVE  IInv'
<1> USE DEF IInv, writeUnlock, clear, inside, Return, call, goto
<1>1. TypeOK'
  <2>1. data' \in [Byte -> Thread \cup {NoThread}]
    BY DEF TypeOK
  <2>2. current_len' \in 0 .. Size /\ arg' \in [Thread -> 0 .. Size + 1]
    BY DEF BufferAssumption, TypeOK
  <2> QED
    BY <2>1, <2>2 DEF TypeOK
<1>2. OnlyOTReserves'
  BY DEF OnlyOTReserves, TypeOK
<1>3. CopiedFits'
  BY DEF CopiedFits, TypeOK
<1>4. ReservedIsBelow'
  BY DEF ReservedIsBelow, TypeOK
<1>5. ReservedUntouched'
  BY DEF ReservedUntouched, TypeOK
<1> QED
  BY <1>1, <1>2, <1>3, <1>4, <1>5

(* The steps that only move a thread on. *)
Moves(t) ==
  \/ \E n \in Request : AppendCall(t, n)
  \/ ReadCall(t) \/ mutex_lock(t) \/ AppendFull(t) \/ getData(t)

HandlerMoves ==
  \/ \E n \in Request : Handler(n)
  \/ NoPointer \/ HandlerDone \/ ClearCall

LEMMA MovesIInv ==
  ASSUME IInv, NEW t \in Thread, Moves(t)
  PROVE  IInv'
<1> USE DEF IInv, Moves, AppendCall, ReadCall, mutex_lock, AppendFull, getData,
            Request, inside, Return, call, goto
<1>1. TypeOK'
  BY DEF TypeOK
<1>2. OnlyOTReserves'
  BY DEF OnlyOTReserves, TypeOK
<1>3. CopiedFits'
  BY DEF CopiedFits, TypeOK
<1>4. ReservedIsBelow'
  BY DEF ReservedIsBelow, TypeOK
<1>5. ReservedUntouched'
  BY DEF ReservedUntouched, TypeOK
<1> QED
  BY <1>1, <1>2, <1>3, <1>4, <1>5

LEMMA HandlerMovesIInv ==
  ASSUME IInv, HandlerMoves
  PROVE  IInv'
<1> USE DEF IInv, HandlerMoves, Handler, NoPointer, HandlerDone, ClearCall,
            Request, inside, call, goto
<1>1. TypeOK'
  BY DEF TypeOK
<1>2. OnlyOTReserves'
  BY DEF OnlyOTReserves, TypeOK
<1>3. CopiedFits'
  BY DEF CopiedFits, TypeOK
<1>4. ReservedIsBelow'
  BY DEF ReservedIsBelow, TypeOK
<1>5. ReservedUntouched'
  BY DEF ReservedUntouched, TypeOK
<1> QED
  BY <1>1, <1>2, <1>3, <1>4, <1>5

LEMMA NextIInv == IInv /\ [Next]_vars => IInv'
<1> SUFFICES ASSUME IInv, [Next]_vars PROVE IInv'
  OBVIOUS
<1>1. CASE \E t \in Thread : Moves(t)
  BY <1>1, MovesIInv
<1>2. CASE HandlerMoves
  BY <1>2, HandlerMovesIInv
<1>3. CASE \E t \in Thread : AppendCopy(t)
  BY <1>3, AppendCopyIInv
<1>4. CASE \E t \in Thread : AppendDone(t)
  BY <1>4, AppendDoneIInv
<1>5. CASE getWriteOnly_ptr
  BY <1>5, ReserveIInv
<1>6. CASE Fill
  BY <1>6, FillIInv
<1>7. CASE writeUnlock \/ clear
  BY <1>7, WriteUnlockIInv
<1>8. CASE UNCHANGED vars
  BY <1>8 DEF vars, IInv, TypeOK, OnlyOTReserves, CopiedFits, ReservedIsBelow,
              ReservedUntouched
<1> QED
  BY <1>1, <1>2, <1>3, <1>4, <1>5, <1>6, <1>7, <1>8
  DEF Next, Call, CriticalSection, Handlers, Moves, HandlerMoves

-----------------------------------------------------------------------------
(* The inductive invariant holds of every behaviour of the buffer. *)
THEOREM Inductive == Spec => []IInv
<1>1. Init => IInv
  BY InitIInv
<1>2. IInv /\ [Next]_vars => IInv'
  BY NextIInv
<1> QED
  BY <1>1, <1>2, PTL DEF Spec

(* No length leaves its range: what an append copies fits in the slot,     *)
(* whoever else was in the buffer between its calls.                       *)
THEOREM LengthsInRange == Spec => []TypeOK
<1>1. IInv => TypeOK
  BY DEF IInv
<1> QED
  BY <1>1, Inductive, PTL

(* What a handler has written through its pointer is there until it        *)
(* leaves, although an append may slip past the lock.                      *)
THEOREM PointerIsSafe == Spec => []ReservedUntouched
<1>1. IInv => ReservedUntouched
  BY DEF IInv
<1> QED
  BY <1>1, Inductive, PTL

-----------------------------------------------------------------------------
(* The refinement.  What the abstract contents need in addition: a length  *)
(* asked for is not zero, and what was copied is there until it counts.    *)
Place == {"idle", "append", "copied", "reserve", "holding", "filled", "unlock",
          "clear", "read"}

AsksForBytes ==
  \A t \in Thread :
    pc[t] \in {"append", "copied", "reserve", "holding", "filled"} => arg[t] >= 1
CopiedIsThere ==
  \A t \in Thread : pc[t] = "copied" =>
    \A b \in current_len .. current_len + arg[t] - 1 : data[b] = t
CInv == AsksForBytes /\ CopiedIsThere

LEMMA InitCInv == Init => CInv
  BY DEF Init, CInv, AsksForBytes, CopiedIsThere

(* A thread between its copy and its length has the mutex to itself. *)
LEMMA CopierAlone ==
  ASSUME IInv, NEW t \in Thread, pc[t] = "copied"
  PROVE  /\ mutex = t
         /\ \A u \in Thread : \A place : u # t => ~inside(u, place)
  BY DEF IInv, CopiedFits, inside

LEMMA NextCInv ==
  ASSUME IInv, CInv, [Next]_vars
  PROVE  CInv'
<1> USE DEF CInv
<1>0. pc \in [Thread -> Place] /\ arg \in [Thread -> 0 .. Size + 1]
      /\ current_len \in 0 .. Size /\ data \in [Byte -> Thread \cup {NoThread}]
  BY DEF IInv, TypeOK, Place
<1>1. ASSUME NEW t \in Thread, Moves(t) PROVE CInv'
  <2>1. UNCHANGED <<current_len, data>>
    BY <1>1 DEF Moves, AppendCall, ReadCall, mutex_lock, AppendFull, getData
  <2>2. AsksForBytes'
    BY <1>0, <1>1 DEF Moves, AppendCall, ReadCall, mutex_lock, AppendFull, getData,
       AsksForBytes, Request, inside, Return, call, goto
  <2>3. \A u \in Thread : pc'[u] = "copied" => pc[u] = "copied" /\ arg'[u] = arg[u]
    BY <1>0, <1>1 DEF Moves, AppendCall, ReadCall, mutex_lock, AppendFull, getData,
       inside, Return, call, goto
  <2> QED
    BY <2>1, <2>2, <2>3 DEF CopiedIsThere
<1>2. CASE HandlerMoves
  <2>1. UNCHANGED <<current_len, data>>
    BY <1>2 DEF HandlerMoves, Handler, NoPointer, HandlerDone, ClearCall
  <2>2. AsksForBytes'
    BY <1>0, <1>2 DEF HandlerMoves, Handler, NoPointer, HandlerDone, ClearCall,
       AsksForBytes, Request, inside, call, goto
  <2>3. \A u \in Thread : pc'[u] = "copied" => pc[u] = "copied" /\ arg'[u] = arg[u]
    BY <1>0, <1>2 DEF HandlerMoves, Handler, NoPointer, HandlerDone, ClearCall,
       inside, call, goto
  <2> QED
    BY <2>1, <2>2, <2>3 DEF CopiedIsThere
<1>3. ASSUME NEW t \in Thread, AppendCopy(t) PROVE CInv'
  <2>1. AsksForBytes'
    BY <1>0, <1>3 DEF AppendCopy, AsksForBytes, inside, goto
  <2>2. /\ UNCHANGED <<current_len, arg>> /\ pc'[t] = "copied"
        /\ current_len + arg[t] <= Size /\ data' = written(current_len, arg[t], t)
        /\ \A u \in Thread : u # t => pc'[u] = pc[u]
    BY <1>0, <1>3 DEF AppendCopy, goto
  <2>3. \A u \in Thread : u # t => pc[u] # "copied"
    BY <1>3, CopierAlone DEF AppendCopy, inside
  <2>4. \A b \in current_len .. current_len + arg[t] - 1 : data'[b] = t
    BY <1>0, <2>2 DEF written, Byte
  <2>5. CopiedIsThere'
    BY <2>2, <2>3, <2>4 DEF CopiedIsThere
  <2> QED
    BY <2>1, <2>5
<1>4. ASSUME NEW t \in Thread, AppendDone(t) PROVE CInv'
  <2>1. AsksForBytes'
    BY <1>0, <1>4 DEF AppendDone, AsksForBytes, inside, Return, call, goto
  <2>2. \A u \in Thread : pc'[u] # "copied"
    BY <1>0, <1>4, CopierAlone DEF AppendDone, inside, Return, call, goto
  <2> QED
    BY <2>1, <2>2 DEF CopiedIsThere
<1>5. CASE getWriteOnly_ptr \/ writeUnlock \/ clear
  <2>1. AsksForBytes'
    BY <1>0, <1>5 DEF getWriteOnly_ptr, writeUnlock, clear, AsksForBytes, inside, Return,
       call, goto
  <2>2. \A u \in Thread : pc'[u] # "copied"
    BY <1>0, <1>5, CopierAlone DEF getWriteOnly_ptr, writeUnlock, clear, inside, Return,
       call, goto
  <2> QED
    BY <2>1, <2>2 DEF CopiedIsThere
<1>6. CASE Fill
  <2>1. AsksForBytes'
    BY <1>0, <1>6 DEF Fill, AsksForBytes, goto
  <2>2. /\ UNCHANGED <<current_len, arg>> /\ data' = written(0, arg[OT], OT)
        /\ \A u \in Thread : pc'[u] = "copied" => pc[u] = "copied"
    BY <1>0, <1>6 DEF Fill, goto
  <2>3. arg[OT] <= current_len
    BY <1>6 DEF Fill, IInv, ReservedIsBelow
  <2>4. ASSUME NEW u \in Thread, pc[u] = "copied",
               NEW b \in current_len .. current_len + arg[u] - 1
        PROVE  data'[b] = u
    <3>1. data[b] = u /\ b \in Byte
      BY <1>0, <2>4 DEF CopiedIsThere, IInv, CopiedFits, Byte
    <3> QED
      BY <1>0, <2>2, <2>3, <2>4, <3>1 DEF written
  <2> QED
    BY <2>1, <2>2, <2>4 DEF CopiedIsThere
<1>7. CASE UNCHANGED vars
  BY <1>7 DEF vars, AsksForBytes, CopiedIsThere
<1> QED
  BY <1>1, <1>2, <1>3, <1>4, <1>5, <1>6, <1>7
  DEF Next, Call, CriticalSection, Handlers, Moves, HandlerMoves

(* A sequence is known as a concatenation by its length and its elements. *)
LEMMA IsConcat ==
  ASSUME NEW T, NEW a \in Seq(T), NEW b \in Seq(T), NEW c \in Seq(T),
         Len(c) = Len(a) + Len(b),
         \A i \in 1 .. Len(c) :
           c[i] = IF i <= Len(a) THEN a[i] ELSE b[i - Len(a)]
  PROVE  c = a \o b
<1>1. /\ a \o b \in Seq(T) /\ Len(a \o b) = Len(a) + Len(b)
      /\ \A i \in 1 .. Len(a) + Len(b) :
           (a \o b)[i] = IF i <= Len(a) THEN a[i] ELSE b[i - Len(a)]
  BY ConcatProperties
<1> DEFINE d == a \o b
<1> HIDE DEF d
<1>2. d \in Seq(T) /\ Len(d) = Len(c) /\ \A i \in 1 .. Len(c) : d[i] = c[i]
  BY <1>1 DEF d
<1>3. d = c
  BY <1>2, SeqEqual
<1> QED
  BY <1>3 DEF d

(* The abstract contents. *)
Contents(n, d) == [i \in 1 .. n |-> d[i - 1]]

(* Steps that change neither the lock, the length nor the bytes that count. *)
LEMMA Stutter ==
  ASSUME current_len \in Nat, UNCHANGED <<write_lock, current_len>>,
         \A b \in 0 .. current_len - 1 : data'[b] = data[b]
  PROVE  /\ Contents(current_len', data') = Contents(current_len, data)
         /\ write_lock' = write_lock
  BY DEF Contents

LEMMA StepRefines ==
  ASSUME IInv, CInv, [Next]_vars
  PROVE  \/ S!Next
         \/ /\ Contents(current_len', data') = Contents(current_len, data)
            /\ write_lock' = write_lock
<1> DEFINE old == Contents(current_len, data)
           new == Contents(current_len', data')
<1>0. pc \in [Thread -> Place] /\ arg \in [Thread -> 0 .. Size + 1]
      /\ current_len \in 0 .. Size /\ data \in [Byte -> Thread \cup {NoThread}]
      /\ Size \in Nat /\ current_len \in Nat
  BY DEF IInv, TypeOK, Place
<1>1. Len(old) = current_len /\ old \in Seq(Thread \cup {NoThread})
  BY <1>0 DEF Contents, Byte
<1>2. ASSUME NEW t \in Thread, AppendDone(t) PROVE S!Next
  <2>0. arg[t] \in 1 .. Size
    BY <1>0, <1>2 DEF AppendDone, inside, IInv, CopiedFits, CInv, AsksForBytes
  <2> PICK n \in 1 .. Size : n = arg[t]
    BY <2>0
  <2>1. /\ n \in 1 .. Size /\ current_len + n <= Size /\ current_len' = current_len + n
        /\ data' = data /\ write_lock' = write_lock
        /\ \A b \in current_len .. current_len + n - 1 : data[b] = t
    BY <1>0, <1>2 DEF AppendDone, inside, IInv, CopiedFits, CInv, AsksForBytes, CopiedIsThere
  <2>2. new = old \o S!Filled(t, n)
    <3> DEFINE add == S!Filled(t, n)
    <3>1. add = [i \in 1 .. n |-> t] /\ add \in Seq(Thread) /\ Len(add) = n
      BY <2>1 DEF S!Filled
    <3>2. new \in Seq(Thread \cup {NoThread}) /\ Len(new) = current_len + n
      <4>1. new = [i \in 1 .. current_len + n |-> data[i - 1]]
        BY <2>1 DEF Contents
      <4>2. current_len + n \in Nat
            /\ \A i \in 1 .. current_len + n : data[i - 1] \in Thread \cup {NoThread}
        BY <1>0, <2>1 DEF Byte
      <4> QED
        BY <4>1, <4>2
    <3>3. \A i \in 1 .. current_len + n :
             new[i] = IF i <= current_len THEN old[i] ELSE add[i - current_len]
      BY <1>0, <2>1, <3>1 DEF Contents
    <3>4. n \in Nat /\ add \in Seq(Thread \cup {NoThread})
      BY <2>1, <3>1
    <3> HIDE DEF add, new, old
    <3>5. new = old \o add
      BY <1>0, <1>1, <3>1, <3>2, <3>3, <3>4, IsConcat
    <3> QED
      BY <3>5 DEF add
  <2>3. S!Append_(t, n)
    BY <1>1, <2>1, <2>2 DEF S!Append_, Contents
  <2>4. \E m \in 1 .. Size : S!Append_(t, m)
    BY <2>1, <2>3, Zenon
  <2> QED
    BY <2>4, Zenon DEF S!Next
<1>3. CASE getWriteOnly_ptr
  <2>0. arg[OT] \in 1 .. Size
    BY <1>0, <1>3 DEF getWriteOnly_ptr, inside, CInv, AsksForBytes
  <2> PICK n \in 1 .. Size : n = arg[OT]
    BY <2>0
  <2>1. /\ n \in 1 .. Size /\ ~write_lock /\ write_lock' = TRUE /\ current_len' = n
        /\ data' = written(0, n, NoThread)
    BY <1>0, <1>3 DEF getWriteOnly_ptr, inside, CInv, AsksForBytes
  <2>2. new = S!Filled(NoThread, n)
    BY <1>0, <2>1 DEF Contents, S!Filled, written, Byte
  <2>3. S!Reserve(n)
    BY <2>1, <2>2 DEF S!Reserve, Contents
  <2>4. \E m \in 1 .. Size : S!Reserve(m)
    BY <2>1, <2>3, Zenon
  <2> QED
    BY <2>4, Zenon DEF S!Next
<1>4. CASE Fill
  <2>0. arg[OT] \in 1 .. Size
    BY <1>0, <1>4 DEF Fill, IInv, ReservedIsBelow, CInv, AsksForBytes
  <2> PICK n \in 1 .. Size : n = arg[OT]
    BY <2>0
  <2>1. /\ n \in 1 .. Size /\ write_lock /\ write_lock' = write_lock
        /\ current_len' = current_len /\ n <= current_len
        /\ data' = written(0, n, OT)
    BY <1>0, <1>4 DEF Fill, IInv, ReservedIsBelow, CInv, AsksForBytes
  <2>2. new = [i \in 1 .. Len(old) |-> IF i <= n THEN OT ELSE old[i]]
    <3>1. ASSUME NEW i \in 1 .. current_len
          PROVE  data'[i - 1] = IF i <= n THEN OT ELSE data[i - 1]
      BY <1>0, <2>1 DEF written, Byte
    <3> QED
      BY <1>0, <1>1, <2>1, <3>1 DEF Contents
  <2>3. S!Fill(OT, n)
    BY <1>1, <2>1, <2>2 DEF S!Fill, Contents
  <2>4. OT \in Thread /\ \E m \in 1 .. Size : S!Fill(OT, m)
    BY <2>1, <2>3, BufferAssumption, Zenon
  <2> QED
    BY <2>4, Zenon DEF S!Next
<1>5. CASE writeUnlock \/ clear
  <2>1. current_len' = 0
    BY <1>5 DEF writeUnlock, clear
  <2>2. new = << >>
    BY <2>1 DEF Contents
  <2> QED
    BY <1>5, <2>2 DEF writeUnlock, clear, S!Next, S!Release, S!Clear, Contents
<1>6. ASSUME NEW t \in Thread, AppendCopy(t)
      PROVE  new = old /\ write_lock' = write_lock
  <2>1. \A b \in 0 .. current_len - 1 : data'[b] = data[b]
    BY <1>0, <1>6 DEF AppendCopy, written, Byte
  <2> QED
    BY <1>0, <1>6, <2>1, Stutter DEF AppendCopy
<1>7. ASSUME \/ \E t \in Thread : Moves(t)
             \/ HandlerMoves \/ UNCHANGED vars
      PROVE  new = old /\ write_lock' = write_lock
  BY <1>7 DEF Moves, AppendCall, ReadCall, mutex_lock, AppendFull, getData,
     HandlerMoves, Handler, NoPointer, HandlerDone, ClearCall, vars
<1> HIDE DEF old, new
<1> QED
  BY <1>2, <1>3, <1>4, <1>5, <1>6, <1>7
  DEF Next, Call, CriticalSection, Handlers, Moves, HandlerMoves, old, new

(* Whatever the interleaving, each operation of the buffer is one          *)
(* indivisible step on the bytes that count.                               *)
THEOREM SlotIsAtomic == Spec => ImplementsSlot
<1>1. Init => S!Init
  BY DEF Init, S!Init
<1>2. IInv /\ CInv /\ [Next]_vars
        => [S!Next]_<<[i \in 1 .. current_len |-> data[i - 1]], write_lock>>
  BY StepRefines DEF Contents
<1>3. CInv /\ IInv /\ [Next]_vars => CInv'
  BY NextCInv
<1> QED
  BY <1>1, <1>2, <1>3, InitCInv, Inductive, PTL DEF Spec, ImplementsSlot, S!Spec
=============================================================================
