------------------------- MODULE CyclicSendTaskProof -------------------------
(***************************************************************************)
(* What TLAPS proves of CyclicSendTask, for every number of threads, every *)
(* table size, all frames and every order in which a build performs its    *)
(* accesses: the types, and that the table stays in bounds and free of     *)
(* duplicates as long as at most one thread at a time adds or empties      *)
(* (OneShaper) and the library is initialised when its class is            *)
(* (LoaderCallsInit).                                                      *)
(***************************************************************************)
EXTENDS CyclicSendTask, TLAPS

-----------------------------------------------------------------------------
(* Facts about the data.                                                    *)

(* The cycle times are integers.                                            *)
LEMMA CycleTimesInt == \A ms \in CycleTimes : ms \in Int
<1>1. CycleTimes \subseteq -MaxMs .. MaxMs
  BY FramesAssumption DEF FramesAssumption
<1> QED BY <1>1

(* The wrapper's buffer (cansocket.cpp:538-542) makes a frame of a frame.   *)
LEMMA BufferType == ASSUME NEW f \in Frames PROVE f \in StoredFrame /\ Buffer(f) \in StoredFrame
<1>1. f \in StoredFrame
  BY FramesAssumption DEF FramesAssumption
<1>2. f.head.len \in Int
  BY <1>1 DEF StoredFrame, FrameHead
<1> QED BY <1>1, <1>2 DEF StoredFrame, Buffer, Word

(* Copying one field of a frame to another leaves a frame.                  *)
LEMMA CopyField == ASSUME NEW f \in StoredFrame, NEW g \in StoredFrame, NEW field \in Fields
  PROVE  [f EXCEPT ![field] = g[field]] \in StoredFrame
BY SMT DEF StoredFrame, Fields, Words

(* So does putting a word into its data.                                    *)
LEMMA PutWord == ASSUME NEW f \in StoredFrame, NEW w \in Words, NEW v \in Word
  PROVE  [f EXCEPT ![w] = v] \in StoredFrame
BY SMT DEF StoredFrame, Words

(* And into the data of the frame a call carries.                           *)
LEMMA PutArgWord == ASSUME NEW a \in [Callers -> [f : StoredFrame, n : Int]],
                           NEW t \in Callers, NEW w \in Words, NEW v \in Word
  PROVE  [a EXCEPT ![t].f[w] = v] \in [Callers -> [f : StoredFrame, n : Int]]
<1>1. a[t].f \in StoredFrame
  OBVIOUS
<1>2. [a[t].f EXCEPT ![w] = v] \in StoredFrame
  BY <1>1, PutWord
<1> QED BY <1>2

(* A counter that drives a frame has its byte in one of the two words.      *)
LEMMA DrivesWord == ASSUME NEW c, NEW canid, Drives(c, canid)
  PROVE  WordOf(c.bytePos) \in Words
BY DEF Drives

(* A read of the counters' table yields a counter, whose value is a byte.   *)
LEMMA CounterType == ASSUME TypeOK, NEW j
  PROVE  CounterAt(j) \in AutoIncrement /\ CounterAt(j).value \in Word
<1>1. ByteMod \in Nat \ {0}
  BY FramesAssumption DEF FramesAssumption
<1> QED BY <1>1 DEF TypeOK, CounterAt, AutoIncrement, ZeroCounter, Word

(* A read of the table of frames yields a frame.                            *)
LEMMA AtType == ASSUME TypeOK, NEW s PROVE At(s) \in StoredFrame
<1>1. ByteMod \in Nat \ {0}
  BY FramesAssumption DEF FramesAssumption
<1> QED BY <1>1 DEF TypeOK, At, StoredFrame, ZeroFrame, ZeroHead, FrameHead, Word

-----------------------------------------------------------------------------
(* Type correctness.                                                        *)

(* What a call is entered with is a frame and a number.                     *)
LEMMA ArgType ==
  /\ NoArg \in [f : StoredFrame, n : Int]
  /\ ZeroFrame \in StoredFrame
<1>1. ByteMod \in Nat \ {0}
  BY FramesAssumption DEF FramesAssumption
<1> QED BY <1>1 DEF NoArg, StoredFrame, ZeroFrame, ZeroHead, FrameHead, Word

(* An identifier in place of 0, or no head, leaves a frame.                 *)
LEMMA CanidOnly == ASSUME NEW n \in Nat PROVE [ZeroFrame EXCEPT !.canid = n] \in StoredFrame
BY ArgType DEF StoredFrame

(* Nor does the head of none take it out of the type.                       *)
LEMMA NoHead == ASSUME NEW f \in StoredFrame
  PROVE  [f EXCEPT !.head = ZeroHead] \in StoredFrame
BY DEF StoredFrame, ZeroHead, FrameHead

(* The statics start in their types (cyclical_send_task.cpp:55-64).         *)
LEMMA TypeInit == Init => TypeOK
<1>1. ByteMod \in Nat \ {0}
  BY FramesAssumption DEF FramesAssumption
<1>2. HARDCODED_100MS \in Int
  BY SMT DEF HARDCODED_100MS
<1> QED
  BY <1>1, <1>2, ArgType
  DEF Init, TypeOK, ZeroCounter, AutoIncrement, Undecided, Functions

(* The entry of a call leaves everything in its type.                       *)
LEMMA TypeEntry == ASSUME TypeOK, NEW t \in Callers, CallerEntry(t) PROVE TypeOK'
<1> USE DEF TypeOK, Call, Go, NothingToStore, statics, workerVars, table, autoIncrements,
            stats, pending, Functions, Undecided
<1>1. CASE SendCyclicallyAdd(t)
  BY <1>1, CycleTimesInt, BufferType DEF SendCyclicallyAdd
<1>2. CASE SendCyclicallyRemove(t)
  <2>1. PICK f \in Frames :
          /\ Call(t, "remove", [f |-> [ZeroFrame EXCEPT !.canid = f.canid], n |-> 0], "scan")
          /\ NothingToStore
    BY <1>2 DEF SendCyclicallyRemove
  <2>2. f.canid \in Nat
    BY BufferType DEF StoredFrame
  <2>3. [ZeroFrame EXCEPT !.canid = f.canid] \in StoredFrame
    BY <2>2, CanidOnly
  <2> QED BY <2>1, <2>3
<1>3. CASE SendCyclicallyAdopt(t)
  <2>1. PICK f \in Frames :
          /\ Call(t, "adopt", [f |-> [Buffer(f) EXCEPT !.head = ZeroHead], n |-> 0], "scan")
          /\ NothingToStore
    BY <1>3 DEF SendCyclicallyAdopt
  <2>2. [Buffer(f) EXCEPT !.head = ZeroHead] \in StoredFrame
    BY BufferType, NoHead
  <2> QED BY <2>1, <2>2
<1>4. CASE RemoveCyclicalAll(t)
  BY <1>4, ArgType DEF RemoveCyclicalAll
<1>5. CASE EnableCyclicallyAutoIncrement(t)
  <2>1. Counters \subseteq [canid : Nat, bytePos : Int]
    BY FramesAssumption DEF FramesAssumption
  <2>2. PICK c \in Counters :
          /\ Call(t, "enable", [f |-> [ZeroFrame EXCEPT !.canid = c.canid], n |-> c.bytePos],
                  "autoRoom")
          /\ NothingToStore
    BY <1>5 DEF EnableCyclicallyAutoIncrement
  <2>3. [ZeroFrame EXCEPT !.canid = c.canid] \in StoredFrame /\ c.bytePos \in Int
    BY <2>1, CanidOnly
  <2> QED BY <2>2, <2>3
<1> QED BY <1>1, <1>2, <1>3, <1>4, <1>5 DEF CallerEntry

(* So does every step inside a call.                                        *)
LEMMA TypeCaller == ASSUME TypeOK, NEW t \in Callers, CallerStep(t) PROVE TypeOK'
<1> USE DEF TypeOK, Go, Return, statics, workerVars, table, autoIncrements, stats, pending
<1>1. CASE TestCycleTime(t)
  BY <1>1 DEF TestCycleTime
<1>2. CASE SetCycleTime(t)
  BY <1>2 DEF SetCycleTime
<1>3. CASE ScanNext(t)
  BY <1>3 DEF ScanNext
<1>4. CASE AddExists(t) \/ AddNoRoom(t) \/ NotFound(t) \/ EnableNoRoom(t)
  <2>1. CASE AddExists(t)
    BY <2>1, ArgType DEF AddExists
  <2>2. CASE AddNoRoom(t)
    BY <2>2, ArgType DEF AddNoRoom
  <2>3. CASE NotFound(t)
    BY <2>3, ArgType DEF NotFound
  <2>4. CASE EnableNoRoom(t)
    BY <2>4, ArgType DEF EnableNoRoom
  <2> QED BY <1>4, <2>1, <2>2, <2>3, <2>4
<1>5. CASE AddIsNew(t)
  BY <1>5 DEF AddIsNew
<1>6. CASE AddHasRoom(t)
  BY <1>6 DEF AddHasRoom
<1>7. CASE AddClaim(t)
  BY <1>7 DEF AddClaim
<1>8. CASE RemoveFound(t)
  BY <1>8, ArgType DEF RemoveFound
<1>9. CASE AdoptFound(t)
  BY <1>9 DEF AdoptFound
<1>10. CASE IgnoreCounter(t)
  <2> DEFINE c == CounterAt(i[t])
  <2>1. CASE Drives(c, arg[t].f.canid)
    <3>1. WordOf(c.bytePos) \in Words /\ c.value \in Word
      BY <2>1, CounterType, DrivesWord
    <3>2. [arg EXCEPT ![t].f[WordOf(c.bytePos)] = c.value]
            \in [Callers -> [f : StoredFrame, n : Int]]
      BY <3>1, PutArgWord
    <3>3. /\ arg' = [arg EXCEPT ![t].f[WordOf(c.bytePos)] = c.value]
          /\ i' = [i EXCEPT ![t] = @ + 1]
          /\ UNCHANGED <<statics, workerVars, pc, op, slot, pending, result>>
      BY <1>10, <2>1, Zenon DEF IgnoreCounter
    <3>4. arg' \in [Callers -> [f : StoredFrame, n : Int]]
      BY <3>2, <3>3, Zenon
    <3> HIDE DEF c
    <3> QED BY <3>3, <3>4
  <2>2. CASE ~ Drives(c, arg[t].f.canid)
    BY <1>10, <2>2 DEF IgnoreCounter
  <2> QED BY <2>1, <2>2
<1>11. CASE AdoptRaiseFlag(t)
  BY <1>11 DEF AdoptRaiseFlag, Fields
<1>12. CASE EnableHasRoom(t)
  BY <1>12 DEF EnableHasRoom
<1>13. CASE StoreField(t)
  <2>1. PICK s \in Slots, field \in Fields :
          /\ canStorage' = [canStorage EXCEPT ![s][field] = arg[t].f[field]]
          /\ toStore' = [toStore EXCEPT ![t] = @ \ {<<s, field>>}]
    BY <1>13 DEF StoreField
  <2>2. canStorage' \in [Slots -> StoredFrame]
    BY <2>1, CopyField
  <2> QED BY <1>13, <2>1, <2>2 DEF StoreField
<1>14. CASE StoreStorageIdx(t)
  BY <1>14 DEF StoreStorageIdx
<1>15. CASE StoreAutoIncrement(t)
  <2>1. PICK field \in EntryFields :
          /\ canAutoIncrement' = [canAutoIncrement EXCEPT ![slot[t]][field] =
               [canid |-> arg[t].f.canid, bytePos |-> arg[t].n, value |-> 0][field]]
          /\ toPublish' = [toPublish EXCEPT ![t] = @ \ {field}]
    BY <1>15 DEF StoreAutoIncrement
  <2>2. ByteMod \in Nat \ {0}
    BY FramesAssumption DEF FramesAssumption
  <2>3. canAutoIncrement' \in [Slots -> AutoIncrement]
    <3>1. /\ arg[t].f.canid \in Nat /\ arg[t].n \in Int
          /\ 0 \in 0 .. ByteMod - 1
      BY <2>2 DEF StoredFrame
    <3>2. \A e \in AutoIncrement : [e EXCEPT ![field] =
            [canid |-> arg[t].f.canid, bytePos |-> arg[t].n, value |-> 0][field]] \in AutoIncrement
      BY <3>1, SMT DEF AutoIncrement, EntryFields
    <3> QED BY <2>1, <3>2
  <2> QED BY <1>15, <2>1, <2>3 DEF StoreAutoIncrement
<1>16. CASE StoreAutoIncrementIdx(t)
  BY <1>16 DEF StoreAutoIncrementIdx
<1>17. CASE StoresDone(t)
  BY <1>17, ArgType DEF StoresDone
<1> QED
  BY <1>1, <1>2, <1>3, <1>4, <1>5, <1>6, <1>7, <1>8, <1>9, <1>10, <1>11, <1>12, <1>13,
     <1>14, <1>15, <1>16, <1>17 DEF CallerStep

(* And every step of the worker.                                            *)
LEMMA TypeWorker == ASSUME TypeOK, Worker PROVE TypeOK'
<1> USE DEF TypeOK, WorkerGo, statics, callerVars, table, autoIncrements, stats, pending
<1>1. CASE WorkerLook \/ WorkerSkip \/ WorkerSee \/ WorkerSync \/ WorkerCopied \/ WorkerWake
  BY <1>1 DEF WorkerLook, WorkerSkip, WorkerSee, WorkerSync, WorkerCopied, WorkerWake
<1>2. CASE WorkerCopyField
  <2>1. PICK field \in Fields :
          /\ frameToSend' = [frameToSend EXCEPT ![field] = At(wi)[field]]
          /\ toCopy' = toCopy \ {field}
    BY <1>2 DEF WorkerCopyField
  <2>2. frameToSend' \in StoredFrame
    BY <2>1, AtType, CopyField
  <2> QED BY <1>2, <2>1, <2>2 DEF WorkerCopyField
<1>3. CASE WorkerModify
  <2> DEFINE c == CounterAt(wj)
             next == (c.value + 1) % ByteMod
  <2>1. next \in 0 .. ByteMod - 1 /\ next \in Word
    <3>1. ByteMod \in Nat \ {0}
      BY FramesAssumption DEF FramesAssumption
    <3>2. c.value \in 0 .. ByteMod - 1
      BY CounterType DEF AutoIncrement
    <3> QED BY <3>1, <3>2 DEF Word
  <2>2. CASE wj \in Slots /\ Drives(c, frameToSend.canid)
    <3>1. [frameToSend EXCEPT ![WordOf(c.bytePos)] = next] \in StoredFrame
      BY <2>1, <2>2, DrivesWord, PutWord
    <3>2. [canAutoIncrement EXCEPT ![wj].value = next] \in [Slots -> AutoIncrement]
      BY <2>1 DEF AutoIncrement
    <3>3. /\ canAutoIncrement' = [canAutoIncrement EXCEPT ![wj].value = next]
          /\ frameToSend' = [frameToSend EXCEPT ![WordOf(c.bytePos)] = next]
          /\ wj' = wj + 1
          /\ UNCHANGED <<table, autoIncrementIdx, syncAdjust, theOneCycleTime, stats, wpc,
                         wi, toCopy, framesCnt, callerVars>>
      BY <1>3, <2>2, Zenon DEF WorkerModify
    <3>4. /\ canAutoIncrement' \in [Slots -> AutoIncrement]
          /\ frameToSend' \in StoredFrame
      BY <3>1, <3>2, <3>3, Zenon
    <3> HIDE DEF c, next
    <3> QED BY <3>3, <3>4
  <2>3. CASE ~ (wj \in Slots /\ Drives(c, frameToSend.canid))
    BY <1>3, <2>3 DEF WorkerModify
  <2> QED BY <2>2, <2>3
<1>4. CASE WorkerSend
  BY <1>4, ArgType DEF WorkerSend
<1>5. CASE WorkerEndCycle
  BY <1>5 DEF WorkerEndCycle
<1> QED BY <1>1, <1>2, <1>3, <1>4, <1>5 DEF Worker

(* Every step of the program keeps the types.                               *)
LEMMA TypeStep == TypeOK /\ [Next]_vars => TypeOK'
<1> SUFFICES ASSUME TypeOK, [Next]_vars PROVE TypeOK'
  OBVIOUS
<1>1. CASE CyclicalInitLowLevelThread
  <2>1. ByteMod \in Nat \ {0}
    BY FramesAssumption DEF FramesAssumption
  <2> QED
    BY <1>1, <2>1, ArgType
    DEF CyclicalInitLowLevelThread, TypeOK, callerVars, pending, stats, AutoIncrement, ZeroCounter
<1>2. CASE \E t \in Callers : CallerEntry(t) \/ CallerStep(t)
  BY <1>2, TypeEntry, TypeCaller
<1>3. CASE Worker
  BY <1>3, TypeWorker
<1>4. CASE UNCHANGED vars
  BY <1>4 DEF vars, statics, workerVars, callerVars, table, autoIncrements, stats, pending, TypeOK
<1> QED BY <1>1, <1>2, <1>3, <1>4 DEF Next

(* Every variable keeps its type, whatever the threads call and however     *)
(* they race (the statics of cyclical_send_task.cpp:55-64, the locals of    *)
(* its functions and of the native wrappers).                               *)
THEOREM TypeCorrect == Spec => []TypeOK
BY TypeInit, TypeStep, PTL DEF Spec

-----------------------------------------------------------------------------
(* The inductive invariant, thread by thread.                               *)

(* Where a thread is in its code tells which function it is in, and which   *)
(* stores it has left.                                                      *)
ControlOf(t) ==
  /\ op[t] \in Calls[t] \cup {"none"}
  /\ pc[t] = "idle" <=> op[t] = "none"
  /\ pc[t] \in {"cycle", "setCycle", "room", "claim"} => op[t] = "add"
  /\ pc[t] = "scan" => op[t] \in {"add", "remove", "adopt"}
  /\ pc[t] = "ignore" => op[t] = "adopt"
  /\ pc[t] = "autoRoom" => op[t] = "enable"
  /\ pc[t] \in {"idle", "cycle", "setCycle"} => i[t] = 0
  /\ pc[t] # "store" => toStore[t] = {} /\ toPublish[t] = {}
  /\ op[t] \notin {"add", "removeAll"} => "storageIdx" \notin toPublish[t]
  /\ op[t] = "removeAll" => pc[t] = "store"
  /\ pc[t] # "idle" => wpc # "absent"

(* The slot an add has claimed is the first free one, until it is published. *)
IndexOf(t) ==
  /\ pc[t] = "claim" => slot[t] = storageIdx /\ slot[t] \in Slots
  /\ pc[t] = "store" /\ op[t] = "add" =>
       /\ slot[t] \in Slots
       /\ storageIdx = IF "storageIdx" \in toPublish[t] THEN slot[t] ELSE slot[t] + 1

(* An identifier is only ever stored by an add, into the slot it claimed;   *)
(* remove and removeAll store zeros, adopt stores data.  A removeAll still   *)
(* has every identifier to clear that there is.                             *)
StoresOf(t) ==
  pc[t] = "store" =>
    /\ op[t] \in {"remove", "removeAll"} => arg[t].f.canid = 0
    /\ op[t] = "add" => toStore[t] \subseteq {slot[t]} \X Fields
    /\ op[t] \in {"adopt", "enable"} => toStore[t] \subseteq Slots \X Words
    /\ op[t] = "removeAll" => \A s \in Slots :
         canStorage[s].canid # 0 => <<s, "canid">> \in toStore[t]

(* No slot s carries the identifier that thread t is about to store.        *)
IsNewTo(t, s) == canStorage[s].canid # 0 => canStorage[s].canid # arg[t].f.canid

(* What an add knows of the table: the slots it has passed hold other        *)
(* identifiers than its own.                                                *)
SearchOf(t) ==
  op[t] = "add" => \A s \in Slots :
    /\ pc[t] = "scan" /\ s < i[t] => IsNewTo(t, s)
    /\ pc[t] \in {"room", "claim"} /\ s < storageIdx => IsNewTo(t, s)
    /\ pc[t] = "store" /\ s # slot[t] => IsNewTo(t, s)

(* A slot that some thread still has to clear, or is just filling.          *)
BeingStored(s) == \E t \in Callers :
  /\ pc[t] = "store"
  /\ \/ op[t] = "removeAll" /\ <<s, "canid">> \in toStore[t]
     \/ op[t] = "add" /\ slot[t] = s

TableInv ==
  /\ TypeOK
  /\ storageIdx \in -1 .. MAX_CAN_FRAMES_TO_STORE
  /\ wpc # "absent" => storageIdx >= 0
  /\ \A t \in Callers : ControlOf(t) /\ IndexOf(t) /\ StoresOf(t) /\ SearchOf(t)
  /\ \A s \in Slots : s >= storageIdx /\ canStorage[s].canid # 0 => BeingStored(s)
  /\ UniqueIds

-----------------------------------------------------------------------------
(* At most one thread is in an add or a removeAll.                          *)
LEMMA ShaperIsOne ==
  ASSUME OneShaper, NEW t \in Callers, NEW u \in Callers, ControlOf(t), ControlOf(u),
         op[t] \in {"add", "removeAll"}, op[u] \in {"add", "removeAll"}
  PROVE  t = u
<1>1. op[t] \in Calls[t] /\ op[u] \in Calls[u]
  BY DEF ControlOf
<1> QED BY <1>1 DEF OneShaper

(* The invariant holds of the statics before the program runs.              *)
LEMMA TableInit == Init => TableInv
<1> SUFFICES ASSUME Init PROVE TableInv
  OBVIOUS
<1>1. TypeOK
  BY TypeInit
<1>2. MAX_CAN_FRAMES_TO_STORE \in Nat \ {0}
  BY StorageAssumption DEF StorageAssumption
<1>3. storageIdx \in -1 .. MAX_CAN_FRAMES_TO_STORE /\ wpc = "absent"
  BY <1>2 DEF Init
<1>4. \A t \in Callers : ControlOf(t) /\ IndexOf(t) /\ StoresOf(t) /\ SearchOf(t)
  BY DEF Init, ControlOf, IndexOf, StoresOf, SearchOf
<1>5. \A s \in Slots : canStorage[s].canid = 0
  BY DEF Init, ZeroFrame
<1> QED BY <1>1, <1>3, <1>4, <1>5 DEF TableInv, UniqueIds

-----------------------------------------------------------------------------
(* What a step of one thread leaves alone.                                  *)

(* The locals of thread u are as they were.                                 *)
LocalsStay(u) ==
  /\ pc'[u] = pc[u] /\ op'[u] = op[u] /\ arg'[u] = arg[u] /\ i'[u] = i[u]
  /\ slot'[u] = slot[u] /\ toStore'[u] = toStore[u] /\ toPublish'[u] = toPublish[u]

(* The calls leave the worker's variables alone.                            *)
LEMMA CallersLeaveWorker ==
  ASSUME NEW t \in Callers, CallerEntry(t) \/ CallerStep(t) PROVE UNCHANGED workerVars
<1>1. CASE CallerEntry(t)
  BY <1>1 DEF CallerEntry, SendCyclicallyAdd, SendCyclicallyRemove, SendCyclicallyAdopt,
     RemoveCyclicalAll, EnableCyclicallyAutoIncrement, Call
<1>2. CASE IgnoreCounter(t)
  BY <1>2, Zenon DEF IgnoreCounter
<1>3. CASE CallerStep(t) /\ ~ IgnoreCounter(t)
  BY <1>3 DEF CallerStep, TestCycleTime, SetCycleTime, ScanNext, AddExists, AddIsNew, AddNoRoom,
     AddHasRoom, AddClaim, RemoveFound, NotFound, AdoptFound, AdoptRaiseFlag, EnableNoRoom,
     EnableHasRoom, StoreField, StoreStorageIdx, StoreAutoIncrement, StoreAutoIncrementIdx,
     StoresDone
<1> QED BY <1>1, <1>2, <1>3

(* A thread has no access to the locals of another.                         *)
LEMMA OthersStay ==
  ASSUME TypeOK, NEW t \in Callers, NEW u \in Callers, u # t, CallerEntry(t) \/ CallerStep(t)
  PROVE  LocalsStay(u)
<1> USE DEF LocalsStay, TypeOK, Go, Return, Call, NothingToStore, pending
<1>1. CASE CallerEntry(t)
  BY <1>1 DEF CallerEntry, SendCyclicallyAdd, SendCyclicallyRemove, SendCyclicallyAdopt,
              RemoveCyclicalAll, EnableCyclicallyAutoIncrement
<1>2. CASE TestCycleTime(t) \/ SetCycleTime(t) \/ ScanNext(t) \/ AddExists(t) \/ AddIsNew(t)
           \/ AddNoRoom(t) \/ AddHasRoom(t) \/ AddClaim(t)
  BY <1>2 DEF TestCycleTime, SetCycleTime, ScanNext, AddExists, AddIsNew, AddNoRoom,
              AddHasRoom, AddClaim
<1>3. CASE RemoveFound(t) \/ NotFound(t) \/ AdoptFound(t) \/ AdoptRaiseFlag(t)
           \/ EnableNoRoom(t) \/ EnableHasRoom(t)
  BY <1>3 DEF RemoveFound, NotFound, AdoptFound, AdoptRaiseFlag, EnableNoRoom, EnableHasRoom
<1>4. CASE IgnoreCounter(t)
  <2>1. arg'[u] = arg[u]
    BY <1>4, Zenon DEF IgnoreCounter
  <2> QED BY <1>4, <2>1 DEF IgnoreCounter
<1>5. CASE StoreField(t) \/ StoreStorageIdx(t) \/ StoreAutoIncrement(t)
           \/ StoreAutoIncrementIdx(t) \/ StoresDone(t)
  BY <1>5 DEF StoreField, StoreStorageIdx, StoreAutoIncrement, StoreAutoIncrementIdx, StoresDone
<1> QED BY <1>1, <1>2, <1>3, <1>4, <1>5 DEF CallerStep

(* So what holds of a thread still holds when its locals and the table are  *)
(* as they were.                                                            *)
LEMMA ThreadStays ==
  ASSUME NEW u, LocalsStay(u), UNCHANGED table, wpc # "absent" => wpc' # "absent",
         ControlOf(u), IndexOf(u), StoresOf(u), SearchOf(u)
  PROVE  (ControlOf(u) /\ IndexOf(u) /\ StoresOf(u) /\ SearchOf(u))'
BY DEF LocalsStay, table, ControlOf, IndexOf, StoresOf, SearchOf, IsNewTo

-----------------------------------------------------------------------------
(* The thread that takes the step.                                          *)

ThreadInv(t) == ControlOf(t) /\ IndexOf(t) /\ StoresOf(t) /\ SearchOf(t)

(* Entering a call: it needs a library that has been initialised.           *)
LEMMA EntryKeeps ==
  ASSUME LoaderCallsInit, TypeOK, NEW t \in Callers, ThreadInv(t), CallerEntry(t)
  PROVE  ThreadInv(t)'
<1> USE DEF TypeOK, Call, Go, NothingToStore, statics, workerVars, table, pending,
            ThreadInv, ControlOf, IndexOf, StoresOf, SearchOf, Functions
<1>1. CASE SendCyclicallyAdd(t)
  BY <1>1 DEF SendCyclicallyAdd
<1>2. CASE SendCyclicallyRemove(t)
  BY <1>2 DEF SendCyclicallyRemove
<1>3. CASE SendCyclicallyAdopt(t)
  BY <1>3 DEF SendCyclicallyAdopt
<1>4. CASE RemoveCyclicalAll(t)
  BY <1>4 DEF RemoveCyclicalAll, NoArg, ZeroFrame, Fields
<1>5. CASE EnableCyclicallyAutoIncrement(t)
  BY <1>5 DEF EnableCyclicallyAutoIncrement
<1> QED BY <1>1, <1>2, <1>3, <1>4, <1>5 DEF CallerEntry

(* An add that begins knows nothing, and has claimed nothing.               *)
LEMMA CycleKeeps ==
  ASSUME TypeOK, NEW t \in Callers, ThreadInv(t), TestCycleTime(t) \/ SetCycleTime(t)
  PROVE  ThreadInv(t)'
BY DEF TypeOK, Go, statics, workerVars, table, pending, ThreadInv, ControlOf, IndexOf, StoresOf,
       SearchOf, TestCycleTime, SetCycleTime, Slots

(* A slot the search has passed holds another identifier.                   *)
LEMMA ScanKeeps ==
  ASSUME TypeOK, NEW t \in Callers, ThreadInv(t), ScanNext(t)
  PROVE  ThreadInv(t)'
<1> USE DEF TypeOK, statics, workerVars, table, pending, ThreadInv
<1>1. ControlOf(t)' /\ IndexOf(t)' /\ StoresOf(t)'
  BY DEF ScanNext, Scanning, ControlOf, IndexOf, StoresOf
<1>2. At(i[t]).canid # arg[t].f.canid /\ pc[t] = "scan"
  BY DEF ScanNext, Hit, Scanning
<1>3. \A s \in Slots : s < i[t] + 1 => s < i[t] \/ s = i[t]
  BY DEF Slots
<1>4. SearchOf(t)'
  BY <1>2, <1>3 DEF ScanNext, SearchOf, IsNewTo, At
<1> QED BY <1>1, <1>4

(* A search that has passed every slot in use found nothing.                *)
LEMMA AddIsNewKeeps ==
  ASSUME TypeOK, NEW t \in Callers, ThreadInv(t), AddIsNew(t)
  PROVE  ThreadInv(t)'
<1> USE DEF TypeOK, Go, statics, workerVars, table, pending, ThreadInv
<1>1. ControlOf(t)' /\ IndexOf(t)' /\ StoresOf(t)'
  BY DEF AddIsNew, ControlOf, IndexOf, StoresOf
<1>2. pc[t] = "scan" /\ \A s \in Slots : s < storageIdx => s < i[t]
  BY DEF AddIsNew, Missed, Scanning, Slots
<1>3. SearchOf(t)'
  BY <1>2 DEF AddIsNew, SearchOf, IsNewTo
<1> QED BY <1>1, <1>3

(* The slot claimed is the one at storageIdx.                               *)
LEMMA AddHasRoomKeeps ==
  ASSUME TypeOK, NEW t \in Callers, ThreadInv(t), AddHasRoom(t),
         wpc # "absent" => storageIdx >= 0
  PROVE  ThreadInv(t)'
<1> USE DEF TypeOK, Go, statics, workerVars, table, pending, ThreadInv
<1>1. ControlOf(t)' /\ StoresOf(t)' /\ SearchOf(t)'
  BY DEF AddHasRoom, ControlOf, StoresOf, SearchOf, IsNewTo
<1>2. storageIdx \in Slots
  <2>1. MAX_CAN_FRAMES_TO_STORE \in Nat
    BY StorageAssumption DEF StorageAssumption
  <2> QED BY <2>1 DEF AddHasRoom, ControlOf, Slots
<1>3. IndexOf(t)'
  BY <1>2 DEF AddHasRoom, IndexOf
<1> QED BY <1>1, <1>3

(* From then on only the claimed slot may take the new identifier: behind   *)
(* it the table is empty.                                                   *)
LEMMA AddClaimKeeps ==
  ASSUME OneShaper, TableInv, NEW t \in Callers, AddClaim(t)
  PROVE  ThreadInv(t)'
<1> USE DEF TypeOK, Go, statics, workerVars, table, pending, ThreadInv, TableInv
<1>1. /\ pc[t] = "claim" /\ op[t] = "add" /\ slot[t] = storageIdx /\ slot[t] \in Slots
      /\ slot'[t] = slot[t] /\ pc'[t] = "store" /\ toPublish'[t] = {"storageIdx"}
      /\ toStore'[t] = {slot[t]} \X Fields
      /\ UNCHANGED <<canStorage, storageIdx, op, arg, i, wpc>>
  BY DEF AddClaim, ControlOf, IndexOf
<1>2. ControlOf(t)'
  BY <1>1 DEF ControlOf
<1>3. IndexOf(t)'
  BY <1>1 DEF IndexOf
<1>4. StoresOf(t)'
  BY <1>1 DEF StoresOf
<1>5. ASSUME NEW s \in Slots, s # slot[t] PROVE IsNewTo(t, s)
  <2>1. CASE s < storageIdx
    BY <1>1, <2>1 DEF SearchOf
  <2>2. CASE s >= storageIdx
    <3>1. \A u \in Callers : ControlOf(u) /\ op[u] \in {"add", "removeAll"} => u = t
      BY <1>1, ShaperIsOne
    <3>2. ~ BeingStored(s)
      BY <1>1, <3>1 DEF BeingStored
    <3> QED BY <2>2, <3>2 DEF IsNewTo
  <2> QED BY <1>1, <2>1, <2>2 DEF Slots
<1>6. SearchOf(t)'
  BY <1>1, <1>5 DEF SearchOf, IsNewTo
<1> QED BY <1>2, <1>3, <1>4, <1>6

(* The steps that leave a thread without a claim.                           *)
LEMMA OthersKeep ==
  ASSUME TypeOK, NEW t \in Callers, ThreadInv(t),
         \/ AddExists(t) \/ AddNoRoom(t) \/ NotFound(t) \/ EnableNoRoom(t) \/ StoresDone(t)
         \/ RemoveFound(t) \/ AdoptFound(t) \/ AdoptRaiseFlag(t) \/ EnableHasRoom(t)
  PROVE  ThreadInv(t)'
<1> USE DEF TypeOK, Go, Return, statics, workerVars, table, pending, ThreadInv,
            ControlOf, IndexOf, StoresOf, SearchOf
<1>1. CASE AddExists(t) \/ AddNoRoom(t) \/ NotFound(t) \/ EnableNoRoom(t) \/ StoresDone(t)
  BY <1>1 DEF AddExists, AddNoRoom, NotFound, EnableNoRoom, StoresDone
<1>2. CASE RemoveFound(t)
  BY <1>2 DEF RemoveFound, Hit, Scanning, NoArg, ZeroFrame
<1>3. CASE AdoptFound(t)
  BY <1>3 DEF AdoptFound, Hit, Scanning
<1>4. CASE AdoptRaiseFlag(t)
  BY <1>4 DEF AdoptRaiseFlag
<1>5. CASE EnableHasRoom(t)
  BY <1>5 DEF EnableHasRoom, EntryFields
<1> QED BY <1>1, <1>2, <1>3, <1>4, <1>5

(* A counter only gets into the data of the frame to adopt, and the stores  *)
(* of an enable do not touch the table of frames.                           *)
LEMMA CountersKeep ==
  ASSUME TypeOK, NEW t \in Callers, ThreadInv(t),
         IgnoreCounter(t) \/ StoreAutoIncrement(t) \/ StoreAutoIncrementIdx(t)
  PROVE  ThreadInv(t)'
<1>1. CASE IgnoreCounter(t)
  <2>1. /\ UNCHANGED <<pc, op, slot, toStore, toPublish, wpc, table>>
        /\ pc[t] = "ignore" /\ pc' = pc
    BY <1>1, Zenon DEF IgnoreCounter, statics, workerVars, pending
  <2> QED BY <2>1 DEF ThreadInv, ControlOf, IndexOf, StoresOf, SearchOf, table
<1>2. CASE StoreAutoIncrement(t) \/ StoreAutoIncrementIdx(t)
  <2>1. /\ UNCHANGED <<pc, op, arg, i, slot, toStore, wpc, table>>
        /\ pc[t] = "store"
        /\ toPublish'[t] \subseteq toPublish[t]
        /\ "storageIdx" \in toPublish[t] => "storageIdx" \in toPublish'[t]
    BY <1>2 DEF StoreAutoIncrement, StoreAutoIncrementIdx, EntryFields, workerVars, TypeOK
  <2> QED BY <2>1 DEF ThreadInv, ControlOf, IndexOf, StoresOf, SearchOf, IsNewTo, table
<1> QED BY <1>1, <1>2

-----------------------------------------------------------------------------
(* Steps that leave the table alone.                                        *)

(* Steps that store nothing into the table keep its invariant.              *)
LEMMA LocalStep ==
  ASSUME LoaderCallsInit, OneShaper, TableInv, NEW t \in Callers,
         CallerEntry(t) \/ CallerStep(t), ~ StoreField(t), ~ StoreStorageIdx(t)
  PROVE  TableInv'
<1>1. TypeOK'
  BY TypeEntry, TypeCaller DEF TableInv
<1>2. UNCHANGED <<table, wpc>>
  BY DEF CallerEntry, SendCyclicallyAdd, SendCyclicallyRemove, SendCyclicallyAdopt,
         RemoveCyclicalAll, EnableCyclicallyAutoIncrement, Call, CallerStep, TestCycleTime,
         SetCycleTime, ScanNext, AddExists, AddIsNew, AddNoRoom, AddHasRoom, AddClaim, RemoveFound,
         NotFound, AdoptFound, IgnoreCounter, AdoptRaiseFlag, EnableNoRoom, EnableHasRoom,
         StoreAutoIncrement, StoreAutoIncrementIdx, StoresDone, statics, workerVars
<1>3. ThreadInv(t)'
  BY EntryKeeps, CycleKeeps, ScanKeeps, AddIsNewKeeps, AddHasRoomKeeps, AddClaimKeeps,
     OthersKeep, CountersKeep DEF CallerStep, TableInv, ThreadInv
<1>4. \A u \in Callers : u # t => LocalsStay(u)
  BY OthersStay DEF TableInv
<1>5. ASSUME NEW u \in Callers PROVE (ControlOf(u) /\ IndexOf(u) /\ StoresOf(u) /\ SearchOf(u))'
  <2>1. CASE u = t
    BY <1>3, <2>1 DEF ThreadInv
  <2>2. CASE u # t
    BY <1>2, <1>4, <2>2, ThreadStays DEF TableInv
  <2> QED BY <2>1, <2>2
<1>6. ASSUME NEW s \in Slots, s >= storageIdx, BeingStored(s) PROVE BeingStored(s)'
  <2>1. PICK u \in Callers : /\ pc[u] = "store"
                             /\ \/ op[u] = "removeAll" /\ <<s, "canid">> \in toStore[u]
                                \/ op[u] = "add" /\ slot[u] = s
    BY <1>6 DEF BeingStored
  <2>2. CASE u # t
    BY <1>4, <2>1, <2>2 DEF BeingStored, LocalsStay
  <2>3. CASE u = t
    <3>1. StoreAutoIncrement(t) \/ StoreAutoIncrementIdx(t) \/ StoresDone(t)
      BY <2>1, <2>3
      DEF CallerEntry, SendCyclicallyAdd, SendCyclicallyRemove, SendCyclicallyAdopt,
          RemoveCyclicalAll, EnableCyclicallyAutoIncrement, Call, CallerStep, TestCycleTime,
          SetCycleTime, ScanNext, AddExists, AddIsNew, AddNoRoom, AddHasRoom, AddClaim,
          RemoveFound, NotFound, AdoptFound, IgnoreCounter, AdoptRaiseFlag, EnableNoRoom,
          EnableHasRoom, Go, Return, Hit, Scanning, Missed
    <3>2. ~ StoresDone(t)
      <4>1. "storageIdx" \in toPublish[t] \/ op[t] # "add"
        BY <1>6, <2>1, <2>3 DEF TableInv, IndexOf, Slots
      <4> QED BY <2>1, <2>3, <4>1 DEF StoresDone
    <3> QED BY <2>1, <2>3, <3>1, <3>2 DEF BeingStored, StoreAutoIncrement, StoreAutoIncrementIdx
  <2> QED BY <2>2, <2>3
<1>7. UniqueIds' /\ \A s \in Slots : canStorage'[s].canid = canStorage[s].canid
  BY <1>2 DEF TableInv, UniqueIds, table
<1> QED BY <1>1, <1>2, <1>5, <1>6, <1>7 DEF TableInv, table

-----------------------------------------------------------------------------
(* Steps that change the table.                                             *)

(* The thread whose step changes storageIdx or an identifier in another way *)
(* than to 0 is the only one in an add or a removeAll.                      *)
LEMMA OnlyShaper ==
  ASSUME OneShaper, TableInv, NEW t \in Callers, op[t] \in {"add", "removeAll"}
  PROVE  \A u \in Callers : u # t => op[u] \notin {"add", "removeAll"}
BY ShaperIsOne DEF TableInv

(* storageIdx++ takes in the slot just filled, storageIdx = 0 leaves what   *)
(* the removeAll still has to clear.                                        *)
LEMMA StorageIdxStep ==
  ASSUME OneShaper, TableInv, NEW t \in Callers, StoreStorageIdx(t)
  PROVE  TableInv'
<1>1. TypeOK'
  BY TypeCaller DEF TableInv, CallerStep
<1>2. /\ pc[t] = "store" /\ "storageIdx" \in toPublish[t]
      /\ op[t] \in {"add", "removeAll"}
      /\ toPublish' = [toPublish EXCEPT ![t] = @ \ {"storageIdx"}]
      /\ UNCHANGED <<canStorage, wpc, pc, op, arg, i, slot, toStore>>
      /\ op[t] = "add" => storageIdx = slot[t] /\ slot[t] \in Slots /\ storageIdx' = slot[t] + 1
      /\ op[t] = "removeAll" => storageIdx' = 0
  BY DEF StoreStorageIdx, TableInv, ControlOf, IndexOf, workerVars
<1>3. MAX_CAN_FRAMES_TO_STORE \in Nat \ {0}
  BY StorageAssumption DEF StorageAssumption
<1>4. storageIdx' \in 0 .. MAX_CAN_FRAMES_TO_STORE
  BY <1>2, <1>3 DEF Slots
<1>5. toPublish' \in [Callers -> SUBSET ({"storageIdx", "autoIncrementIdx"} \cup EntryFields)]
      /\ toPublish \in [Callers -> SUBSET ({"storageIdx", "autoIncrementIdx"} \cup EntryFields)]
  BY <1>1 DEF TypeOK, TableInv
<1>6. \A u \in Callers : u # t => op[u] \notin {"add", "removeAll"} /\ toPublish'[u] = toPublish[u]
  BY <1>2, <1>5, OnlyShaper
<1>7. ASSUME NEW u \in Callers PROVE (ControlOf(u) /\ IndexOf(u) /\ StoresOf(u) /\ SearchOf(u))'
  <2>1. ControlOf(u) /\ IndexOf(u) /\ StoresOf(u) /\ SearchOf(u)
    BY DEF TableInv
  <2>2. CASE u = t
    <3>1. toPublish'[t] = toPublish[t] \ {"storageIdx"}
      BY <1>2, <1>5
    <3> QED BY <1>2, <2>1, <2>2, <3>1 DEF ControlOf, IndexOf, StoresOf, SearchOf, IsNewTo
  <2>3. CASE u # t
    BY <1>2, <1>6, <2>1, <2>3 DEF ControlOf, IndexOf, StoresOf, SearchOf, IsNewTo
  <2> QED BY <2>2, <2>3
<1>8. ASSUME NEW s \in Slots, s >= storageIdx', canStorage[s].canid # 0 PROVE BeingStored(s)'
  <2>1. CASE op[t] = "add"
    <3>1. s >= storageIdx
      BY <1>2, <1>8, <2>1 DEF Slots
    <3>2. BeingStored(s)
      BY <1>8, <3>1 DEF TableInv
    <3> QED BY <1>2, <3>2 DEF BeingStored
  <2>2. CASE op[t] = "removeAll"
    BY <1>2, <1>8, <2>2 DEF TableInv, StoresOf, BeingStored
  <2> QED BY <1>2, <2>1, <2>2
<1>9. UniqueIds'
  BY <1>2 DEF TableInv, UniqueIds
<1> QED BY <1>1, <1>2, <1>4, <1>7, <1>8, <1>9 DEF TableInv

(* A store into a slot either leaves its identifier alone, or clears it, or *)
(* gives it one that no other slot has.                                     *)
LEMMA FieldStep ==
  ASSUME OneShaper, TableInv, NEW t \in Callers, StoreField(t)
  PROVE  TableInv'
<1>1. TypeOK'
  BY TypeCaller DEF TableInv, CallerStep
<1>2. PICK s0 \in Slots, field \in Fields :
        /\ <<s0, field>> \in toStore[t]
        /\ canStorage' = [canStorage EXCEPT ![s0][field] = arg[t].f[field]]
        /\ toStore' = [toStore EXCEPT ![t] = @ \ {<<s0, field>>}]
  BY DEF StoreField
<1>3. pc[t] = "store" /\ UNCHANGED <<storageIdx, wpc, pc, op, arg, i, slot, toPublish>>
  BY DEF StoreField, workerVars
<1>4. /\ canStorage \in [Slots -> StoredFrame]
      /\ toStore \in [Callers -> SUBSET (Slots \X Fields)]
  BY DEF TableInv, TypeOK
<1>5. \A s \in Slots : canStorage'[s].canid =
        IF s = s0 /\ field = "canid" THEN arg[t].f.canid ELSE canStorage[s].canid
  BY <1>2, <1>4 DEF StoredFrame, Fields, Words
<1>6. /\ toStore'[t] = toStore[t] \ {<<s0, field>>}
      /\ \A u \in Callers : u # t => toStore'[u] = toStore[u]
  BY <1>2, <1>4
<1>7. field = "canid" => op[t] \in {"add", "remove", "removeAll"}
  BY <1>2, <1>3, <1>4 DEF TableInv, ControlOf, StoresOf, TypeOK, Words, Functions
<1>8. op[t] \in {"remove", "removeAll"} => arg[t].f.canid = 0
  BY <1>3 DEF TableInv, StoresOf
<1>9. op[t] = "add" => s0 = slot[t]
  BY <1>2, <1>3 DEF TableInv, StoresOf
<1>10. op[t] \in {"add", "removeAll"} =>
         \A u \in Callers : u # t => op[u] \notin {"add", "removeAll"}
  BY OnlyShaper
<1>11. ASSUME NEW u \in Callers PROVE (ControlOf(u) /\ IndexOf(u))'
  BY <1>3, <1>6 DEF TableInv, ControlOf, IndexOf
<1>12. ASSUME NEW u \in Callers PROVE StoresOf(u)'
  <2>1. StoresOf(u)
    BY DEF TableInv
  <2>2. toStore'[u] \subseteq toStore[u]
    BY <1>6
  <2>3. ASSUME pc[u] = "store", op[u] = "removeAll", NEW s \in Slots, canStorage'[s].canid # 0
        PROVE  <<s, "canid">> \in toStore'[u]
    <3>1. op[t] # "add"
      BY <1>10, <2>3
    <3>2. canStorage[s].canid # 0 /\ ~ (s = s0 /\ field = "canid")
      BY <1>5, <1>7, <1>8, <2>3, <3>1
    <3> QED BY <1>6, <2>1, <2>3, <3>2 DEF StoresOf
  <2> QED BY <1>3, <2>1, <2>2, <2>3 DEF StoresOf
<1>13. ASSUME NEW u \in Callers PROVE SearchOf(u)'
  <2>1. SearchOf(u)
    BY DEF TableInv
  <2>2. CASE op[t] = "add" /\ op[u] = "add"
    <3>1. u = t
      BY <1>10, <2>2
    <3> QED BY <1>3, <1>5, <1>9, <2>1, <2>2, <3>1 DEF SearchOf, IsNewTo
  <2>3. CASE op[t] # "add"
    BY <1>3, <1>5, <1>7, <1>8, <2>1, <2>3 DEF SearchOf, IsNewTo
  <2>4. CASE op[u] # "add"
    BY <1>3, <2>4 DEF SearchOf
  <2> QED BY <2>2, <2>3, <2>4
<1>14. ASSUME NEW s \in Slots, s >= storageIdx, canStorage'[s].canid # 0 PROVE BeingStored(s)'
  <2>1. CASE op[t] = "add" /\ s = s0
    BY <1>3, <1>9, <2>1 DEF BeingStored
  <2>2. CASE ~ (op[t] = "add" /\ s = s0)
    <3>1. canStorage[s].canid # 0 /\ ~ (s = s0 /\ field = "canid")
      BY <1>5, <1>7, <1>8, <1>14, <2>2
    <3>2. BeingStored(s)
      BY <1>14, <3>1 DEF TableInv
    <3> QED BY <1>3, <1>6, <3>1, <3>2 DEF BeingStored
  <2> QED BY <2>1, <2>2
<1>15. UniqueIds'
  <2>1. CASE op[t] = "add"
    <3>1. \A s \in Slots : s # s0 => IsNewTo(t, s)
      BY <1>3, <1>9, <2>1 DEF TableInv, SearchOf
    <3> QED BY <1>5, <3>1 DEF TableInv, UniqueIds, IsNewTo
  <2>2. CASE op[t] # "add"
    BY <1>5, <1>7, <1>8, <2>2 DEF TableInv, UniqueIds
  <2> QED BY <2>1, <2>2
<1> QED BY <1>1, <1>3, <1>11, <1>12, <1>13, <1>14, <1>15 DEF TableInv

-----------------------------------------------------------------------------
(* The initialisation empties a table that nobody uses yet.                 *)
LEMMA InitStep ==
  ASSUME TableInv, CyclicalInitLowLevelThread PROVE TableInv'
<1>1. TypeOK'
  BY TypeStep DEF TableInv, Next
<1>2. /\ storageIdx' = 0 /\ wpc' # "absent" /\ \A s \in Slots : canStorage'[s].canid = 0
      /\ UNCHANGED <<pc, op, arg, i, slot, toStore, toPublish>>
      /\ \A t \in Callers : pc[t] = "idle"
  BY DEF TableInv, ControlOf, CyclicalInitLowLevelThread, ZeroFrame, callerVars, pending
<1>3. MAX_CAN_FRAMES_TO_STORE \in Nat
  BY StorageAssumption DEF StorageAssumption
<1>4. \A t \in Callers : (ControlOf(t) /\ IndexOf(t) /\ StoresOf(t) /\ SearchOf(t))'
  BY <1>2 DEF TableInv, ControlOf, IndexOf, StoresOf, SearchOf
<1> QED BY <1>1, <1>2, <1>3, <1>4 DEF TableInv, UniqueIds

(* The worker only reads the table.                                         *)
LEMMA WorkerStep ==
  ASSUME TableInv, Worker \/ UNCHANGED vars PROVE TableInv'
<1>1. TypeOK'
  BY TypeStep DEF TableInv, Next
<1>2. UNCHANGED <<table, callerVars>> /\ (wpc # "absent" <=> wpc' # "absent")
  BY DEF Worker, WorkerLook, WorkerSkip, WorkerSee, WorkerSync, WorkerCopyField, WorkerCopied, WorkerModify,
         WorkerSend, ReadyToSend, WorkerEndCycle, WorkerWake, WorkerGo, statics, vars, workerVars
<1> QED BY <1>1, <1>2 DEF TableInv, table, callerVars, pending, ControlOf, IndexOf, StoresOf,
                          SearchOf, IsNewTo, BeingStored, UniqueIds

(* Every step keeps the invariant.                                          *)
LEMMA TableStep ==
  ASSUME LoaderCallsInit, OneShaper PROVE TableInv /\ [Next]_vars => TableInv'
<1> SUFFICES ASSUME TableInv, [Next]_vars PROVE TableInv'
  OBVIOUS
<1>1. CASE CyclicalInitLowLevelThread
  BY <1>1, InitStep
<1>2. ASSUME NEW t \in Callers, CallerEntry(t) \/ CallerStep(t) PROVE TableInv'
  BY <1>2, LocalStep, StorageIdxStep, FieldStep
<1>3. CASE Worker \/ UNCHANGED vars
  BY <1>3, WorkerStep
<1> QED BY <1>1, <1>2, <1>3 DEF Next

(* What the invariant says of the index.                                    *)
LEMMA TableInvBounds == TableInv => IndexBound
BY DEF TableInv, IndexOf, IndexBound

(* With one thread that adds, storageIdx never leaves the table and no frame *)
(* is stored outside it, whatever order the stores become visible in         *)
(* (cyclical_send_task.cpp:147-158).                                         *)
THEOREM IndexAlwaysBound ==
  ASSUME LoaderCallsInit, OneShaper PROVE Spec => []IndexBound
BY TableInit, TableStep, TableInvBounds, PTL DEF Spec

(* Then no two slots ever carry the same identifier, in the middle of a call *)
(* or after it (the check at cyclical_send_task.cpp:140-143).                *)
THEOREM IdsAlwaysUnique ==
  ASSUME LoaderCallsInit, OneShaper PROVE Spec => []UniqueIds
<1>1. TableInv => UniqueIds
  BY DEF TableInv
<1> QED BY <1>1, TableInit, TableStep, PTL DEF Spec
=============================================================================
