--------------------------- MODULE CyclicSendTask ---------------------------
(***************************************************************************)
(* jni/cyclical_send_task.cpp with the native methods of jni/cansocket.cpp *)
(* and the methods of CanSocket.java that call it.  A table of frames in   *)
(* static memory is read by one worker thread, which sends every frame     *)
(* once per cycle, and written by the Java threads that call the library.  *)
(* No lock protects it: every load and store of shared memory that another *)
(* thread can observe in between is a step of its own.                     *)
(*                                                                         *)
(* The races are undefined behaviour, so the model leaves open what a      *)
(* build makes of them: AccessOrder says which accesses to a slot keep      *)
(* their order, FlagStoreKept whether `syncAdjust = 1' survives (an        *)
(* optimiser drops it as a dead store), and an index that a call reads     *)
(* again may come from memory or from the register that holds it already.  *)
(***************************************************************************)
EXTENDS Integers, FiniteSets

CONSTANTS
  Callers,                  \* Java threads that call the library
  Calls,                    \* the library functions each of them uses
  Frames,                   \* the CanFrames they hand over
  CycleTimes,               \* the cycle times they ask for, in ms
  Counters,                 \* the [canid, bytePos] they enable auto increment for
  MAX_CAN_FRAMES_TO_STORE,  \* slots of canStorage and of canAutoIncrement
  EffFlag,                  \* bit 31 of a raw CAN identifier (CAN_EFF_FLAG)
  ByteMod,                  \* values of a jbyte
  MaxErrors,                \* bound on the failed sends explored
  Junk,                     \* what an uninitialised word of the stack holds
  AccessOrder,              \* per function, <<a, b>>: a slot's a is accessed before its b
  FlagStoreKept,            \* the build keeps the store syncAdjust = 1
  LoaderCallsInit           \* class initialisation calls initCanLibrary

HARDCODED_100MS == 100000
TIME_BETWEEN_FRAMES == 1100
MaxMs == 2147483  \* a longer cycle does not fit a jint in us: overflow, undefined

Functions == {"add", "remove", "removeAll", "adopt", "enable"}
Slots == 0 .. MAX_CAN_FRAMES_TO_STORE - 1

(* CanFrameStorage.  `head' stands for fd, if_idx and len; `lo' and `hi'   *)
(* are the two machine words of data[8], each standing for the one byte of *)
(* it that matters; cycleTime is stored and never read, so it is left out. *)
Words == {"lo", "hi"}
Fields == {"head", "canid"} \cup Words
Word == 0 .. ByteMod - 1 \cup {Junk}
FrameHead == [fd : Nat, len : {0, 4, 8}]
StoredFrame == [head : FrameHead, canid : Nat, lo : Word, hi : Word]
ZeroHead == [fd |-> 0, len |-> 0]
ZeroFrame == [head |-> ZeroHead, canid |-> 0, lo |-> 0, hi |-> 0]

(* CanAutoincrement. *)
EntryFields == {"canid", "bytePos", "value"}
AutoIncrement == [canid : Nat, bytePos : Int, value : 0 .. ByteMod - 1]
ZeroCounter == [canid |-> 0, bytePos |-> 0, value |-> 0]

(* The word a counter's byte lies in, "none" when the position is refused. *)
WordOf(bytePos) ==
  IF bytePos \in 0 .. 3 THEN "lo" ELSE IF bytePos \in 4 .. 7 THEN "hi" ELSE "none"

ASSUME CallersAssumption ==
  /\ Callers # {}
  /\ Calls \in [Callers -> SUBSET Functions]
ASSUME FramesAssumption ==
  /\ ByteMod \in Nat \ {0}
  /\ Junk \notin Nat
  /\ Frames \subseteq StoredFrame
  /\ CycleTimes \subseteq -MaxMs .. MaxMs
  /\ Counters \subseteq [canid : Nat, bytePos : Int]
  /\ \A c, d \in Counters :  \* a word stands for one byte
       c.canid = d.canid /\ WordOf(c.bytePos) = WordOf(d.bytePos) => c = d
ASSUME StorageAssumption ==
  /\ MAX_CAN_FRAMES_TO_STORE \in Nat \ {0}
  /\ EffFlag \in Nat \ {0}
  /\ MaxErrors \in Nat
ASSUME BuildAssumption ==
  /\ AccessOrder \in [Functions \cup {"worker"} ->
                      SUBSET (Fields \X (Fields \cup {"storageIdx"}))]
  /\ FlagStoreKept \in BOOLEAN
  /\ LoaderCallsInit \in BOOLEAN

VARIABLES
  \* the statics of cyclical_send_task.cpp
  canStorage, storageIdx, canAutoIncrement, autoIncrementIdx, syncAdjust,
  theOneCycleTime, statsErrorCntrCyclicalSend, statsFramesSendPerCycle,
  \* the worker thread: where it is and its locals
  wpc,          \* "absent" until pthread_create
  wi,           \* i of worker()
  wj,           \* j of modifyAutocounters()
  frameToSend,
  toCopy,       \* fields of the memcpy into frameToSend still to be copied
  framesCnt,
  \* each Java thread: where it is in its call and the locals of the call
  pc,
  op,           \* the library function it is in
  arg,          \* f: the frame or its replacement, n: cycle time or byte position
  i,            \* loop index
  slot,         \* the index found or claimed
  toStore,      \* <<slot, field>> still to be written to canStorage
  toPublish,    \* which of the other stores of the call are still to be done
  result        \* what its last call returned

table == <<canStorage, storageIdx>>
autoIncrements == <<canAutoIncrement, autoIncrementIdx>>
stats == <<statsErrorCntrCyclicalSend, statsFramesSendPerCycle>>
statics == <<table, autoIncrements, syncAdjust, theOneCycleTime, stats>>
workerVars == <<wpc, wi, wj, frameToSend, toCopy, framesCnt>>
pending == <<toStore, toPublish>>
callerVars == <<pc, op, arg, i, slot, pending, result>>
vars == <<statics, workerVars, callerVars>>

\* A call that has not decided its answer yet.
Undecided == -2
NoArg == [f |-> ZeroFrame, n |-> 0]

(* A slot as a thread reads it; memory past the table is not the table's.  *)
At(s) == IF s \in Slots THEN canStorage[s] ELSE ZeroFrame
CounterAt(j) == IF j \in Slots THEN canAutoIncrement[j] ELSE ZeroCounter

(* canid & 0x7fffffff *)
Address(canid) == canid % EffFlag

(* The array of a CanFrame as the native wrapper copies it to buffer[8]:   *)
(* bytes past its length are whatever the stack holds.                     *)
Buffer(f) == [f EXCEPT !.lo = IF f.head.len >= 4 THEN @ ELSE Junk,
                       !.hi = IF f.head.len >= 8 THEN @ ELSE Junk]

Drives(counter, canid) ==
  counter.canid = Address(canid) /\ WordOf(counter.bytePos) \in Words

-----------------------------------------------------------------------------
(* Static initialisation: zeroed memory and indices of -1, no worker.      *)
Init ==
  /\ canStorage = [s \in Slots |-> ZeroFrame]
  /\ storageIdx = -1
  /\ canAutoIncrement = [j \in Slots |-> ZeroCounter]
  /\ autoIncrementIdx = -1
  /\ syncAdjust = 0
  /\ theOneCycleTime = HARDCODED_100MS
  /\ statsErrorCntrCyclicalSend = 0
  /\ statsFramesSendPerCycle = 0
  /\ wpc = "absent" /\ wi = 0 /\ wj = 0
  /\ frameToSend = ZeroFrame /\ toCopy = {}
  /\ framesCnt = 0
  /\ pc = [t \in Callers |-> "idle"]
  /\ op = [t \in Callers |-> "none"]
  /\ arg = [t \in Callers |-> NoArg]
  /\ i = [t \in Callers |-> 0]
  /\ slot = [t \in Callers |-> -1]
  /\ toStore = [t \in Callers |-> {}]
  /\ toPublish = [t \in Callers |-> {}]
  /\ result = [t \in Callers |-> 0]

(* initCanLibrary, called while the class is being initialised: the JVM    *)
(* keeps every other thread out of CanSocket until it has returned.        *)
CyclicalInitLowLevelThread ==
  /\ LoaderCallsInit
  /\ wpc = "absent"
  /\ canStorage' = [s \in Slots |-> ZeroFrame]
  /\ storageIdx' = 0
  /\ canAutoIncrement' = [j \in Slots |-> ZeroCounter]
  /\ autoIncrementIdx' = 0
  /\ wpc' = "check"
  /\ UNCHANGED <<syncAdjust, theOneCycleTime, stats, wi, wj, frameToSend, toCopy,
                 framesCnt, callerVars>>

-----------------------------------------------------------------------------
(* The calls of the Java threads.                                          *)

Go(t, from, to) == pc[t] = from /\ pc' = [pc EXCEPT ![t] = to]

(* Leaving the native function: its locals are gone, its answer stays.     *)
Return(t, from, answer) ==
  /\ Go(t, from, "idle")
  /\ op' = [op EXCEPT ![t] = "none"]
  /\ arg' = [arg EXCEPT ![t] = NoArg]
  /\ i' = [i EXCEPT ![t] = 0]
  /\ slot' = [slot EXCEPT ![t] = -1]
  /\ result' = [result EXCEPT ![t] = answer]
  /\ UNCHANGED pending

Call(t, function, a, to) ==
  /\ LoaderCallsInit => wpc # "absent"
  /\ function \in Calls[t]
  /\ Go(t, "idle", to)
  /\ op' = [op EXCEPT ![t] = function]
  /\ arg' = [arg EXCEPT ![t] = a]
  /\ result' = [result EXCEPT ![t] = Undecided]
  /\ UNCHANGED <<statics, workerVars, i, slot>>

NothingToStore == UNCHANGED pending

SendCyclicallyAdd(t) == \E f \in Frames, ms \in CycleTimes :
  Call(t, "add", [f |-> Buffer(f), n |-> ms], "cycle") /\ NothingToStore

SendCyclicallyRemove(t) == \E f \in Frames :
  /\ Call(t, "remove", [f |-> [ZeroFrame EXCEPT !.canid = f.canid], n |-> 0], "scan")
  /\ NothingToStore

SendCyclicallyAdopt(t) == \E f \in Frames :
  /\ Call(t, "adopt", [f |-> [Buffer(f) EXCEPT !.head = ZeroHead], n |-> 0], "scan")
  /\ NothingToStore

RemoveCyclicalAll(t) ==
  /\ Call(t, "removeAll", NoArg, "store")
  /\ toStore' = [toStore EXCEPT ![t] = Slots \X Fields]
  /\ toPublish' = [toPublish EXCEPT ![t] = {"storageIdx"}]

EnableCyclicallyAutoIncrement(t) == \E c \in Counters :
  /\ Call(t, "enable", [f |-> [ZeroFrame EXCEPT !.canid = c.canid], n |-> c.bytePos],
          "autoRoom")
  /\ NothingToStore

-----------------------------------------------------------------------------
(* cyclicalTaskAddCanFrame first adopts the cycle time, before it knows     *)
(* whether the frame fits.                                                  *)
KeepsCycleTime(t) ==
  ~ (theOneCycleTime = HARDCODED_100MS /\ arg[t].n * 1000 # HARDCODED_100MS)

TestCycleTime(t) ==
  /\ Go(t, "cycle", IF KeepsCycleTime(t) THEN "scan" ELSE "setCycle")
  /\ UNCHANGED <<statics, workerVars, op, arg, i, slot, pending, result>>

SetCycleTime(t) ==
  /\ Go(t, "setCycle", "scan")
  /\ theOneCycleTime' = arg[t].n * 1000
  /\ UNCHANGED <<table, autoIncrements, syncAdjust, stats, workerVars, op, arg, i,
                 slot, pending, result>>

(* As Scanning, one slot short.                                            *)
ScanningAllButLast(t) == pc[t] = "scan" /\ i[t] < storageIdx - 1

(* The loop over the slots in use that add, remove and adopt begin with.   *)
Scanning(t) == pc[t] = "scan" /\ i[t] < storageIdx
Hit(t) == Scanning(t) /\ At(i[t]).canid = arg[t].f.canid
Missed(t) == pc[t] = "scan" /\ ~ Scanning(t)

ScanNext(t) ==
  /\ Scanning(t)
  /\ ~ Hit(t)
  /\ i' = [i EXCEPT ![t] = @ + 1]
  /\ UNCHANGED <<statics, workerVars, pc, op, arg, slot, pending, result>>

(* CAN identifier is already existing *)
AddExists(t) ==
  /\ op[t] = "add" /\ Hit(t)
  /\ Return(t, "scan", 1)
  /\ UNCHANGED <<statics, workerVars>>

(* As AddIsNew, without the search for the identifier.                     *)
AddWithoutSearch(t) ==
  /\ op[t] = "add"
  /\ Go(t, "scan", "room")
  /\ UNCHANGED <<statics, workerVars, op, arg, i, slot, pending, result>>

AddIsNew(t) ==
  /\ op[t] = "add" /\ Missed(t)
  /\ Go(t, "scan", "room")
  /\ UNCHANGED <<statics, workerVars, op, arg, i, slot, pending, result>>

AddNoRoom(t) ==
  /\ storageIdx >= MAX_CAN_FRAMES_TO_STORE
  /\ Return(t, "room", 2)
  /\ UNCHANGED <<statics, workerVars>>

(* As AddHasRoom, with > in place of >= in the test for a full table.      *)
AddHasRoomPastTheEnd(t) ==
  /\ storageIdx <= MAX_CAN_FRAMES_TO_STORE
  /\ Go(t, "room", "claim")
  /\ slot' = [slot EXCEPT ![t] = storageIdx]
  /\ UNCHANGED <<statics, workerVars, op, arg, i, pending, result>>

AddHasRoom(t) ==
  /\ storageIdx < MAX_CAN_FRAMES_TO_STORE
  /\ Go(t, "room", "claim")
  /\ slot' = [slot EXCEPT ![t] = storageIdx]
  /\ UNCHANGED <<statics, workerVars, op, arg, i, pending, result>>

(* storageIdx is read again to address the slot.                           *)
AddClaim(t) == \E n \in {slot[t], storageIdx} :
  /\ Go(t, "claim", "store")
  /\ slot' = [slot EXCEPT ![t] = n]
  /\ toStore' = [toStore EXCEPT ![t] = ({n} \cap Slots) \X Fields]
  /\ toPublish' = [toPublish EXCEPT ![t] = {"storageIdx"}]
  /\ result' = [result EXCEPT ![t] = 0]
  /\ UNCHANGED <<statics, workerVars, op, arg, i>>

(* As RemoveFound, clearing the data and not the identifier.               *)
RemoveDataOnly(t) ==
  /\ op[t] = "remove" /\ Hit(t)
  /\ Go(t, "scan", "store")
  /\ arg' = [arg EXCEPT ![t] = NoArg]
  /\ slot' = [slot EXCEPT ![t] = i[t]]
  /\ toStore' = [toStore EXCEPT ![t] = ({i[t]} \cap Slots) \X Words]
  /\ result' = [result EXCEPT ![t] = 0]
  /\ UNCHANGED <<statics, workerVars, op, i, toPublish>>

RemoveFound(t) ==
  /\ op[t] = "remove" /\ Hit(t)
  /\ Go(t, "scan", "store")
  /\ arg' = [arg EXCEPT ![t] = NoArg]
  /\ slot' = [slot EXCEPT ![t] = i[t]]
  /\ toStore' = [toStore EXCEPT ![t] = ({i[t]} \cap Slots) \X Fields]
  /\ result' = [result EXCEPT ![t] = 0]
  /\ UNCHANGED <<statics, workerVars, op, i, toPublish>>

(* CAN identifier is not existing *)
NotFound(t) ==
  /\ op[t] \in {"remove", "adopt"} /\ Missed(t)
  /\ Return(t, "scan", 1)
  /\ UNCHANGED <<statics, workerVars>>

AdoptFound(t) ==
  /\ op[t] = "adopt" /\ Hit(t)
  /\ Go(t, "scan", "ignore")
  /\ slot' = [slot EXCEPT ![t] = i[t]]
  /\ i' = [i EXCEPT ![t] = 0]
  /\ UNCHANGED <<statics, workerVars, op, arg, pending, result>>

(* ignoreAutoIncrementPos: the library's counter replaces the caller's.    *)
IgnoreCounter(t) ==
  LET c == CounterAt(i[t]) IN
  /\ pc[t] = "ignore" /\ i[t] < autoIncrementIdx
  /\ i' = [i EXCEPT ![t] = @ + 1]
  /\ IF Drives(c, arg[t].f.canid)
     THEN arg' = [arg EXCEPT ![t].f[WordOf(c.bytePos)] = c.value]
     ELSE UNCHANGED arg
  /\ UNCHANGED <<statics, workerVars, pc, op, slot, pending, result>>

(* syncAdjust = 1, if the build has kept that store.                       *)
AdoptRaiseFlag(t) ==
  /\ i[t] >= autoIncrementIdx
  /\ Go(t, "ignore", "store")
  /\ syncAdjust' = IF FlagStoreKept THEN 1 ELSE syncAdjust
  /\ toStore' = [toStore EXCEPT ![t] = ({slot[t]} \cap Slots) \X Words]
  /\ result' = [result EXCEPT ![t] = 0]
  /\ UNCHANGED <<table, autoIncrements, theOneCycleTime, stats, workerVars, op,
                 arg, i, slot, toPublish>>

EnableNoRoom(t) ==
  /\ autoIncrementIdx >= MAX_CAN_FRAMES_TO_STORE
  /\ Return(t, "autoRoom", -1)
  /\ UNCHANGED <<statics, workerVars>>

EnableHasRoom(t) ==
  /\ autoIncrementIdx < MAX_CAN_FRAMES_TO_STORE
  /\ Go(t, "autoRoom", "store")
  /\ slot' = [slot EXCEPT ![t] = autoIncrementIdx]
  /\ toPublish' = [toPublish EXCEPT ![t] = EntryFields \cup {"autoIncrementIdx"}]
  /\ result' = [result EXCEPT ![t] = 0]
  /\ UNCHANGED <<statics, workerVars, op, arg, i, toStore>>

-----------------------------------------------------------------------------
(* As MayStore, with no store held back: the identifier may go first.      *)
MayStoreAlways(t, s, field) == TRUE

(* The stores of a call.  The language fixes no order for those of another  *)
(* thread to see: AccessOrder is what the build and the processor keep.     *)
MayStore(t, s, field) ==
  \A g \in Fields : <<s, g>> \in toStore[t] => <<g, field>> \notin AccessOrder[op[t]]

StoreField(t) == \E s \in Slots, field \in Fields :
  /\ pc[t] = "store"
  /\ <<s, field>> \in toStore[t]
  /\ MayStore(t, s, field)
  /\ canStorage' = [canStorage EXCEPT ![s][field] = arg[t].f[field]]
  /\ toStore' = [toStore EXCEPT ![t] = @ \ {<<s, field>>}]
  /\ UNCHANGED <<storageIdx, autoIncrements, syncAdjust, theOneCycleTime, stats,
                 workerVars, pc, op, arg, i, slot, toPublish, result>>

(* storageIdx++ after an add, storageIdx = 0 after a removeAll.            *)
StoreStorageIdx(t) ==
  /\ pc[t] = "store"
  /\ "storageIdx" \in toPublish[t]
  /\ \A s \in Slots : MayStore(t, s, "storageIdx")
  /\ IF op[t] = "add" THEN storageIdx' \in {slot[t] + 1, storageIdx + 1}
                      ELSE storageIdx' = 0
  /\ toPublish' = [toPublish EXCEPT ![t] = @ \ {"storageIdx"}]
  /\ UNCHANGED <<canStorage, autoIncrements, syncAdjust, theOneCycleTime, stats,
                 workerVars, pc, op, arg, i, slot, toStore, result>>

StoreAutoIncrement(t) == \E field \in EntryFields :
  /\ pc[t] = "store"
  /\ field \in toPublish[t]
  /\ canAutoIncrement' = [canAutoIncrement EXCEPT ![slot[t]][field] =
       [canid |-> arg[t].f.canid, bytePos |-> arg[t].n, value |-> 0][field]]
  /\ toPublish' = [toPublish EXCEPT ![t] = @ \ {field}]
  /\ UNCHANGED <<table, autoIncrementIdx, syncAdjust, theOneCycleTime, stats,
                 workerVars, pc, op, arg, i, slot, toStore, result>>

StoreAutoIncrementIdx(t) ==
  /\ pc[t] = "store"
  /\ "autoIncrementIdx" \in toPublish[t]
  /\ autoIncrementIdx' \in {slot[t] + 1, autoIncrementIdx + 1}
  /\ toPublish' = [toPublish EXCEPT ![t] = @ \ {"autoIncrementIdx"}]
  /\ UNCHANGED <<table, canAutoIncrement, syncAdjust, theOneCycleTime, stats,
                 workerVars, pc, op, arg, i, slot, toStore, result>>

(* All stores done; adopt lowers syncAdjust on its way out.                *)
StoresDone(t) ==
  /\ toStore[t] = {} /\ toPublish[t] = {}
  /\ Return(t, "store", IF op[t] = "removeAll" THEN 0 ELSE result[t])
  /\ syncAdjust' = IF op[t] = "adopt" THEN 0 ELSE syncAdjust
  /\ UNCHANGED <<table, autoIncrements, theOneCycleTime, stats, workerVars>>

-----------------------------------------------------------------------------
(* The worker thread.                                                      *)

WorkerGo(from, to) == wpc = from /\ wpc' = to

WorkerLook ==
  /\ WorkerGo("check", "slot")
  /\ wi < storageIdx
  /\ UNCHANGED <<statics, wi, wj, frameToSend, toCopy, framesCnt, callerVars>>

WorkerSkip ==
  /\ WorkerGo("slot", "check")
  /\ At(wi).canid = 0
  /\ wi' = wi + 1
  /\ UNCHANGED <<statics, wj, frameToSend, toCopy, framesCnt, callerVars>>

(* As WorkerSee, without the test for an empty slot.                       *)
WorkerSeeEmptySlots ==
  /\ WorkerGo("slot", "sync")
  /\ UNCHANGED <<statics, wi, wj, frameToSend, toCopy, framesCnt, callerVars>>

WorkerSee ==
  /\ WorkerGo("slot", "sync")
  /\ At(wi).canid # 0
  /\ UNCHANGED <<statics, wi, wj, frameToSend, toCopy, framesCnt, callerVars>>

(* while (syncAdjust == 1) usleep(10): it waits here as long as it reads 1. *)
WorkerSync ==
  /\ WorkerGo("sync", "copy")
  /\ syncAdjust # 1
  /\ toCopy' = Fields
  /\ UNCHANGED <<statics, wi, wj, frameToSend, framesCnt, callerVars>>

WorkerCopyField == \E field \in toCopy :
  /\ wpc = "copy"
  /\ \A g \in toCopy : <<g, field>> \notin AccessOrder["worker"]
  /\ frameToSend' = [frameToSend EXCEPT ![field] = At(wi)[field]]
  /\ toCopy' = toCopy \ {field}
  /\ UNCHANGED <<statics, wpc, wi, wj, framesCnt, callerVars>>

WorkerCopied ==
  /\ WorkerGo("copy", "modify")
  /\ toCopy = {}
  /\ UNCHANGED <<statics, wi, wj, frameToSend, toCopy, framesCnt, callerVars>>

(* As WorkerModify, without the wrap-around of a jbyte.                    *)
WorkerModifyUnbounded ==
  LET c == CounterAt(wj) IN
  /\ wpc = "modify" /\ wj < autoIncrementIdx
  /\ wj' = wj + 1
  /\ IF wj \in Slots /\ Drives(c, frameToSend.canid)
     THEN /\ canAutoIncrement' = [canAutoIncrement EXCEPT ![wj].value = c.value + 1]
          /\ frameToSend' = [frameToSend EXCEPT ![WordOf(c.bytePos)] = c.value + 1]
     ELSE UNCHANGED <<canAutoIncrement, frameToSend>>
  /\ UNCHANGED <<table, autoIncrementIdx, syncAdjust, theOneCycleTime, stats, wpc,
                 wi, toCopy, framesCnt, callerVars>>

(* As WorkerModify, incrementing the frame's byte and not the counter.     *)
WorkerModifyForgets ==
  LET c == CounterAt(wj) IN
  /\ wpc = "modify" /\ wj < autoIncrementIdx
  /\ wj' = wj + 1
  /\ IF wj \in Slots /\ Drives(c, frameToSend.canid)
     THEN frameToSend' = [frameToSend EXCEPT ![WordOf(c.bytePos)] = (c.value + 1) % ByteMod]
     ELSE UNCHANGED frameToSend
  /\ UNCHANGED <<table, autoIncrements, syncAdjust, theOneCycleTime, stats, wpc,
                 wi, toCopy, framesCnt, callerVars>>

(* One turn of the loop of modifyAutocounters.                             *)
WorkerModify ==
  LET c == CounterAt(wj)
      next == (c.value + 1) % ByteMod IN
  /\ wpc = "modify" /\ wj < autoIncrementIdx
  /\ wj' = wj + 1
  /\ IF wj \in Slots /\ Drives(c, frameToSend.canid)
     THEN /\ canAutoIncrement' = [canAutoIncrement EXCEPT ![wj].value = next]
          /\ frameToSend' = [frameToSend EXCEPT ![WordOf(c.bytePos)] = next]
     ELSE UNCHANGED <<canAutoIncrement, frameToSend>>
  /\ UNCHANGED <<table, autoIncrementIdx, syncAdjust, theOneCycleTime, stats, wpc,
                 wi, toCopy, framesCnt, callerVars>>

ReadyToSend == wpc = "modify" /\ wj >= autoIncrementIdx

(* sendFrame, then the end of the loop body: a failed send is counted as an *)
(* error and as a frame of the cycle alike.                                 *)
WorkerSend == \E failed \in {0, 1} :
  /\ ReadyToSend
  /\ wpc' = "check"
  /\ statsErrorCntrCyclicalSend + failed <= MaxErrors
  /\ statsErrorCntrCyclicalSend' = statsErrorCntrCyclicalSend + failed
  /\ framesCnt' = framesCnt + 1
  /\ wi' = wi + 1
  /\ frameToSend' = ZeroFrame /\ wj' = 0  \* dead until the next memcpy
  /\ UNCHANGED <<table, autoIncrements, syncAdjust, theOneCycleTime,
                 statsFramesSendPerCycle, toCopy, callerVars>>

(* The rest of the cycle, in us, is what the worker sleeps; it starts over  *)
(* at once when the frames already took longer than a cycle.                *)
Rest(cnt) == theOneCycleTime - cnt * TIME_BETWEEN_FRAMES

(* As WorkerEndCycle, without the framesCnt = 0 of the next cycle.         *)
WorkerEndCycleKeepsCount ==
  /\ WorkerGo("check", IF Rest(framesCnt) <= 0 THEN "check" ELSE "sleep")
  /\ wi >= storageIdx
  /\ statsFramesSendPerCycle' = framesCnt
  /\ wi' = 0
  /\ UNCHANGED <<table, autoIncrements, syncAdjust, theOneCycleTime, framesCnt,
                 statsErrorCntrCyclicalSend, wj, frameToSend, toCopy, callerVars>>

(* As WorkerEndCycle, without the i = 0 of the next cycle.                 *)
WorkerEndCycleForGood ==
  /\ WorkerGo("check", IF Rest(framesCnt) <= 0 THEN "check" ELSE "sleep")
  /\ wi >= storageIdx
  /\ statsFramesSendPerCycle' = framesCnt
  /\ framesCnt' = 0
  /\ UNCHANGED <<table, autoIncrements, syncAdjust, theOneCycleTime, wi,
                 statsErrorCntrCyclicalSend, wj, frameToSend, toCopy, callerVars>>

WorkerEndCycle ==
  /\ WorkerGo("check", IF Rest(framesCnt) <= 0 THEN "check" ELSE "sleep")
  /\ wi >= storageIdx
  /\ statsFramesSendPerCycle' = framesCnt
  /\ wi' = 0 /\ framesCnt' = 0
  /\ UNCHANGED <<table, autoIncrements, syncAdjust, theOneCycleTime,
                 statsErrorCntrCyclicalSend, wj, frameToSend, toCopy, callerVars>>

WorkerWake ==
  /\ WorkerGo("sleep", "check")
  /\ UNCHANGED <<statics, wi, wj, frameToSend, toCopy, framesCnt, callerVars>>

-----------------------------------------------------------------------------
CallerEntry(t) ==
  \/ SendCyclicallyAdd(t) \/ SendCyclicallyRemove(t) \/ SendCyclicallyAdopt(t)
  \/ RemoveCyclicalAll(t) \/ EnableCyclicallyAutoIncrement(t)

CallerStep(t) ==
  \/ TestCycleTime(t) \/ SetCycleTime(t) \/ ScanNext(t)
  \/ AddExists(t) \/ AddIsNew(t) \/ AddNoRoom(t) \/ AddHasRoom(t) \/ AddClaim(t)
  \/ RemoveFound(t) \/ NotFound(t)
  \/ AdoptFound(t) \/ IgnoreCounter(t) \/ AdoptRaiseFlag(t)
  \/ EnableNoRoom(t) \/ EnableHasRoom(t)
  \/ StoreField(t) \/ StoreStorageIdx(t)
  \/ StoreAutoIncrement(t) \/ StoreAutoIncrementIdx(t)
  \/ StoresDone(t)

Worker ==
  \/ WorkerLook \/ WorkerSkip \/ WorkerSee \/ WorkerSync \/ WorkerCopyField \/ WorkerCopied
  \/ WorkerModify \/ WorkerSend \/ WorkerEndCycle \/ WorkerWake

Next ==
  \/ CyclicalInitLowLevelThread
  \/ \E t \in Callers : CallerEntry(t) \/ CallerStep(t)
  \/ Worker

Spec == Init /\ [][Next]_vars

(* Every thread is scheduled; nobody is forced to call the library.  A      *)
(* worker that sleeps 10 us while syncAdjust is 1 is only owed a step when  *)
(* the flag stays down, which is what weak fairness says.                   *)
FairSpec == Spec /\ WF_vars(Worker) /\ \A t \in Callers : WF_vars(CallerStep(t))

-----------------------------------------------------------------------------
TypeOK ==
  /\ canStorage \in [Slots -> StoredFrame]
  /\ storageIdx \in Int /\ autoIncrementIdx \in Int
  /\ canAutoIncrement \in [Slots -> AutoIncrement]
  /\ syncAdjust \in {0, 1}
  /\ theOneCycleTime \in Int
  /\ statsErrorCntrCyclicalSend \in Nat /\ statsFramesSendPerCycle \in Nat
  /\ wpc \in {"absent", "check", "slot", "sync", "copy", "modify", "sleep"}
  /\ wi \in Nat /\ wj \in Nat /\ framesCnt \in Nat
  /\ frameToSend \in StoredFrame /\ toCopy \in SUBSET Fields
  /\ pc \in [Callers -> {"idle", "cycle", "setCycle", "scan", "room", "claim",
                         "ignore", "autoRoom", "store"}]
  /\ op \in [Callers -> Functions \cup {"none"}]
  /\ arg \in [Callers -> [f : StoredFrame, n : Int]]
  /\ i \in [Callers -> Nat]
  /\ slot \in [Callers -> Int]
  /\ toStore \in [Callers -> SUBSET (Slots \X Fields)]
  /\ toPublish \in [Callers ->
       SUBSET ({"storageIdx", "autoIncrementIdx"} \cup EntryFields)]
  /\ result \in [Callers -> {Undecided, -1, 0, 1, 2}]

(* What the table holds once the calls under way have done their stores.    *)
SettledField(s, field) ==
  LET writers == {t \in Callers : <<s, field>> \in toStore[t]} IN
  IF writers = {} THEN canStorage[s][field]
                  ELSE arg[CHOOSE t \in writers : TRUE].f[field]
Settled(s) == [field \in Fields |-> SettledField(s, field)]
SettledIdx ==
  LET writers == {t \in Callers : "storageIdx" \in toPublish[t]}
      t == CHOOSE t \in writers : TRUE IN
  IF writers = {} THEN storageIdx ELSE IF op[t] = "add" THEN slot[t] + 1 ELSE 0
FramesInTable ==
  {Settled(s) : s \in {s \in Slots : s < SettledIdx /\ Settled(s).canid # 0}}

(* The frames data may turn the added ones into.                            *)
WithData(f, lo, hi) == [f EXCEPT !.lo = lo, !.hi = hi]
StorableFrames == {WithData(f, lo, hi) : f \in Frames, lo \in Word, hi \in Word}

FramesAdded == IF SettledIdx > 0 THEN SettledIdx ELSE 0

Table == INSTANCE FrameTable WITH
  Frame <- StorableFrames, Capacity <- MAX_CAN_FRAMES_TO_STORE,
  frames <- FramesInTable, added <- FramesAdded

(* At most one thread at a time adds frames or empties the table.           *)
OneShaper == \A t, u \in Callers :
  Calls[t] \cap {"add", "removeAll"} # {} /\ Calls[u] \cap {"add", "removeAll"} # {} => t = u

(* Only one thread changes the table at all; others may enable counters.    *)
OneWriter == \E w \in Callers : \A t \in Callers : t # w => Calls[t] \subseteq {"enable"}

(* storageIdx never points past the table, so that no frame is stored or    *)
(* sent from memory behind canStorage (cyclical_send_task.cpp:147-158).     *)
IndexBound ==
  /\ storageIdx \in -1 .. MAX_CAN_FRAMES_TO_STORE
  /\ \A t \in Callers : pc[t] = "store" /\ op[t] = "add" => slot[t] \in Slots

(* No two slots carry the same identifier, at any moment of any call:       *)
(* remove and adopt would only find the first, the bus would see both       *)
(* (the check at cyclical_send_task.cpp:140-143).                           *)
UniqueIds == \A s, r \in Slots :
  s # r /\ canStorage[s].canid # 0 => canStorage[s].canid # canStorage[r].canid

(* Calls of one thread change the table as atomic calls would, whatever     *)
(* the order of their stores (cyclical_send_task.cpp:133-195).              *)
ImplementsTable == Table!Spec

(* The answer a call returns is true of the table at the moment it is       *)
(* decided, and a call that reports success has done what it was asked for  *)
(* (the return values of cyclical_send_task.cpp:133-195); the identifier 0  *)
(* is not one of them: it stands for a free slot.                           *)
IdsInTable == {f.canid : f \in FramesInTable}
AnswerIsTrue(t) ==
  LET f == arg[t].f IN
  CASE op[t] = "add" ->
         /\ result'[t] = 1 <=> f.canid \in IdsInTable
         /\ result'[t] = 2 => SettledIdx = MAX_CAN_FRAMES_TO_STORE
         /\ result'[t] = 0 => f \in FramesInTable'
    [] op[t] = "remove" ->
         /\ result'[t] = 0 <=> f.canid \in IdsInTable
         /\ f.canid \notin IdsInTable'
    [] op[t] = "adopt" ->
         /\ result'[t] = 0 <=> f.canid \in IdsInTable
         /\ result'[t] = 0 => \E g \in FramesInTable' :
              g.canid = f.canid /\ g.lo = f.lo /\ g.hi = f.hi
    [] op[t] = "removeAll" -> FramesInTable' = {}
    [] OTHER -> TRUE
AnswersTruthful ==
  [][\A t \in Callers :
       /\ result[t] = Undecided /\ result'[t] # Undecided
       /\ arg[t].f.canid # 0 \/ op[t] = "removeAll"
       => AnswerIsTrue(t)]_vars

(* A frame that the worker sends is one that a caller handed over, apart    *)
(* from the bytes its counters drive, never half of one and half of         *)
(* another: what the "thread synchronisation" by syncAdjust is for          *)
(* (cyclical_send_task.cpp:61, 188-190, 206-210).                           *)
SentIs(f) == \A field \in Fields :
  \/ frameToSend[field] = Buffer(f)[field]
  \/ \E c \in Counters : Drives(c, frameToSend.canid) /\ WordOf(c.bytePos) = field
SentFramesAreWhole == ReadyToSend => \E f \in Frames : SentIs(f)

(* A cycle time longer than a full table takes leaves the worker time to    *)
(* sleep: it does not spin (cyclical_send_task.cpp:217-224).  90 frames     *)
(* take 99 ms, the default cycle is 100 ms.                                 *)
WorkerSleeps ==
  theOneCycleTime > MAX_CAN_FRAMES_TO_STORE * TIME_BETWEEN_FRAMES => Rest(framesCnt) > 0

(* Once there is a frame to send the cycle time stays as it is: "only the   *)
(* first given cycle time is used" (cyclical_send_task.cpp:136).            *)
FirstCycleTimeStays ==
  [][(\E s \in Slots : s < storageIdx /\ canStorage[s].canid # 0)
       => theOneCycleTime' = theOneCycleTime]_vars

(* A frame stays in the rota: as long as it is in the table its turn comes  *)
(* again, unless adopts keep finding the worker's poll with the flag up     *)
(* (cyclical_send_task.cpp:204-214).                                        *)
Holds(canid) == \E s \in Slots : s < storageIdx /\ canStorage[s].canid = canid
AboutToSend(canid) == ReadyToSend /\ frameToSend.canid = canid
FramesKeepFlowing == \A f \in Frames : f.canid # 0 =>
  \/ Holds(f.canid) ~> ~ Holds(f.canid) \/ AboutToSend(f.canid)
  \/ []<>(syncAdjust = 1)
=============================================================================
