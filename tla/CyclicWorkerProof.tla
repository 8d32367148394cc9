-------------------------- MODULE CyclicWorkerProof --------------------------
(***************************************************************************)
(* What the worker makes of the table, for every table size.  It never sends *)
(* more frames in one cycle than the table has slots, whatever the callers *)
(* do to storageIdx meanwhile, so that a full table leaves it time to sleep. *)
(* And next to one caller, without counters, a frame that is neither whole *)
(* nor a mixture of data for one identifier was met by a store into its    *)
(* slot, in every order of stores that keeps the identifier for last.      *)
(***************************************************************************)
EXTENDS CyclicTableProof, CyclicSendHistory

(* wi counts the slots the worker has passed in this cycle, framesCnt those *)
(* of them it has sent.                                                     *)
CycleInv ==
  /\ wi \in 0 .. MAX_CAN_FRAMES_TO_STORE
  /\ framesCnt \in 0 .. wi
  /\ wpc \in {"slot", "sync", "copy", "modify"} => wi < MAX_CAN_FRAMES_TO_STORE

(* A cycle begins with nothing passed.                                      *)
LEMMA CycleInit == Init => CycleInv
<1>1. MAX_CAN_FRAMES_TO_STORE \in Nat
  BY StorageAssumption DEF StorageAssumption
<1> QED BY <1>1 DEF Init, CycleInv

(* Every slot passed lies below a storageIdx that is in bounds.             *)
LEMMA CycleStep == TypeOK /\ IndexBound /\ CycleInv /\ [Next]_vars => CycleInv'
<1> SUFFICES ASSUME TypeOK, IndexBound, CycleInv, [Next]_vars PROVE CycleInv'
  OBVIOUS
<1>1. MAX_CAN_FRAMES_TO_STORE \in Nat /\ storageIdx \in Int /\ storageIdx <= MAX_CAN_FRAMES_TO_STORE
  BY StorageAssumption DEF StorageAssumption, IndexBound
<1> USE <1>1 DEF CycleInv, WorkerGo
<1>2. CASE CyclicalInitLowLevelThread
  BY <1>2 DEF CyclicalInitLowLevelThread
<1>3. ASSUME NEW t \in Callers, CallerEntry(t) \/ CallerStep(t) PROVE CycleInv'
  <2>1. UNCHANGED <<wi, framesCnt, wpc>>
    BY <1>3, CallersLeaveWorker DEF workerVars
  <2> QED BY <2>1
<1>4. CASE WorkerLook \/ WorkerSkip
  BY <1>4 DEF WorkerLook, WorkerSkip
<1>5. CASE WorkerSee \/ WorkerSync
  BY <1>5 DEF WorkerSee, WorkerSync
<1>6. CASE WorkerCopyField \/ WorkerCopied \/ WorkerWake
  BY <1>6 DEF WorkerCopyField, WorkerCopied, WorkerWake
<1>7. CASE WorkerModify
  <2>1. UNCHANGED <<wi, framesCnt, wpc>>
    BY <1>7, Zenon DEF WorkerModify
  <2> QED BY <2>1
<1>8. CASE WorkerSend
  BY <1>8 DEF WorkerSend, ReadyToSend
<1>9. CASE WorkerEndCycle
  BY <1>9 DEF WorkerEndCycle
<1>10. CASE UNCHANGED vars
  BY <1>10 DEF vars, workerVars
<1> QED BY <1>2, <1>3, <1>4, <1>5, <1>6, <1>7, <1>8, <1>9, <1>10 DEF Next, Worker

(* So the frames of one cycle never take more time than a full table does.  *)
LEMMA CycleSleeps == TypeOK /\ CycleInv => WorkerSleeps
<1> SUFFICES ASSUME TypeOK, CycleInv,
                    theOneCycleTime > MAX_CAN_FRAMES_TO_STORE * TIME_BETWEEN_FRAMES
             PROVE  Rest(framesCnt) > 0
  BY DEF WorkerSleeps
<1>1. /\ MAX_CAN_FRAMES_TO_STORE \in Nat /\ framesCnt \in Nat /\ theOneCycleTime \in Int
      /\ framesCnt <= MAX_CAN_FRAMES_TO_STORE
  BY StorageAssumption DEF StorageAssumption, CycleInv, TypeOK
<1> QED BY <1>1 DEF Rest, TIME_BETWEEN_FRAMES

(* With one thread that adds, a cycle time longer than a full table takes   *)
(* always leaves the worker time to sleep (cyclical_send_task.cpp:217-224). *)
THEOREM WorkerAlwaysSleeps ==
  ASSUME LoaderCallsInit, OneShaper PROVE Spec => []WorkerSleeps
<1>1. TableInv => TypeOK /\ IndexBound
  BY TableInvBounds DEF TableInv
<1> QED BY <1>1, TableInit, TableStep, CycleInit, CycleStep, CycleSleeps, PTL DEF Spec

-----------------------------------------------------------------------------
(* The build for which the frames sent are whole: the comment "should be    *)
(* the last" holds of it.                                                   *)
CanidStoredLast == ({"head"} \cup Words) \X {"canid"} \subseteq AccessOrder["add"]

(* A frame with the head of one that a caller handed over, and data that    *)
(* callers gave to its identifier: word by word, or all of it at once.      *)
HasHead(r) == \E f \in Frames : r.canid = f.canid /\ r.head = f.head
IsWord(v, word, canid) == \E f \in Frames : f.canid = canid /\ v = Buffer(f)[word]
IsData(r) == \E f \in Frames : f.canid = r.canid /\ \A word \in Words : r[word] = Buffer(f)[word]
Mixed(r) == HasHead(r) /\ \A word \in Words : IsWord(r[word], word, r.canid)
Whole(r) == HasHead(r) /\ IsData(r)

(* Nobody but w calls, and no counter is ever enabled.                      *)
QuietInv(w) ==
  /\ autoIncrementIdx <= 0
  /\ \A t \in Callers : toPublish[t] \subseteq {"storageIdx"} /\ op[t] # "enable"
  /\ \A t \in Callers : t # w => op[t] = "none"

(* What w is about to store.                                                *)
HandedOver(w) ==
  /\ op[w] = "add" => Whole(arg[w].f)
  /\ op[w] = "adopt" => IsData(arg[w].f)

(* A slot has no identifier until all the rest of it is in place, and data  *)
(* of its identifier in every word while an adopt is replacing them.        *)
FillOf(w) ==
  /\ pc[w] = "store" /\ op[w] = "add" =>
       IF <<slot[w], "canid">> \in toStore[w] THEN canStorage[slot[w]].canid = 0
                                              ELSE toStore[w] = {}
  /\ pc[w] = "store" /\ op[w] = "adopt" =>
       \A s \in Slots :
         /\ canStorage[s].canid # 0 => Mixed(canStorage[s])
         /\ (\E field \in Fields : <<s, field>> \in toStore[w])
              => canStorage[s].canid = arg[w].f.canid

(* With its stores done the table holds whole frames.                       *)
RowsInv(w) == \A s \in Slots : Row(w, s).canid # 0 => Whole(Row(w, s))

(* What the worker has copied so far is what its slot holds.                *)
Copied == Fields \ toCopy
HandInv ==
  /\ wpc = "sync" => Overwriting \cap Clears \subseteq overwritten
  /\ wpc = "copy" => Overwriting \cap (Clears \cup {"adopt"}) \subseteq overwritten
  /\ wpc \in {"sync", "copy"} /\ overwritten \cap Clears = {} => At(wi).canid # 0
  /\ wpc = "copy" /\ overwritten \cap Clears = {} =>
       /\ \A field \in Copied \ Words : frameToSend[field] = At(wi)[field]
       /\ \A word \in Copied \cap Words : IsWord(frameToSend[word], word, At(wi).canid)
       /\ overwritten = {} => \A field \in Copied : frameToSend[field] = At(wi)[field]
  /\ wpc = "modify" /\ overwritten \cap Clears = {} =>
       /\ Mixed(frameToSend)
       /\ overwritten = {} => Whole(frameToSend)

TornInv(w) ==
  /\ WriterInv(w) /\ QuietInv(w)
  /\ HandedOver(w) /\ FillOf(w) /\ RowsInv(w)
  /\ HandInv

-----------------------------------------------------------------------------
(* Facts about the data.                                                    *)

(* The buffer of the wrapper keeps the frame's head and identifier.         *)
LEMMA BufferKeeps == ASSUME NEW f \in Frames
  PROVE  Buffer(f).canid = f.canid /\ Buffer(f).head = f.head
<1>1. f \in StoredFrame
  BY BufferType
<1> QED BY <1>1 DEF Buffer, StoredFrame

(* What is whole is not torn.                                               *)
LEMMA WholeIsMixed == ASSUME NEW r, Whole(r) PROVE Mixed(r)
BY DEF Whole, Mixed, IsData, IsWord

(* Two records that agree in their fields are the same to all of this.      *)
LEMMA SameIsWhole ==
  ASSUME NEW r \in StoredFrame, NEW q \in StoredFrame, \A field \in Fields : r[field] = q[field]
  PROVE  r = q
BY DEF StoredFrame, Fields, Words

-----------------------------------------------------------------------------
(* The one caller.                                                          *)

(* Nothing is under way when the program starts.                            *)
LEMMA TornInit == ASSUME NEW w \in Callers, HInit PROVE TornInv(w)
<1>1. WriterInv(w)
  BY WriterInit DEF HInit
<1>2. QuietInv(w) /\ HandedOver(w) /\ FillOf(w) /\ HandInv
  BY DEF HInit, Init, QuietInv, HandedOver, FillOf, HandInv
<1>3. \A s \in Slots : Row(w, s) = canStorage[s] /\ canStorage[s].canid = 0
  <2>1. pc[w] # "store" /\ \A s \in Slots : canStorage[s].canid = 0
    BY DEF HInit, Init, ZeroFrame
  <2> QED BY <1>1, <2>1, NothingPending
<1> QED BY <1>1, <1>2, <1>3 DEF TornInv, RowsInv

(* Threads that may only enable counters, where there are none, do nothing. *)
LEMMA OnlyWriterSteps ==
  ASSUME Counters = {}, NEW w \in Callers, Lone(w), WriterInv(w), QuietInv(w),
         NEW t \in Callers, CallerEntry(t) \/ CallerStep(t)
  PROVE  t = w /\ ~ EnableCyclicallyAutoIncrement(t)
<1>1. ~ EnableCyclicallyAutoIncrement(t)
  BY DEF EnableCyclicallyAutoIncrement
<1>2. ASSUME t # w PROVE FALSE
  <2>1. Calls[t] \subseteq {"enable"} /\ op[t] = "none"
    BY <1>2 DEF Lone, QuietInv
  <2>2. ~ CallerEntry(t)
    BY <1>1, <2>1 DEF CallerEntry, SendCyclicallyAdd, SendCyclicallyRemove, SendCyclicallyAdopt,
                      RemoveCyclicalAll, Call
  <2>3. pc[t] = "idle"
    BY <2>1 DEF WriterInv, TableInv, ControlOf
  <2>4. pc[t] # "idle"
    BY <2>2 , <2>3 DEF CallerStep, TestCycleTime, SetCycleTime, ScanNext, Scanning, Hit, Missed,
       AddExists, AddIsNew, AddNoRoom, AddHasRoom, AddClaim, RemoveFound, NotFound, AdoptFound,
       IgnoreCounter, AdoptRaiseFlag, EnableNoRoom, EnableHasRoom, StoreField, StoreStorageIdx,
       StoreAutoIncrement, StoreAutoIncrementIdx, StoresDone, Return, Go
  <2> QED BY <2>3, <2>4
<1> QED BY <1>1, <1>2

(* Of the steps of w the ones about counters are never taken.               *)
WriterSteps(w) ==
  \/ SendCyclicallyAdd(w) \/ SendCyclicallyRemove(w) \/ SendCyclicallyAdopt(w)
  \/ RemoveCyclicalAll(w)
  \/ TestCycleTime(w) \/ SetCycleTime(w) \/ ScanNext(w)
  \/ AddExists(w) \/ AddIsNew(w) \/ AddNoRoom(w) \/ AddHasRoom(w) \/ AddClaim(w)
  \/ RemoveFound(w) \/ NotFound(w) \/ AdoptFound(w) \/ AdoptRaiseFlag(w)
  \/ StoreField(w) \/ StoreStorageIdx(w) \/ StoresDone(w)

(* For no counter is in place or being enabled.                             *)
LEMMA StepsOfWriter ==
  ASSUME Counters = {}, NEW w \in Callers, Lone(w), WriterInv(w), QuietInv(w),
         CallerEntry(w) \/ CallerStep(w)
  PROVE  WriterSteps(w)
<1>1. ~ EnableCyclicallyAutoIncrement(w)
  BY OnlyWriterSteps
<1>2. ~ IgnoreCounter(w)
  <2>1. i[w] \in Nat /\ autoIncrementIdx \in Int /\ autoIncrementIdx <= 0
    BY DEF WriterInv, TableInv, TypeOK, QuietInv
  <2>2. IgnoreCounter(w) => i[w] < autoIncrementIdx
    BY Zenon DEF IgnoreCounter
  <2> QED BY <2>1, <2>2
<1>3. pc[w] # "autoRoom"
  <2>1. op[w] # "enable" /\ ControlOf(w)
    BY DEF WriterInv, TableInv, QuietInv
  <2> QED BY <2>1 DEF ControlOf
<1>4. ~ EnableNoRoom(w) /\ ~ EnableHasRoom(w)
  BY <1>3 DEF EnableNoRoom, EnableHasRoom, Return, Go
<1>5. ~ StoreAutoIncrement(w) /\ ~ StoreAutoIncrementIdx(w)
  BY DEF StoreAutoIncrement, StoreAutoIncrementIdx, EntryFields, QuietInv
<1> QED BY <1>1, <1>2, <1>4, <1>5 DEF CallerEntry, CallerStep, WriterSteps

(* So it stays quiet.                                                       *)
LEMMA QuietStep ==
  ASSUME NEW w \in Callers, WriterInv(w), QuietInv(w), WriterSteps(w)
  PROVE  QuietInv(w)'
<1>1. \A u \in Callers : u # w => LocalsStay(u)
  BY OthersStay DEF WriterInv, TableInv, WriterSteps, CallerEntry, CallerStep
<1>2. UNCHANGED autoIncrementIdx
  BY DEF WriterSteps, SendCyclicallyAdd, SendCyclicallyRemove, SendCyclicallyAdopt,
     RemoveCyclicalAll, Call, TestCycleTime, SetCycleTime, ScanNext, AddExists, AddIsNew,
     AddNoRoom, AddHasRoom, AddClaim, RemoveFound, NotFound, AdoptFound, AdoptRaiseFlag,
     StoreField, StoreStorageIdx, StoresDone, statics, autoIncrements
<1>3. op'[w] # "enable" /\ toPublish'[w] \subseteq {"storageIdx"}
  <2> USE DEF WriterInv, TableInv, TypeOK, QuietInv, Call, NothingToStore, pending, Return, Go
  <2>1. CASE SendCyclicallyAdd(w) \/ SendCyclicallyRemove(w) \/ SendCyclicallyAdopt(w)
             \/ RemoveCyclicalAll(w)
    BY <2>1 DEF SendCyclicallyAdd, SendCyclicallyRemove, SendCyclicallyAdopt, RemoveCyclicalAll
  <2>2. CASE TestCycleTime(w) \/ SetCycleTime(w) \/ ScanNext(w) \/ AddExists(w) \/ AddIsNew(w)
             \/ AddNoRoom(w) \/ AddHasRoom(w) \/ AddClaim(w)
    BY <2>2 DEF TestCycleTime, SetCycleTime, ScanNext, AddExists, AddIsNew, AddNoRoom, AddHasRoom,
       AddClaim
  <2>3. CASE RemoveFound(w) \/ NotFound(w) \/ AdoptFound(w) \/ AdoptRaiseFlag(w)
    BY <2>3 DEF RemoveFound, NotFound, AdoptFound, AdoptRaiseFlag
  <2>4. CASE StoreField(w)
    BY <2>4 DEF StoreField
  <2>5. CASE StoreStorageIdx(w)
    BY <2>5 DEF StoreStorageIdx
  <2>6. CASE StoresDone(w)
    BY <2>6 DEF StoresDone
  <2> QED BY <2>1, <2>2, <2>3, <2>4, <2>5, <2>6 DEF WriterSteps
<1> QED BY <1>1, <1>2, <1>3 DEF QuietInv, LocalsStay

(* What w hands over are frames.                                            *)
LEMMA HandedStep ==
  ASSUME NEW w \in Callers, WriterInv(w), HandedOver(w), WriterSteps(w)
  PROVE  HandedOver(w)'
<1> USE DEF WriterInv, TableInv, TypeOK, Go, Return, Call
<1>1. CASE SendCyclicallyAdd(w)
  <2>1. PICK f \in Frames : op'[w] = "add" /\ arg'[w].f = Buffer(f)
    BY <1>1 DEF SendCyclicallyAdd
  <2>2. Whole(Buffer(f))
    BY BufferKeeps DEF Whole, HasHead, IsData
  <2> QED BY <2>1, <2>2 DEF HandedOver, Whole, HasHead, IsData
<1>2. CASE SendCyclicallyAdopt(w)
  <2>1. PICK f \in Frames :
          op'[w] = "adopt" /\ arg'[w].f = [Buffer(f) EXCEPT !.head = ZeroHead]
    BY <1>2 DEF SendCyclicallyAdopt
  <2>2. Buffer(f) \in StoredFrame
    BY BufferType
  <2>3. /\ arg'[w].f.canid = f.canid
        /\ \A word \in Words : arg'[w].f[word] = Buffer(f)[word]
    BY <2>1, <2>2, BufferKeeps DEF StoredFrame, Words
  <2> QED BY <2>1, <2>3 DEF HandedOver, IsData
<1>3. CASE SendCyclicallyRemove(w) \/ RemoveCyclicalAll(w)
  BY <1>3 DEF SendCyclicallyRemove, RemoveCyclicalAll, HandedOver
<1>4. CASE AddExists(w) \/ AddNoRoom(w) \/ NotFound(w) \/ StoresDone(w)
  <2>1. op'[w] = "none"
    BY <1>4 DEF AddExists, AddNoRoom, NotFound, StoresDone
  <2> QED BY <2>1 DEF HandedOver
<1>5. CASE RemoveFound(w)
  BY <1>5 DEF RemoveFound, HandedOver
<1>6. CASE TestCycleTime(w) \/ SetCycleTime(w) \/ ScanNext(w) \/ AddIsNew(w) \/ AddHasRoom(w)
           \/ AddClaim(w) \/ AdoptFound(w) \/ AdoptRaiseFlag(w) \/ StoreField(w)
           \/ StoreStorageIdx(w)
  <2>1. UNCHANGED <<op, arg>>
    BY <1>6 DEF TestCycleTime, SetCycleTime, ScanNext, AddIsNew, AddHasRoom, AddClaim, AdoptFound,
       AdoptRaiseFlag, StoreField, StoreStorageIdx
  <2> QED BY <2>1 DEF HandedOver, Whole, HasHead, IsData
<1> QED BY <1>1, <1>2, <1>3, <1>4, <1>5, <1>6 DEF WriterSteps

-----------------------------------------------------------------------------
(* The table.                                                               *)

(* A slot that w has nothing to store into is as it will be.                *)
LEMMA SettledSlot ==
  ASSUME NEW w \in Callers, WriterInv(w), NEW s \in Slots,
         \A field \in Fields : <<s, field>> \notin toStore[w]
  PROVE  Row(w, s) = canStorage[s]
<1>1. canStorage[s] \in StoredFrame
  BY DEF WriterInv, TableInv, TypeOK
<1>2. Row(w, s) = [field \in Fields |-> canStorage[s][field]]
  BY DEF Row, After
<1> QED BY <1>1, <1>2, FieldsMakeFrame

(* What a slot in use holds: a whole frame, or a mixture while an adopt is  *)
(* storing into it; a remove or a removeAll leaves it open.                 *)
LEMMA SlotIsFrame ==
  ASSUME NEW w \in Callers, TornInv(w), NEW s \in Slots, canStorage[s].canid # 0,
         op[w] \in Clears => \A field \in Fields : <<s, field>> \notin toStore[w]
  PROVE  /\ Mixed(canStorage[s])
         /\ \/ Whole(canStorage[s])
            \/ op[w] = "adopt" /\ \E field \in Fields : <<s, field>> \in toStore[w]
<1>1. CASE \A field \in Fields : <<s, field>> \notin toStore[w]
  <2>1. Row(w, s) = canStorage[s]
    BY <1>1, SettledSlot DEF TornInv
  <2>2. Whole(canStorage[s])
    BY <2>1 DEF TornInv, RowsInv
  <2> QED BY <2>2, WholeIsMixed
<1>2. CASE \E field \in Fields : <<s, field>> \in toStore[w]
  <2>1. PICK field \in Fields : <<s, field>> \in toStore[w]
    BY <1>2
  <2>2. ControlOf(w) /\ StoresOf(w) /\ op[w] # "enable"
    BY DEF TornInv, WriterInv, TableInv, QuietInv
  <2>3. pc[w] = "store" /\ op[w] \notin Clears
    BY <2>1, <2>2 DEF ControlOf
  <2>4. op[w] \in {"add", "adopt"}
    <3>1. op[w] \in Functions \cup {"none"} /\ op[w] # "none"
      BY <2>2, <2>3 DEF TornInv, WriterInv, TableInv, TypeOK, ControlOf
    <3> QED BY <2>2, <2>3, <3>1 DEF Functions, Clears
  <2>5. op[w] # "add"
    <3>1. op[w] = "add" => s = slot[w]
      BY <2>1, <2>2, <2>3 DEF StoresOf
    <3>2. op[w] = "add" => toStore[w] = {}
      BY <2>3, <3>1 DEF TornInv, FillOf
    <3> QED BY <2>1, <3>2
  <2>6. Mixed(canStorage[s])
    BY <2>3, <2>4, <2>5 DEF TornInv, FillOf
  <2> QED BY <1>2, <2>4, <2>5, <2>6
<1> QED BY <1>1, <1>2

(* The frames the table will hold stay whole.                               *)
LEMMA RowsStep ==
  ASSUME NEW w \in Callers, TornInv(w), WriterSteps(w)
  PROVE  RowsInv(w)'
<1> USE DEF TornInv
<1>1. TypeOK /\ ControlOf(w)
  BY DEF WriterInv, TableInv
<1>2. CASE Silent(w)
  <2>1. \A s \in Slots : Row(w, s)' = Row(w, s)
    BY <1>2 DEF Silent, Row
  <2> QED BY <2>1 DEF RowsInv, Whole, HasHead, IsData
<1>3. CASE RemoveCyclicalAll(w)
  <2>1. /\ toStore'[w] = Slots \X Fields /\ arg'[w] = NoArg
    BY <1>1, <1>3 DEF RemoveCyclicalAll, Call, TypeOK
  <2>2. \A s \in Slots : Row(w, s)'.canid = 0
    BY <2>1 DEF Row, After, NoArg, ZeroFrame, Fields
  <2> QED BY <2>2 DEF RowsInv
<1>4. CASE AddClaim(w)
  <2>1. PICK new \in Slots, f \in StoredFrame : new = slot[w] /\ f = arg[w].f
    BY <1>1, <1>4 DEF AddClaim, Go, WriterInv, TableInv, IndexOf, TypeOK
  <2>2. pc[w] = "claim" /\ op[w] = "add" /\ new = storageIdx
    BY <1>1, <1>4, <2>1 DEF AddClaim, Go, WriterInv, TableInv, IndexOf, ControlOf
  <2>3. toStore'[w] = {new} \X Fields /\ UNCHANGED <<canStorage, arg>>
    BY <1>1, <1>4, <2>1, <2>2 DEF AddClaim, TypeOK, statics, table
  <2>4. Row(w, new)' = f
    <3>1. Row(w, new)' = [field \in Fields |-> f[field]]
      BY <2>1, <2>3 DEF Row, After
    <3> QED BY <3>1, FieldsMakeFrame
  <2>5. ASSUME NEW s \in Slots, s # new PROVE Row(w, s)' = Row(w, s)
    BY <2>2, <2>3, <2>5, NothingPending DEF Row, After
  <2>6. Whole(f)
    BY <2>1, <2>2 DEF HandedOver
  <2> QED BY <2>4, <2>5, <2>6 DEF RowsInv, Whole, HasHead, IsData
<1>5. CASE RemoveFound(w)
  <2>1. PICK s0 \in Slots : s0 = i[w]
    BY <1>5, HitFinds DEF RemoveFound, FoundAt, WriterInv
  <2>2. pc[w] = "scan" /\ toStore'[w] = {s0} \X Fields /\ arg'[w] = NoArg /\ UNCHANGED canStorage
    BY <1>1, <1>5, <2>1 DEF RemoveFound, Go, TypeOK, statics, table
  <2>3. Row(w, s0)'.canid = 0
    BY <2>2 DEF Row, After, NoArg, ZeroFrame, Fields
  <2>4. ASSUME NEW s \in Slots, s # s0 PROVE Row(w, s)' = Row(w, s)
    BY <2>2, <2>4, NothingPending DEF Row, After
  <2> QED BY <2>3, <2>4 DEF RowsInv, Whole, HasHead, IsData
<1>6. CASE AdoptRaiseFlag(w)
  <2>1. PICK s0 \in Slots : s0 = slot[w]
    BY <1>6 DEF AdoptRaiseFlag, Go, WriterInv, WriterOf
  <2>2. /\ pc[w] = "ignore" /\ op[w] = "adopt" /\ canStorage[s0].canid = arg[w].f.canid
        /\ toStore'[w] = {s0} \X Words /\ UNCHANGED <<canStorage, arg>>
    BY <1>1, <1>6, <2>1 DEF AdoptRaiseFlag, Go, TypeOK, table, WriterInv, WriterOf, ControlOf
  <2>3. Row(w, s0)' = [field \in Fields |->
          IF field \in Words THEN arg[w].f[field] ELSE canStorage[s0][field]]
    BY <2>2 DEF Row, After
  <2>4. /\ Row(w, s0)'.head = canStorage[s0].head /\ Row(w, s0)'.canid = canStorage[s0].canid
        /\ \A word \in Words : Row(w, s0)'[word] = arg[w].f[word]
    BY <2>3 DEF Fields, Words
  <2>5. Row(w, s0) = canStorage[s0]
    BY <2>2, NothingPending
  <2>6. Row(w, s0)'.canid # 0 => Whole(Row(w, s0))'
    <3> SUFFICES ASSUME Row(w, s0)'.canid # 0 PROVE Whole(Row(w, s0))'
      OBVIOUS
    <3>1. HasHead(canStorage[s0])
      BY <2>4, <2>5 DEF RowsInv, Whole
    <3>2. HasHead(Row(w, s0))'
      BY <2>4, <3>1 DEF HasHead
    <3>3. PICK f \in Frames : f.canid = arg[w].f.canid /\ \A word \in Words : arg[w].f[word] = Buffer(f)[word]
      BY <2>2 DEF HandedOver, IsData
    <3>4. IsData(Row(w, s0))'
      BY <2>2, <2>4, <3>3 DEF IsData
    <3> QED BY <3>2, <3>4 DEF Whole
  <2>7. ASSUME NEW s \in Slots, s # s0 PROVE Row(w, s)' = Row(w, s)
    BY <2>2, <2>7, NothingPending DEF Row, After
  <2> QED BY <2>6, <2>7 DEF RowsInv, Whole, HasHead, IsData
<1>7. ~ Decides(w) => Silent(w)
  <2>1. CASE StoreField(w) \/ StoreStorageIdx(w)
    BY <2>1, StoringIsSilent DEF WriterInv
  <2>2. CASE ~ StoreField(w) /\ ~ StoreStorageIdx(w)
    BY <1>1, <2>2, WriterIsSilent DEF WriterSteps, CallerEntry, CallerStep
  <2> QED BY <2>1, <2>2
<1> QED BY <1>2, <1>3, <1>4, <1>5, <1>6, <1>7 DEF Decides

(* What w has already stored of its call keeps to the order.                *)
LEMMA FillStep ==
  ASSUME CanidStoredLast, NEW w \in Callers, TornInv(w), WriterSteps(w)
  PROVE  FillOf(w)'
<1> USE DEF TornInv
<1>1. TypeOK /\ ControlOf(w) /\ StoresOf(w) /\ IndexOf(w)
  BY DEF WriterInv, TableInv
<1>2. CASE AddClaim(w)
  <2>1. pc[w] = "claim" /\ op[w] = "add" /\ slot[w] = storageIdx /\ slot[w] \in Slots
    BY <1>1, <1>2 DEF AddClaim, Go, IndexOf, ControlOf
  <2>2. /\ toStore'[w] = {slot[w]} \X Fields
        /\ UNCHANGED <<canStorage, op>> /\ slot'[w] = slot[w]
    BY <1>1, <1>2, <2>1 DEF AddClaim, TypeOK, statics, table
  <2>3. ~ BeingStored(slot[w])
    BY <2>1 DEF BeingStored, QuietInv
  <2>4. canStorage[slot[w]].canid = 0
    BY <1>1, <2>1, <2>3 DEF WriterInv, TableInv
  <2> QED BY <2>1, <2>2, <2>4 DEF FillOf, Fields
<1>3. CASE AdoptRaiseFlag(w)
  <2>1. pc[w] = "ignore" /\ UNCHANGED <<canStorage, op, arg>> /\ op[w] = "adopt"
    BY <1>1, <1>3 DEF AdoptRaiseFlag, Go, ControlOf, table
  <2>2. \A s \in Slots : canStorage[s].canid # 0 => Mixed(canStorage[s])
    BY <2>1, NothingPending, WholeIsMixed DEF RowsInv
  <2>3. /\ canStorage[slot[w]].canid = arg[w].f.canid
        /\ toStore'[w] \subseteq {slot[w]} \X Words
    BY <1>1, <1>3, <2>1 DEF WriterInv, WriterOf, AdoptRaiseFlag, TypeOK
  <2>4. \A s \in Slots : (\E field \in Fields : <<s, field>> \in toStore'[w]) => s = slot[w]
    BY <2>3
  <2> QED BY <2>1, <2>2, <2>3, <2>4 DEF FillOf, Mixed, HasHead, IsWord
<1>4. CASE StoreField(w)
  <2>1. PICK s0 \in Slots, f0 \in Fields :
          /\ <<s0, f0>> \in toStore[w] /\ MayStore(w, s0, f0)
          /\ canStorage' = [canStorage EXCEPT ![s0][f0] = arg[w].f[f0]]
          /\ toStore' = [toStore EXCEPT ![w] = @ \ {<<s0, f0>>}]
    BY <1>4 DEF StoreField
  <2>2. /\ canStorage \in [Slots -> StoredFrame] /\ arg[w].f \in StoredFrame
        /\ toStore \in [Callers -> SUBSET (Slots \X Fields)]
    BY <1>1 DEF TypeOK
  <2>3. /\ \A s \in Slots : s # s0 => canStorage'[s] = canStorage[s]
        /\ canStorage'[s0][f0] = arg[w].f[f0]
        /\ \A g \in Fields : g # f0 => canStorage'[s0][g] = canStorage[s0][g]
    BY <2>1, <2>2 DEF StoredFrame, Fields, Words
  <2>4. toStore'[w] = toStore[w] \ {<<s0, f0>>} /\ pc[w] = "store"
        /\ UNCHANGED <<pc, op, arg, slot>>
    BY <1>4, <2>1, <2>2 DEF StoreField
  <2>5. CASE op[w] = "add"
    <3>1. s0 = slot[w] /\ toStore[w] \subseteq {s0} \X Fields
      BY <1>1, <2>1, <2>4, <2>5 DEF StoresOf
    <3>2. <<s0, "canid">> \in toStore[w] /\ canStorage[s0].canid = 0
      BY <2>1, <2>4, <2>5, <3>1 DEF FillOf
    <3>3. CASE f0 = "canid"
      <4>1. ASSUME NEW g \in Fields, <<s0, g>> \in toStore[w] PROVE g = "canid"
        <5>1. <<g, "canid">> \notin AccessOrder["add"]
          BY <2>1, <2>5, <3>3, <4>1 DEF MayStore
        <5> QED BY <5>1 DEF CanidStoredLast, Fields
      <4>2. toStore'[w] = {}
        <5>1. ASSUME NEW x \in toStore[w] PROVE x = <<s0, "canid">>
          <6>1. x = <<s0, x[2]>> /\ x[2] \in Fields
            BY <3>1
          <6> QED BY <4>1, <6>1
        <5> QED BY <2>4, <3>3, <5>1
      <4> QED BY <2>4, <2>5, <3>1, <4>2 DEF FillOf
    <3>4. CASE f0 # "canid"
      <4>1. <<s0, "canid">> \in toStore'[w] /\ canStorage'[s0].canid = 0
        BY <2>3, <2>4, <3>2, <3>4 DEF Fields
      <4> QED BY <2>4, <2>5, <3>1, <4>1 DEF FillOf
    <3> QED BY <3>3, <3>4
  <2>6. CASE op[w] = "adopt"
    <3>1. f0 \in Words
      BY <1>1, <2>1, <2>4, <2>6 DEF StoresOf
    <3>2. canStorage'[s0].canid = canStorage[s0].canid /\ canStorage'[s0].head = canStorage[s0].head
      BY <2>3, <3>1 DEF Fields, Words
    <3>3. canStorage[s0].canid = arg[w].f.canid
      BY <2>1, <2>4, <2>6 DEF FillOf
    <3>4. ASSUME canStorage[s0].canid # 0 PROVE Mixed(canStorage[s0])'
      <4>1. Mixed(canStorage[s0])
        BY <2>4, <2>6, <3>4 DEF FillOf
      <4>2. ASSUME NEW word \in Words PROVE IsWord(canStorage'[s0][word], word, canStorage[s0].canid)
        <5>1. CASE word = f0
          BY <2>3, <2>6, <3>3, <5>1 DEF HandedOver, IsData, IsWord
        <5>2. CASE word # f0
          BY <2>3, <4>1, <5>2 DEF Mixed, Fields
        <5> QED BY <5>1, <5>2
      <4> QED BY <3>2, <4>1, <4>2 DEF Mixed, HasHead, IsWord
    <3>5. ASSUME NEW s \in Slots PROVE (canStorage[s].canid # 0 => Mixed(canStorage[s]))'
      <4>1. CASE s = s0
        BY <3>2, <3>4, <4>1
      <4>2. CASE s # s0
        BY <2>3, <2>4, <2>6, <4>2 DEF FillOf, Mixed, HasHead, IsWord
      <4> QED BY <4>1, <4>2
    <3>6. ASSUME NEW s \in Slots, NEW field \in Fields, <<s, field>> \in toStore'[w]
          PROVE  canStorage'[s].canid = arg[w].f.canid
      <4>1. canStorage[s].canid = arg[w].f.canid
        BY <2>4, <2>6, <3>6 DEF FillOf
      <4> QED BY <2>3, <3>2, <4>1
    <3> QED BY <2>4, <2>6, <3>5, <3>6 DEF FillOf
  <2> QED BY <2>4, <2>5, <2>6 DEF FillOf
<1>5. CASE ~ AddClaim(w) /\ ~ AdoptRaiseFlag(w) /\ ~ StoreField(w)
  <2> USE DEF Call, Return, Go, TypeOK, table
  <2>1. CASE SendCyclicallyAdd(w) \/ SendCyclicallyRemove(w) \/ SendCyclicallyAdopt(w)
             \/ RemoveCyclicalAll(w) \/ RemoveFound(w)
    <3>1. pc'[w] # "store" \/ op'[w] \notin {"add", "adopt"}
      BY <1>1, <2>1 DEF SendCyclicallyAdd, SendCyclicallyRemove, SendCyclicallyAdopt,
         RemoveCyclicalAll, RemoveFound
    <3> QED BY <3>1 DEF FillOf
  <2>2. CASE TestCycleTime(w) \/ SetCycleTime(w) \/ AddExists(w) \/ AddIsNew(w) \/ AddNoRoom(w)
             \/ AddHasRoom(w) \/ NotFound(w) \/ AdoptFound(w) \/ StoresDone(w)
    <3>1. pc'[w] # "store"
      BY <1>1, <2>2 DEF TestCycleTime, SetCycleTime, AddExists, AddIsNew, AddNoRoom, AddHasRoom,
         NotFound, AdoptFound, StoresDone
    <3> QED BY <3>1 DEF FillOf
  <2>3. CASE ScanNext(w) \/ StoreStorageIdx(w)
    <3>1. UNCHANGED <<canStorage, pc, op, arg, slot, toStore>>
      BY <2>3 DEF ScanNext, StoreStorageIdx, statics, pending
    <3> QED BY <3>1 DEF FillOf, Mixed, HasHead, IsWord
  <2> QED BY <1>5, <2>1, <2>2, <2>3 DEF WriterSteps
<1> QED BY <1>2, <1>3, <1>4, <1>5

-----------------------------------------------------------------------------
(* The worker.                                                              *)

(* The stores the worker meets are recorded at every step, and the record   *)
(* is kept as long as it is needed.                                         *)
Recorded ==
  /\ wpc = "sync" => Overwriting \cap Clears \subseteq overwritten
  /\ wpc = "copy" => Overwriting \cap (Clears \cup {"adopt"}) \subseteq overwritten

(* For a step changes it as UpdateOverwritten says.                         *)
LEMMA RecordStep ==
  ASSUME UpdateOverwritten
  PROVE  /\ Recorded'
         /\ wpc' \in {"sync", "copy", "modify"} => overwritten \subseteq overwritten'
BY DEF UpdateOverwritten, Recorded

(* While a slot is in the worker's hands and nothing that clears it has     *)
(* been met, w is not storing its identifier.                               *)
LEMMA SlotInHand ==
  ASSUME NEW w \in Callers, TornInv(w), wpc \in {"sync", "copy"}, overwritten \cap Clears = {}
  PROVE  /\ wi \in Slots /\ At(wi) = canStorage[wi] /\ At(wi).canid # 0
         /\ op[w] \in Clears => \A field \in Fields : <<wi, field>> \notin toStore[w]
         /\ wpc = "copy" /\ overwritten = {} /\ op[w] = "adopt" =>
              \A field \in Fields : <<wi, field>> \notin toStore[w]
<1>1. At(wi).canid # 0
  BY DEF TornInv, HandInv
<1>2. wi \in Slots
  BY <1>1 DEF At, ZeroFrame
<1>3. ASSUME NEW field \in Fields, <<wi, field>> \in toStore[w] PROVE op[w] \in Overwriting
  BY <1>3 DEF Overwriting
<1> QED BY <1>1, <1>2, <1>3 DEF At, TornInv, HandInv, Clears

(* A step of w leaves the worker's hands alone; if it stores into the slot  *)
(* in them, that is on record.                                              *)
LEMMA WriterHand ==
  ASSUME NEW w \in Callers, TornInv(w), WriterSteps(w), UpdateOverwritten
  PROVE  HandInv'
<1>1. UNCHANGED workerVars
  BY CallersLeaveWorker DEF WriterSteps, CallerEntry, CallerStep
<1>2. /\ Recorded'
      /\ wpc \in {"sync", "copy", "modify"} => overwritten \subseteq overwritten'
  BY <1>1, RecordStep DEF workerVars
<1>3. CASE wpc \notin {"sync", "copy"}
  BY <1>1, <1>2, <1>3 DEF workerVars, Recorded, TornInv, HandInv, Mixed, Whole, HasHead, IsWord, IsData
<1>4. CASE wpc \in {"sync", "copy"} /\ overwritten' \cap Clears # {}
  BY <1>1, <1>2, <1>4 DEF workerVars, Recorded, HandInv
<1>5. CASE wpc \in {"sync", "copy"} /\ overwritten' \cap Clears = {}
  <2>1. overwritten \cap Clears = {} /\ (overwritten' = {} => overwritten = {})
    BY <1>2, <1>5
  <2>2. /\ wi \in Slots /\ At(wi) = canStorage[wi] /\ At(wi).canid # 0
        /\ op[w] \in Clears => \A field \in Fields : <<wi, field>> \notin toStore[w]
        /\ wpc = "copy" /\ overwritten = {} /\ op[w] = "adopt" =>
             \A field \in Fields : <<wi, field>> \notin toStore[w]
    BY <1>5, <2>1, SlotInHand
  <2>3. At(wi)' = canStorage'[wi]
    BY <1>1, <2>2 DEF At, workerVars
  <2>4. \/ canStorage'[wi] = canStorage[wi]
        \/ /\ op[w] = "adopt" /\ ~ (wpc = "copy" /\ overwritten = {})
           /\ \A field \in Fields \ Words : canStorage'[wi][field] = canStorage[wi][field]
    <3>1. CASE StoreField(w)
      <4>1. PICK s0 \in Slots, f0 \in Fields :
              /\ <<s0, f0>> \in toStore[w]
              /\ canStorage' = [canStorage EXCEPT ![s0][f0] = arg[w].f[f0]]
        BY <3>1 DEF StoreField
      <4>2. canStorage \in [Slots -> StoredFrame]
        BY DEF TornInv, WriterInv, TableInv, TypeOK
      <4>3. CASE s0 # wi
        BY <2>2, <4>1, <4>2, <4>3
      <4>4. CASE s0 = wi
        <5>1. \/ Whole(canStorage[wi])
              \/ op[w] = "adopt"
          BY <2>2, SlotIsFrame
        <5>2. pc[w] = "store" /\ op[w] \in Functions \cup {"none"} /\ ControlOf(w) /\ StoresOf(w)
              /\ op[w] # "enable"
          BY <3>1 DEF StoreField, TornInv, WriterInv, TableInv, TypeOK, QuietInv
        <5>3. op[w] \notin Clears
          BY <2>2, <4>1, <4>4
        <5>4. op[w] # "add"
          <6>1. op[w] = "add" => wi = slot[w]
            BY <4>1, <4>4, <5>2 DEF StoresOf
          <6>2. op[w] = "add" => toStore[w] = {}
            BY <2>2, <5>2, <6>1 DEF TornInv, FillOf
          <6> QED BY <4>1, <6>2
        <5>5. op[w] = "adopt" /\ f0 \in Words
          <6>1. op[w] = "adopt"
            BY <5>2, <5>3, <5>4 DEF ControlOf, Functions, Clears
          <6> QED BY <4>1, <5>2, <6>1 DEF StoresOf
        <5>6. \A field \in Fields \ Words : canStorage'[wi][field] = canStorage[wi][field]
          BY <2>2, <4>1, <4>2, <4>4, <5>5 DEF StoredFrame, Fields, Words
        <5> QED BY <2>2, <4>1, <4>4, <5>5, <5>6
      <4> QED BY <4>3, <4>4
    <3>2. CASE ~ StoreField(w)
      <4>1. UNCHANGED canStorage
        BY <3>2 DEF WriterSteps, SendCyclicallyAdd, SendCyclicallyRemove, SendCyclicallyAdopt,
           RemoveCyclicalAll, Call, TestCycleTime, SetCycleTime, ScanNext, AddExists, AddIsNew,
           AddNoRoom, AddHasRoom, AddClaim, RemoveFound, NotFound, AdoptFound, AdoptRaiseFlag,
           StoreStorageIdx, StoresDone, statics, table
      <4> QED BY <4>1
    <3> QED BY <3>1, <3>2
  <2>5. /\ At(wi)'.canid = At(wi).canid
        /\ \A field \in Fields \ Words : At(wi)'[field] = At(wi)[field]
        /\ wpc = "copy" /\ overwritten = {} => At(wi)' = At(wi)
    BY <2>2, <2>3, <2>4 DEF Fields, Words
  <2>6. wpc = "copy" =>
          /\ \A field \in Copied \ Words : frameToSend[field] = At(wi)[field]
          /\ \A word \in Copied \cap Words : IsWord(frameToSend[word], word, At(wi).canid)
          /\ overwritten = {} => \A field \in Copied : frameToSend[field] = At(wi)[field]
    BY <2>1 DEF TornInv, HandInv
  <2>7. Copied' = Copied /\ Copied \subseteq Fields
    BY <1>1 DEF workerVars, Copied
  <2>8. (At(wi).canid # 0)'
    BY <2>2, <2>5
  <2>9. wpc = "copy" =>
          /\ \A field \in Copied' \ Words : frameToSend'[field] = At(wi)'[field]
          /\ \A word \in Copied' \cap Words : IsWord(frameToSend[word], word, At(wi).canid)'
          /\ overwritten' = {} => \A field \in Copied' : frameToSend'[field] = At(wi)'[field]
    BY <1>1, <2>1, <2>5, <2>6, <2>7 DEF workerVars, IsWord
  <2> QED BY <1>1, <1>2, <1>5, <2>8, <2>9 DEF workerVars, Recorded, HandInv
<1> QED BY <1>3, <1>4, <1>5

(* A step of the worker takes nothing into its hands but what the slot      *)
(* holds.                                                                   *)
LEMMA WorkerHand ==
  ASSUME NEW w \in Callers, TornInv(w), Worker, UpdateOverwritten
  PROVE  HandInv'
<1>1. UNCHANGED <<table, callerVars>>
  BY DEF Worker, WorkerLook, WorkerSkip, WorkerSee, WorkerSync, WorkerCopyField, WorkerCopied,
         WorkerModify, WorkerSend, WorkerEndCycle, WorkerWake, statics
<1>2. /\ Recorded'
      /\ wpc' \in {"sync", "copy", "modify"} => overwritten \subseteq overwritten'
  BY RecordStep
<1>3. ~ WorkerModify
  <2>1. wj \in Nat /\ autoIncrementIdx \in Int /\ autoIncrementIdx <= 0
    BY DEF TornInv, WriterInv, TableInv, TypeOK, QuietInv
  <2>2. WorkerModify => wj < autoIncrementIdx
    BY Zenon DEF WorkerModify
  <2> QED BY <2>1, <2>2
<1>4. CASE WorkerLook \/ WorkerSkip \/ WorkerSend \/ WorkerEndCycle \/ WorkerWake
  <2>1. wpc' \notin {"sync", "copy", "modify"}
    BY <1>4 DEF WorkerLook, WorkerSkip, WorkerSend, WorkerEndCycle, WorkerWake, WorkerGo
  <2> QED BY <2>1 DEF HandInv
<1>5. CASE WorkerSee
  <2>1. wpc' = "sync" /\ wi' = wi /\ At(wi).canid # 0
    BY <1>5 DEF WorkerSee, WorkerGo
  <2>2. (At(wi).canid # 0)'
    BY <1>1, <2>1 DEF At, table
  <2> QED BY <1>2, <2>1, <2>2 DEF HandInv, Recorded
<1>6. CASE WorkerSync
  <2>1. wpc = "sync" /\ wpc' = "copy" /\ wi' = wi /\ toCopy' = Fields
    BY <1>6 DEF WorkerSync, WorkerGo
  <2>2. Copied' = {}
    BY <2>1 DEF Copied
  <2>3. overwritten' \cap Clears = {} => (At(wi).canid # 0)'
    <3>1. overwritten' \cap Clears = {} => overwritten \cap Clears = {}
      BY <1>2, <2>1
    <3> QED BY <1>1, <2>1, <3>1 DEF TornInv, HandInv, At, table
  <2> QED BY <1>2, <2>1, <2>2, <2>3 DEF HandInv, Recorded
<1>7. CASE WorkerCopyField
  <2>1. PICK f0 \in toCopy : /\ wpc = "copy" /\ wpc' = "copy" /\ wi' = wi
                             /\ frameToSend' = [frameToSend EXCEPT ![f0] = At(wi)[f0]]
                             /\ toCopy' = toCopy \ {f0}
    BY <1>7 DEF WorkerCopyField
  <2>2. frameToSend \in StoredFrame /\ toCopy \in SUBSET Fields
    BY DEF TornInv, WriterInv, TableInv, TypeOK
  <2>3. /\ Copied' = Copied \cup {f0} /\ frameToSend'[f0] = At(wi)[f0]
        /\ \A g \in Fields \ {f0} : frameToSend'[g] = frameToSend[g]
    BY <2>1, <2>2 DEF Copied, StoredFrame, Fields, Words
  <2>4. At(wi)' = At(wi)
    BY <1>1, <2>1 DEF At, table
  <2>5. CASE overwritten' \cap Clears # {}
    BY <1>2, <2>1, <2>5 DEF HandInv, Recorded
  <2>6. CASE overwritten' \cap Clears = {}
    <3>1. overwritten \cap Clears = {} /\ (overwritten' = {} => overwritten = {})
      BY <1>2, <2>1, <2>6
    <3>2. /\ wi \in Slots /\ At(wi) = canStorage[wi] /\ At(wi).canid # 0
          /\ Mixed(At(wi))
      BY <2>1, <3>1, SlotInHand, SlotIsFrame
    <3>3. /\ \A field \in Copied \ Words : frameToSend[field] = At(wi)[field]
          /\ \A word \in Copied \cap Words : IsWord(frameToSend[word], word, At(wi).canid)
          /\ overwritten = {} => \A field \in Copied : frameToSend[field] = At(wi)[field]
      BY <2>1, <3>1 DEF TornInv, HandInv
    <3>4. Copied \subseteq Fields
      BY DEF Copied
    <3>5. ASSUME NEW field \in Copied' \ Words PROVE frameToSend'[field] = At(wi)'[field]
      BY <2>3, <2>4, <3>3, <3>4
    <3>6. ASSUME NEW word \in Copied' \cap Words PROVE IsWord(frameToSend[word], word, At(wi).canid)'
      <4>1. CASE word = f0
        BY <2>3, <2>4, <3>2, <4>1 DEF Mixed, IsWord
      <4>2. CASE word # f0
        BY <2>3, <2>4, <3>3, <3>4, <4>2 DEF IsWord
      <4> QED BY <4>1, <4>2
    <3>7. ASSUME overwritten' = {}, NEW field \in Copied' PROVE frameToSend'[field] = At(wi)'[field]
      BY <2>3, <2>4, <3>1, <3>3, <3>4, <3>7
    <3>8. (At(wi).canid # 0)'
      BY <2>4, <3>2
    <3> QED BY <1>2, <2>1, <3>5, <3>6, <3>7, <3>8 DEF HandInv, Recorded
  <2> QED BY <2>5, <2>6
<1>8. CASE WorkerCopied
  <2>1. /\ wpc = "copy" /\ wpc' = "modify" /\ toCopy = {}
        /\ frameToSend' = frameToSend
    BY <1>8 DEF WorkerCopied, WorkerGo
  <2>2. overwritten \subseteq overwritten'
    BY <1>2, <2>1
  <2>3. ASSUME overwritten \cap Clears = {}
        PROVE  Mixed(frameToSend) /\ (overwritten = {} => Whole(frameToSend))
    <3>1. Copied = Fields
      BY <2>1 DEF Copied
    <3>2. /\ \A field \in Fields \ Words : frameToSend[field] = At(wi)[field]
          /\ \A word \in Words : IsWord(frameToSend[word], word, At(wi).canid)
          /\ overwritten = {} => \A field \in Fields : frameToSend[field] = At(wi)[field]
      BY <2>1, <2>3, <3>1 DEF TornInv, HandInv, Fields
    <3>3. wi \in Slots /\ At(wi) = canStorage[wi] /\ At(wi).canid # 0 /\ Mixed(At(wi))
      BY <2>1, <2>3, SlotInHand, SlotIsFrame
    <3>4. frameToSend.canid = At(wi).canid /\ frameToSend.head = At(wi).head
      BY <3>2 DEF Fields, Words
    <3>5. Mixed(frameToSend)
      BY <3>2, <3>3, <3>4 DEF Mixed, HasHead
    <3>6. overwritten = {} => Whole(frameToSend)
      <4>1. overwritten = {} => Whole(At(wi))
        BY <2>1, <2>3, <3>3, SlotInHand, SlotIsFrame
      <4> QED BY <3>2, <3>4, <4>1 DEF Whole, HasHead, IsData, Fields
    <3> QED BY <3>5, <3>6
  <2> QED BY <2>1, <2>2, <2>3 DEF HandInv, Mixed, Whole, HasHead, IsWord, IsData
<1> QED BY <1>3, <1>4, <1>5, <1>6, <1>7, <1>8 DEF Worker

(* What a step that touches neither table nor callers leaves as it is.      *)
LEMMA TableKept ==
  ASSUME NEW w \in Callers, TornInv(w), UNCHANGED <<table, callerVars>>,
         autoIncrementIdx' = autoIncrementIdx
  PROVE  (QuietInv(w) /\ HandedOver(w) /\ FillOf(w) /\ RowsInv(w))'
<1>1. QuietInv(w)'
  BY DEF TornInv, QuietInv, callerVars, pending
<1>2. HandedOver(w)'
  BY DEF TornInv, HandedOver, callerVars, pending, Whole, HasHead, IsData
<1>3. FillOf(w)'
  BY DEF TornInv, FillOf, table, callerVars, pending, Mixed, HasHead, IsWord
<1>4. \A s \in Slots : Row(w, s)' = Row(w, s)
  BY DEF Row, After, table, callerVars, pending
<1>5. ASSUME NEW s \in Slots, Row(w, s)'.canid # 0 PROVE Whole(Row(w, s))'
  <2>1. Row(w, s)' = Row(w, s) /\ Whole(Row(w, s))
    BY <1>4, <1>5 DEF TornInv, RowsInv
  <2> QED BY <2>1 DEF Whole, HasHead, IsData
<1>6. RowsInv(w)'
  BY <1>5 DEF RowsInv
<1> QED BY <1>1, <1>2, <1>3, <1>6

(* Every step of every thread keeps the invariant.                          *)
LEMMA TornStep ==
  ASSUME LoaderCallsInit, CanidStoredLast, Counters = {}, NEW w \in Callers, Lone(w)
  PROVE  TornInv(w) /\ [HNext]_<<vars, history>> => TornInv(w)'
<1> SUFFICES ASSUME TornInv(w), [HNext]_<<vars, history>> PROVE TornInv(w)'
  OBVIOUS
<1>1. WriterInv(w)'
  BY WriterStep DEF TornInv, HNext, vars
<1>2. CASE UNCHANGED <<vars, history>>
  <2>1. UNCHANGED <<statics, workerVars, callerVars, overwritten>>
    BY <1>2 DEF vars, history
  <2>2. /\ table' = table /\ callerVars' = callerVars /\ autoIncrementIdx' = autoIncrementIdx
        /\ UNCHANGED <<canStorage, op, toStore, wi, wpc, toCopy, frameToSend, overwritten>>
    BY <2>1 DEF statics, table, autoIncrements, workerVars, callerVars, pending
  <2>3. At(wi)' = At(wi) /\ Copied' = Copied /\ Overwriting' = Overwriting
    BY <2>2 DEF At, Copied, Overwriting
  <2>4. HandInv'
    BY <2>2, <2>3 DEF TornInv, HandInv, Mixed, Whole, HasHead, IsWord, IsData
  <2> QED BY <1>1, <2>2, <2>4, TableKept DEF TornInv, table, callerVars, pending
<1>3. CASE HNext /\ CyclicalInitLowLevelThread
  <2>1. /\ wpc = "absent" /\ wpc' = "check" /\ autoIncrementIdx' = 0 /\ UNCHANGED callerVars
        /\ \A s \in Slots : canStorage'[s].canid = 0
    BY <1>3 DEF CyclicalInitLowLevelThread, ZeroFrame
  <2>2. pc[w] = "idle" /\ op[w] = "none"
    BY <2>1 DEF TornInv, WriterInv, TableInv, ControlOf
  <2>3. \A s \in Slots : Row(w, s)'.canid = 0
    <3>1. toStore'[w] = {}
      BY <2>1, <2>2 DEF TornInv, WriterInv, TableInv, ControlOf, callerVars, pending
    <3> QED BY <2>1, <3>1 DEF Row, After, Fields
  <2> QED BY <1>1, <2>1, <2>2, <2>3 DEF TornInv, callerVars, pending, QuietInv, HandedOver, FillOf,
                                        RowsInv, HandInv
<1>4. CASE HNext /\ Worker
  <2>1. UNCHANGED <<table, callerVars>> /\ autoIncrementIdx' = autoIncrementIdx
    BY <1>4 DEF Worker, WorkerLook, WorkerSkip, WorkerSee, WorkerSync, WorkerCopyField, WorkerCopied,
       WorkerModify, WorkerSend, WorkerEndCycle, WorkerWake, statics, autoIncrements
  <2>2. HandInv'
    BY <1>4, WorkerHand DEF HNext
  <2> QED BY <1>1, <2>1, <2>2, TableKept DEF TornInv
<1>5. ASSUME HNext, NEW t \in Callers, CallerEntry(t) \/ CallerStep(t) PROVE TornInv(w)'
  <2>1. t = w
    BY <1>5, OnlyWriterSteps DEF TornInv
  <2>2. WriterSteps(w)
    BY <1>5, <2>1, StepsOfWriter DEF TornInv
  <2> QED BY <1>1, <1>5, <2>2, QuietStep, HandedStep, FillStep, RowsStep, WriterHand DEF TornInv, HNext
<1> QED BY <1>2, <1>3, <1>4, <1>5 DEF HNext, Next

(* Next to one caller, without counters, in every order of stores that      *)
(* keeps the identifier of an added frame for last, a frame that the worker *)
(* sends is whole unless it met a store into its slot, and mixes only data  *)
(* of its own identifier unless that was a remove or a removeAll            *)
(* (cyclical_send_task.cpp:147-212).                                        *)
THEOREM AlwaysTornOnlyByOverwriting ==
  ASSUME LoaderCallsInit, CanidStoredLast, Counters = {}, OneWriter
  PROVE  HSpec => []TornOnlyByOverwriting
<1>1. PICK w \in Callers : Lone(w)
  BY DEF OneWriter, Lone
<1>2. HInit => TornInv(w)
  BY TornInit
<1>3. TornInv(w) /\ [HNext]_<<vars, history>> => TornInv(w)'
  BY <1>1, TornStep
<1>4. TornInv(w) => TornOnlyByOverwriting
  BY DEF TornInv, HandInv, TornOnlyByOverwriting, ReadyToSend, SentHead, SentWord, Mixed, Whole,
         HasHead, IsWord, IsData
<1> QED BY <1>2, <1>3, <1>4, PTL DEF HSpec
=============================================================================
