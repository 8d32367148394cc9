-------------------------- MODULE CyclicHistoryProof -------------------------
(***************************************************************************)
(* What the frames sent have to do with one another, for every table size, *)
(* order of stores and number of threads: at most one frame is older than the *)
(* table while no call takes a step, and the bytes that counters drive go up *)
(* by one from frame to frame.                                             *)
(***************************************************************************)
EXTENDS CyclicSendTaskProof, CyclicSendHistory

(* Frames leave the program in one place.                                   *)
LEMMA OnlySendSends == ASSUME Next, Sending PROVE WorkerSend
<1>1. wpc = "modify" /\ wpc' = "check"
  BY DEF Sending
<1>2. ~ CyclicalInitLowLevelThread
  BY <1>1 DEF CyclicalInitLowLevelThread
<1>3. ASSUME NEW t \in Callers, CallerEntry(t) \/ CallerStep(t) PROVE FALSE
  BY <1>1, <1>3, CallersLeaveWorker DEF workerVars
<1>4. ~ WorkerModify
  <2>1. WorkerModify => wpc' = wpc
    BY Zenon DEF WorkerModify
  <2> QED BY <1>1, <2>1
<1>5. Worker
  BY <1>2, <1>3 DEF Next
<1> QED BY <1>1, <1>4, <1>5 DEF Worker, WorkerLook, WorkerSkip, WorkerSee, WorkerSync, WorkerCopyField,
        WorkerCopied, WorkerEndCycle, WorkerWake, WorkerGo

-----------------------------------------------------------------------------
(* What the worker has in its hands is what its slot holds: the part of the *)
(* frame it has copied, and then the frame but for the counted words.       *)
HandCurrent ==
  /\ wpc \in {"slot", "sync", "copy", "modify"} => wi < storageIdx
  /\ wpc \in {"sync", "copy", "modify"} => At(wi).canid # 0
  /\ wpc = "copy" => \A field \in Fields \ toCopy : frameToSend[field] = At(wi)[field]
  /\ wpc = "modify" =>
       /\ frameToSend.canid = At(wi).canid
       /\ \A field \in Fields :
            frameToSend[field] = At(wi)[field] \/ Counted(field, frameToSend.canid)

(* After one old frame the worker has a current one in its hands.           *)
StaleInv ==
  /\ TypeOK
  /\ staleSent \in {0, 1}
  /\ staleSent = 1 => HandCurrent

(* Every step of a call changes a local of its thread.                      *)
LEMMA CallsAreSeen ==
  ASSUME TypeOK, NEW t \in Callers, CallerEntry(t) \/ CallerStep(t) PROVE Calling
<1> USE DEF Calling, callerVars, pending, TypeOK
<1>1. CASE CallerEntry(t)
  BY <1>1 DEF CallerEntry, SendCyclicallyAdd, SendCyclicallyRemove, SendCyclicallyAdopt,
              RemoveCyclicalAll, EnableCyclicallyAutoIncrement, Call, Go
<1>2. CASE TestCycleTime(t) \/ SetCycleTime(t) \/ AddIsNew(t) \/ AddHasRoom(t) \/ AddClaim(t)
           \/ RemoveFound(t) \/ AdoptFound(t) \/ AdoptRaiseFlag(t) \/ EnableHasRoom(t)
  <2>1. pc'[t] # pc[t]
    BY <1>2 DEF TestCycleTime, SetCycleTime, AddIsNew, AddHasRoom, AddClaim, RemoveFound,
                AdoptFound, AdoptRaiseFlag, EnableHasRoom, Go, Hit, Scanning, Missed
  <2> QED BY <2>1
<1>3. CASE AddExists(t) \/ AddNoRoom(t) \/ NotFound(t) \/ EnableNoRoom(t) \/ StoresDone(t)
  <2>1. pc'[t] # pc[t]
    BY <1>3 DEF AddExists, AddNoRoom, NotFound, EnableNoRoom, StoresDone, Return, Go
  <2> QED BY <2>1
<1>4. CASE ScanNext(t) \/ IgnoreCounter(t)
  <2>1. i'[t] # i[t]
    <3>1. i' = [i EXCEPT ![t] = @ + 1]
      BY <1>4, Zenon DEF ScanNext, IgnoreCounter
    <3> QED BY <3>1
  <2> QED BY <2>1
<1>5. CASE StoreField(t)
  <2>1. toStore'[t] # toStore[t]
    BY <1>5 DEF StoreField
  <2> QED BY <2>1
<1>6. CASE StoreStorageIdx(t) \/ StoreAutoIncrement(t) \/ StoreAutoIncrementIdx(t)
  <2>1. toPublish'[t] # toPublish[t]
    BY <1>6 DEF StoreStorageIdx, StoreAutoIncrement, StoreAutoIncrementIdx
  <2> QED BY <2>1
<1> QED BY <1>1, <1>2, <1>3, <1>4, <1>5, <1>6 DEF CallerStep

(* The worker sends, and no step of a call does.                            *)
LEMMA CallsDoNotSend == ASSUME Next, Calling PROVE ~ Sending
<1>1. WorkerSend => UNCHANGED callerVars
  BY DEF WorkerSend
<1> QED BY <1>1, OnlySendSends DEF Calling

(* A memcpy that nobody disturbs leaves the worker with what its slot holds. *)
LEMMA CopyIsCurrent ==
  ASSUME TypeOK, HandCurrent, WorkerCopyField \/ WorkerCopied PROVE HandCurrent'
<1>1. UNCHANGED <<table, autoIncrements, wi>>
  BY DEF WorkerCopyField, WorkerCopied, statics
<1>2. frameToSend \in StoredFrame /\ toCopy \in SUBSET Fields /\ At(wi) \in StoredFrame
  BY AtType DEF TypeOK
<1>3. CASE WorkerCopyField
  <2>1. PICK field \in toCopy :
          /\ wpc = "copy"
          /\ frameToSend' = [frameToSend EXCEPT ![field] = At(wi)[field]]
          /\ toCopy' = toCopy \ {field}
          /\ wpc' = wpc
    BY <1>3 DEF WorkerCopyField
  <2>2. \A g \in Fields \ toCopy' : frameToSend'[g] = At(wi)[g]
    BY <1>2, <2>1 DEF HandCurrent, StoredFrame, Fields, Words
  <2> QED BY <1>1, <2>1, <2>2 DEF HandCurrent, At, table
<1>4. CASE WorkerCopied
  <2>1. wpc = "copy" /\ wpc' = "modify" /\ toCopy = {} /\ frameToSend' = frameToSend
    BY <1>4 DEF WorkerCopied, WorkerGo
  <2>2. \A g \in Fields : frameToSend[g] = At(wi)[g]
    BY <2>1 DEF HandCurrent
  <2>3. frameToSend["canid"] = At(wi)["canid"]
    BY <2>2 DEF Fields
  <2> QED BY <1>1, <2>1, <2>2, <2>3 DEF HandCurrent, At, table
<1> QED BY <1>3, <1>4

(* modifyAutocounters only writes counted words.                            *)
LEMMA ModifyIsCurrent ==
  ASSUME TypeOK, HandCurrent, WorkerModify PROVE HandCurrent'
<1> DEFINE c == CounterAt(wj)
           w == WordOf(c.bytePos)
<1>1. /\ UNCHANGED <<table, autoIncrementIdx, wpc, wi>> /\ wpc = "modify"
      /\ wj < autoIncrementIdx
  BY Zenon DEF WorkerModify
<1>2. frameToSend \in StoredFrame /\ canAutoIncrement \in [Slots -> AutoIncrement]
  BY DEF TypeOK
<1>3. CASE wj \in Slots /\ Drives(c, frameToSend.canid)
  <2>1. PICK v : /\ canAutoIncrement' = [canAutoIncrement EXCEPT ![wj].value = v]
                 /\ frameToSend' = [frameToSend EXCEPT ![w] = v]
    BY <1>3, Zenon DEF WorkerModify
  <2>2. w \in Words /\ c = canAutoIncrement[wj]
    BY <1>3 DEF Drives, CounterAt
  <2>3. \A j \in Slots : /\ canAutoIncrement'[j].canid = canAutoIncrement[j].canid
                         /\ canAutoIncrement'[j].bytePos = canAutoIncrement[j].bytePos
    BY <1>2, <2>1 DEF AutoIncrement
  <2> HIDE DEF c, w
  <2>4. /\ frameToSend'.canid = frameToSend.canid
        /\ \A field \in Fields : field # w => frameToSend'[field] = frameToSend[field]
    BY <1>2, <2>1, <2>2 DEF StoredFrame, Fields, Words
  <2>5. \A field : Counted(field, frameToSend.canid) => Counted(field, frameToSend.canid)'
    BY <1>1, <2>3, <2>4 DEF Counted, Drives
  <2>6. Counted(w, frameToSend.canid)
    BY <1>1, <1>3, <2>2 DEF Counted, w
  <2> QED BY <1>1, <2>4, <2>5, <2>6 DEF HandCurrent, At, table
<1>4. CASE ~ (wj \in Slots /\ Drives(c, frameToSend.canid))
  <2>1. UNCHANGED <<canAutoIncrement, frameToSend>>
    BY <1>4, Zenon DEF WorkerModify
  <2> QED BY <1>1, <2>1 DEF HandCurrent, At, table, Counted
<1> QED BY <1>3, <1>4

(* A frame that is current goes out as a slot holds it.                     *)
LEMMA CurrentIsInTable ==
  ASSUME TypeOK, HandCurrent, wpc = "modify" PROVE InTable(frameToSend)
<1>1. wi < storageIdx /\ At(wi).canid # 0
  BY DEF HandCurrent
<1>2. wi \in Slots
  BY <1>1 DEF At, ZeroFrame
<1> QED BY <1>1, <1>2 DEF HandCurrent, InTable, At

(* A step of a call begins anew; between two of them the worker may have    *)
(* one old frame in its hands, and takes the next ones from the table.      *)
LEMMA StaleStep == StaleInv /\ [HNext]_<<vars, history>> => StaleInv'
<1> SUFFICES ASSUME StaleInv, [HNext]_<<vars, history>> PROVE StaleInv'
  OBVIOUS
<1>1. TypeOK'
  BY TypeStep DEF StaleInv, HNext, vars
<1>2. CASE UNCHANGED <<vars, history>>
  BY <1>1, <1>2 DEF vars, history, statics, table, autoIncrements, workerVars, StaleInv,
                    HandCurrent, At, Counted
<1>3. CASE HNext /\ Calling
  <2>1. ~ Sending
    BY <1>3, CallsDoNotSend DEF HNext, StaleInv
  <2>2. staleSent' = 0
    BY <1>3, <2>1 DEF HNext, UpdateStaleSent
  <2> QED BY <1>1, <2>2 DEF StaleInv
<1>4. CASE HNext /\ ~ Calling
  <2>1. /\ CyclicalInitLowLevelThread \/ Worker
        /\ staleSent' = IF Sending /\ ~ InTable(frameToSend)
                          THEN IF staleSent = 0 THEN 1 ELSE 2
                          ELSE staleSent
    BY <1>4, CallsAreSeen DEF HNext, Next, UpdateStaleSent, StaleInv
  <2>2. CASE ~ Sending
    <3>1. staleSent' = staleSent
      BY <2>1, <2>2
    <3>2. ASSUME HandCurrent PROVE HandCurrent'
      <4>1. CASE CyclicalInitLowLevelThread
        BY <4>1 DEF CyclicalInitLowLevelThread, HandCurrent
      <4>2. CASE WorkerLook \/ WorkerSkip \/ WorkerEndCycle \/ WorkerWake
        BY <4>2 DEF WorkerLook, WorkerSkip, WorkerEndCycle, WorkerWake, WorkerGo, HandCurrent, statics,
                     table
      <4>3. CASE WorkerSee \/ WorkerSync
        BY <3>2, <4>3 DEF WorkerSee, WorkerSync, WorkerGo, HandCurrent, statics, table, At
      <4>4. CASE WorkerCopyField \/ WorkerCopied
        BY <3>2, <4>4, CopyIsCurrent DEF StaleInv
      <4>5. CASE WorkerModify
        BY <3>2, <4>5, ModifyIsCurrent DEF StaleInv
      <4>6. ~ WorkerSend
        BY <2>2 DEF WorkerSend, ReadyToSend, Sending
      <4> QED BY <2>1, <4>1, <4>2, <4>3, <4>4, <4>5, <4>6 DEF Worker
    <3> QED BY <1>1, <3>1, <3>2 DEF StaleInv
  <2>3. CASE Sending
    <3>1. HandCurrent'
      BY <2>3 DEF Sending, HandCurrent
    <3>2. staleSent = 1 => InTable(frameToSend)
      BY <2>3, CurrentIsInTable DEF StaleInv, Sending
    <3> QED BY <1>1, <2>1, <3>1, <3>2 DEF StaleInv
  <2> QED BY <2>2, <2>3
<1> QED BY <1>2, <1>3, <1>4

(* Between two steps of calls at most one frame goes out that the table     *)
(* does not hold, apart from the words that counters keep for themselves:   *)
(* the one the worker had in its hands (cyclical_send_task.cpp:209-212).    *)
THEOREM NeverMoreThanOneStaleFrame == HSpec => []AtMostOneStaleFrame
<1>1. HInit => StaleInv
  BY TypeInit DEF HInit, StaleInv
<1>2. StaleInv => AtMostOneStaleFrame
  BY DEF StaleInv, AtMostOneStaleFrame
<1> QED BY <1>1, <1>2, StaleStep, PTL DEF HSpec

-----------------------------------------------------------------------------
(* Only thread e enables counters.                                          *)
Enables(e) == \A t \in Callers : t # e => "enable" \notin Calls[t]

(* An entry as the worker may see it while its counter c is being enabled.  *)
HalfEnabled(c) == [canid : {0, c.canid}, bytePos : {0, c.bytePos}]

(* Such an entry drives no byte of another counter.                         *)
HalfEnabledDriveNoOther == \A c, d \in Counters : \A h \in HalfEnabled(c) :
  c # d /\ WordOf(d.bytePos) \in Words => h.canid # d.canid \/ WordOf(h.bytePos) # WordOf(d.bytePos)

-----------------------------------------------------------------------------
(* Enabling, thread by thread.                                              *)

(* The counter a call asks for, and the one an entry counts for.            *)
CounterOf(t) == [canid |-> arg[t].f.canid, bytePos |-> arg[t].n]
CounterIn(j) == [canid |-> canAutoIncrement[j].canid, bytePos |-> canAutoIncrement[j].bytePos]
Unused == [canid |-> 0, bytePos |-> 0]

(* Where a thread is in an enable, and what it has left to store.           *)
EnableOf(t) ==
  /\ op[t] \in Calls[t] \cup {"none"}
  /\ op[t] = "enable" =>
       pc[t] \in {"autoRoom", "store"} /\ wpc # "absent" /\ CounterOf(t) \in Counters
  /\ pc[t] = "autoRoom" => op[t] = "enable"
  /\ pc[t] # "store" => toPublish[t] = {}
  /\ op[t] # "enable" => toPublish[t] \subseteq {"storageIdx"}

(* The entry that e is filling, and where the finished ones end.            *)
Filling(e) == op[e] = "enable" /\ pc[e] = "store"
Finished(e) == IF Filling(e) THEN slot[e] ELSE autoIncrementIdx
(* Its entry is a mixture of zeros and the counter asked for.               *)
FillingOf(e) == Filling(e) =>
  /\ slot[e] \in Slots
  /\ autoIncrementIdx = IF "autoIncrementIdx" \in toPublish[e] THEN slot[e] ELSE slot[e] + 1
  /\ CounterIn(slot[e]) \in HalfEnabled(CounterOf(e))
  /\ "canid" \notin toPublish[e] => CounterIn(slot[e]).canid = CounterOf(e).canid
  /\ "bytePos" \notin toPublish[e] => CounterIn(slot[e]).bytePos = CounterOf(e).bytePos

(* Finished entries are counters, free ones are zero.                       *)
CountersOf(e) == \A j \in Slots :
  IF j < Finished(e) THEN CounterIn(j) \in Counters
  ELSE (Filling(e) /\ j = slot[e]) \/ CounterIn(j) = Unused

(* The last finished entry of a counter, the one that has the last word.    *)
Top(e, c, j) ==
  /\ j \in Slots /\ j < Finished(e) /\ CounterIn(j) = c
  /\ \A k \in Slots : j < k /\ k < Finished(e) => CounterIn(k) # c
TopOf(e) == \A c \in Counters :
  (\E j \in Slots : j < Finished(e) /\ CounterIn(j) = c) => \E j \in Slots : Top(e, c, j)

(* The inductive invariant of the enables.                                  *)
EnableInv(e) ==
  /\ TypeOK
  /\ autoIncrementIdx \in -1 .. MAX_CAN_FRAMES_TO_STORE
  /\ wpc = "absent" <=> autoIncrementIdx = -1
  /\ wpc # "modify" => wj = 0
  /\ \A t \in Callers : EnableOf(t)
  /\ FillingOf(e) /\ CountersOf(e) /\ TopOf(e)

(* Nothing is enabled in the beginning.                                     *)
LEMMA EnableInit == ASSUME NEW e \in Callers, Init PROVE EnableInv(e)
<1>1. TypeOK
  BY TypeInit
<1>2. MAX_CAN_FRAMES_TO_STORE \in Nat \ {0}
  BY StorageAssumption DEF StorageAssumption
<1>3. autoIncrementIdx = -1 /\ wpc = "absent" /\ wj = 0 /\ \A t \in Callers : EnableOf(t)
  BY DEF Init, EnableOf
<1>4. ~ Filling(e) /\ Finished(e) = -1
  BY DEF Init, Filling, Finished
<1>5. \A j \in Slots : ~ j < Finished(e) /\ CounterIn(j) = Unused
  BY <1>4 DEF Init, Slots, CounterIn, Unused, ZeroCounter
<1> QED BY <1>1, <1>2, <1>3, <1>4, <1>5 DEF EnableInv, FillingOf, CountersOf, TopOf

-----------------------------------------------------------------------------
(* What a step of a thread does to its part of the invariant.               *)
LEMMA EnableOfEntry ==
  ASSUME LoaderCallsInit, TypeOK, NEW t \in Callers, EnableOf(t), CallerEntry(t)
  PROVE  EnableOf(t)' /\ wpc' = wpc /\ UNCHANGED autoIncrements /\ pc'[t] # "idle"
         /\ ~ Filling(t) /\ ~ Filling(t)' /\ pc[t] = "idle"
<1> USE DEF TypeOK, Call, Go, NothingToStore, statics, workerVars, pending, EnableOf, Filling
<1>1. CASE SendCyclicallyAdd(t) \/ SendCyclicallyRemove(t) \/ SendCyclicallyAdopt(t)
  BY <1>1 DEF SendCyclicallyAdd, SendCyclicallyRemove, SendCyclicallyAdopt
<1>2. CASE RemoveCyclicalAll(t)
  BY <1>2 DEF RemoveCyclicalAll
<1>3. CASE EnableCyclicallyAutoIncrement(t)
  <2>1. PICK c \in Counters :
          Call(t, "enable", [f |-> [ZeroFrame EXCEPT !.canid = c.canid], n |-> c.bytePos], "autoRoom")
    BY <1>3 DEF EnableCyclicallyAutoIncrement
  <2>2. c \in [canid : Nat, bytePos : Int]
    BY FramesAssumption DEF FramesAssumption
  <2>3. CounterOf(t)' = [canid |-> c.canid, bytePos |-> c.bytePos]
    BY <2>1 DEF CounterOf, ZeroFrame
  <2>4. CounterOf(t)' \in Counters
    BY <2>2, <2>3
  <2> QED BY <1>3, <2>1, <2>4 DEF EnableCyclicallyAutoIncrement
<1> QED BY <1>1, <1>2, <1>3 DEF CallerEntry

(* Steps of the functions that work on the table of frames.                 *)
LEMMA TableCallStep ==
  ASSUME TypeOK, NEW t \in Callers, EnableOf(t), op[t] # "enable", CallerStep(t)
  PROVE  EnableOf(t)' /\ wpc' = wpc /\ UNCHANGED autoIncrements /\ op'[t] # "enable"
<1> USE DEF TypeOK, Return, Go, statics, workerVars, pending, EnableOf
<1>1. CASE TestCycleTime(t) \/ SetCycleTime(t) \/ ScanNext(t) \/ AddExists(t) \/ AddIsNew(t)
           \/ AddNoRoom(t) \/ AddHasRoom(t) \/ AddClaim(t)
  BY <1>1 DEF TestCycleTime, SetCycleTime, ScanNext, Scanning, AddExists, AddIsNew, AddNoRoom,
              AddHasRoom, AddClaim, Hit, Missed
<1>2. CASE RemoveFound(t) \/ NotFound(t) \/ AdoptFound(t) \/ AdoptRaiseFlag(t)
  BY <1>2 DEF RemoveFound, NotFound, AdoptFound, AdoptRaiseFlag, Hit, Missed, Scanning
<1>3. CASE IgnoreCounter(t)
  <2>1. UNCHANGED <<op, pc, toPublish, wpc, autoIncrements>>
    BY <1>3, Zenon DEF IgnoreCounter
  <2> QED BY <2>1
<1>4. CASE EnableNoRoom(t) \/ EnableHasRoom(t) \/ StoreAutoIncrement(t) \/ StoreAutoIncrementIdx(t)
  BY <1>4 DEF EnableNoRoom, EnableHasRoom, StoreAutoIncrement, StoreAutoIncrementIdx, EntryFields
<1>5. CASE StoreField(t)
  BY <1>5 DEF StoreField, autoIncrements
<1>6. CASE StoreStorageIdx(t)
  BY <1>6 DEF StoreStorageIdx, autoIncrements
<1>7. CASE StoresDone(t)
  BY <1>7 DEF StoresDone, autoIncrements
<1> QED BY <1>1, <1>2, <1>3, <1>4, <1>5, <1>6, <1>7 DEF CallerStep

(* Steps of an enable, by name.                                             *)
LEMMA EnableSteps ==
  ASSUME TypeOK, NEW t \in Callers, EnableOf(t), op[t] = "enable", CallerStep(t)
  PROVE  /\ \/ EnableNoRoom(t) \/ EnableHasRoom(t) \/ StoreAutoIncrement(t)
            \/ StoreAutoIncrementIdx(t) \/ StoresDone(t) \/ StoreField(t) \/ StoreStorageIdx(t)
         /\ EnableOf(t)' /\ wpc' = wpc
<1> USE DEF TypeOK, Return, Go, statics, workerVars, pending, EnableOf
<1>1. \/ EnableNoRoom(t) \/ EnableHasRoom(t) \/ StoreAutoIncrement(t)
      \/ StoreAutoIncrementIdx(t) \/ StoresDone(t) \/ StoreField(t) \/ StoreStorageIdx(t)
  <2>1. pc[t] \in {"autoRoom", "store"}
    OBVIOUS
  <2> QED BY <2>1 DEF CallerStep, TestCycleTime, SetCycleTime, ScanNext, Scanning, AddExists,
      AddIsNew, AddNoRoom, AddHasRoom, AddClaim, RemoveFound, NotFound, AdoptFound, IgnoreCounter,
      AdoptRaiseFlag, Hit, Missed
<1>2. CASE EnableNoRoom(t) \/ StoresDone(t)
  BY <1>2 DEF EnableNoRoom, StoresDone
<1>3. CASE EnableHasRoom(t)
  BY <1>3 DEF EnableHasRoom, CounterOf
<1>4. CASE StoreAutoIncrement(t) \/ StoreAutoIncrementIdx(t)
  BY <1>4 DEF StoreAutoIncrement, StoreAutoIncrementIdx, CounterOf
<1>5. CASE StoreField(t) \/ StoreStorageIdx(t)
  BY <1>5 DEF StoreField, StoreStorageIdx, CounterOf
<1> QED BY <1>1, <1>2, <1>3, <1>4, <1>5

-----------------------------------------------------------------------------
(* What the entries look like after a step.                                 *)
EntriesOf(e) == FillingOf(e) /\ CountersOf(e) /\ TopOf(e)

(* The thread that enables is where it was.                                 *)
StaysPut(e) == op'[e] = op[e] /\ pc'[e] = pc[e] /\ arg'[e] = arg[e] /\ slot'[e] = slot[e]

(* No entry changes but in its value.                                       *)
CountersStay == UNCHANGED autoIncrementIdx /\ \A j \in Slots : CounterIn(j)' = CounterIn(j)

(* A step of anybody that leaves the entries and the enable alone.          *)
LEMMA EntriesStay ==
  ASSUME NEW e \in Callers, EntriesOf(e), CountersStay,
         \/ StaysPut(e) /\ toPublish'[e] \cap EntryFields = toPublish[e] \cap EntryFields
                        /\ ("autoIncrementIdx" \in toPublish'[e] <=> "autoIncrementIdx" \in toPublish[e])
         \/ ~ Filling(e) /\ ~ Filling(e)'
  PROVE  EntriesOf(e)' /\ Finished(e)' = Finished(e)
<1>1. Filling(e)' = Filling(e) /\ Finished(e)' = Finished(e)
  BY DEF CountersStay, StaysPut, Filling, Finished
<1>2. FillingOf(e)'
  <2> SUFFICES ASSUME Filling(e)' PROVE FillingOf(e)'
    BY DEF FillingOf
  <2>1. /\ StaysPut(e) /\ toPublish'[e] \cap EntryFields = toPublish[e] \cap EntryFields
        /\ ("autoIncrementIdx" \in toPublish'[e] <=> "autoIncrementIdx" \in toPublish[e])
        /\ Filling(e)
    BY <1>1
  <2>2. CounterOf(e)' = CounterOf(e)
    BY <2>1 DEF StaysPut, CounterOf
  <2>3. PICK s \in Slots : s = slot[e] /\ s = slot'[e]
    BY <2>1 DEF EntriesOf, FillingOf, StaysPut
  <2>4. CounterIn(s)' = CounterIn(s)
    BY DEF CountersStay
  <2>5. ("canid" \in toPublish'[e] <=> "canid" \in toPublish[e])
        /\ ("bytePos" \in toPublish'[e] <=> "bytePos" \in toPublish[e])
    BY <2>1 DEF EntryFields
  <2>6. CounterIn(slot[e])' = CounterIn(slot[e])
    BY <2>3, <2>4
  <2> QED BY <2>1, <2>2, <2>3, <2>5, <2>6 DEF EntriesOf, FillingOf, CountersStay
<1>3. CountersOf(e)'
  <2>1. Filling(e)' => slot'[e] = slot[e]
    BY <1>1 DEF StaysPut
  <2> QED BY <1>1, <2>1 DEF EntriesOf, CountersOf, CountersStay, Unused
<1>4. \A c \in Counters, j \in Slots : Top(e, c, j) => Top(e, c, j)'
  BY <1>1 DEF Top, CountersStay
<1>5. TopOf(e)'
  BY <1>1, <1>4 DEF EntriesOf, TopOf, CountersStay
<1> QED BY <1>1, <1>2, <1>3, <1>5 DEF EntriesOf

(* A claimed entry lies behind the finished ones, and is still unused.      *)
LEMMA HasRoomEntries ==
  ASSUME NEW e \in Callers, EnableInv(e), op[e] = "enable", EnableHasRoom(e)
  PROVE  EntriesOf(e)' /\ Finished(e)' = Finished(e) /\ CountersStay
<1>0. PICK s \in Slots : s = autoIncrementIdx
  <2>1. wpc # "absent" /\ autoIncrementIdx \in -1 .. MAX_CAN_FRAMES_TO_STORE
        /\ (wpc = "absent" <=> autoIncrementIdx = -1)
    BY DEF EnableInv, EnableOf
  <2> QED BY <2>1, StorageAssumption DEF EnableHasRoom, Slots, StorageAssumption
<1>1. /\ pc[e] = "autoRoom" /\ pc'[e] = "store" /\ slot'[e] = s /\ op'[e] = "enable"
      /\ toPublish'[e] = EntryFields \cup {"autoIncrementIdx"}
      /\ UNCHANGED <<arg, autoIncrements>>
  BY <1>0 DEF EnableHasRoom, Go, EnableInv, TypeOK, statics
<1>2. ~ Filling(e) /\ Filling(e)' /\ Finished(e) = s /\ Finished(e)' = s
  BY <1>0, <1>1 DEF Filling, Finished
<1>3. CountersStay
  BY <1>1 DEF CountersStay, CounterIn, autoIncrements
<1>4. CounterIn(s) = Unused /\ CounterIn(s)' = Unused
  <2>1. ~ s < Finished(e)
    BY <1>2 DEF Slots
  <2> QED BY <1>2, <1>3, <2>1 DEF EnableInv, CountersOf, CountersStay
<1>5. FillingOf(e)'
  <2>1. CounterIn(slot[e])' = Unused
    BY <1>1, <1>4 DEF CounterIn
  <2>2. Unused \in HalfEnabled(CounterOf(e))'
    BY DEF Unused, HalfEnabled
  <2> QED BY <1>0, <1>1, <2>1, <2>2 DEF FillingOf, autoIncrements, EntryFields
<1>6. CountersOf(e)'
  BY <1>1, <1>2, <1>3 DEF EnableInv, CountersOf, CountersStay, Unused
<1>7. \A c \in Counters, j \in Slots : Top(e, c, j) => Top(e, c, j)'
  BY <1>2, <1>3 DEF Top, CountersStay
<1>8. TopOf(e)'
  BY <1>2, <1>3, <1>7 DEF EnableInv, TopOf, CountersStay
<1> QED BY <1>2, <1>3, <1>5, <1>6, <1>8 DEF EntriesOf

(* The stores of an enable only touch the entry it has claimed.             *)
LEMMA StoreEntries ==
  ASSUME NEW e \in Callers, EnableInv(e), op[e] = "enable",
         StoreAutoIncrement(e) \/ StoreAutoIncrementIdx(e)
  PROVE  /\ EntriesOf(e)' /\ Finished(e)' = Finished(e) /\ Filling(e) /\ Filling(e)'
         /\ StaysPut(e)
         /\ \A j \in Slots : j # slot[e] => canAutoIncrement'[j] = canAutoIncrement[j]
<1>0. PICK s \in Slots : s = slot[e]
  BY DEF EnableInv, FillingOf, Filling, StoreAutoIncrement, StoreAutoIncrementIdx
<1>1. /\ Filling(e) /\ Filling(e)' /\ StaysPut(e) /\ Finished(e) = s /\ Finished(e)' = s
  BY <1>0 DEF StoreAutoIncrement, StoreAutoIncrementIdx, Filling, Finished, StaysPut
<1>2. \A j \in Slots : j # s => canAutoIncrement'[j] = canAutoIncrement[j]
  BY <1>0 DEF StoreAutoIncrement, StoreAutoIncrementIdx, EnableInv, TypeOK
<1>3. \A j \in Slots : j # s => CounterIn(j)' = CounterIn(j)
  BY <1>2 DEF CounterIn
<1>4. CounterOf(e)' = CounterOf(e) /\ CounterIn(slot[e])' = CounterIn(s)'
  BY <1>0, <1>1 DEF CounterOf, StaysPut, CounterIn
<1>5. FillingOf(e)'
  <2>1. CASE StoreAutoIncrement(e)
    <3>1. PICK field \in EntryFields :
            /\ field \in toPublish[e]
            /\ canAutoIncrement' = [canAutoIncrement EXCEPT ![s][field] =
                 [canid |-> arg[e].f.canid, bytePos |-> arg[e].n, value |-> 0][field]]
            /\ toPublish' = [toPublish EXCEPT ![e] = @ \ {field}]
            /\ UNCHANGED autoIncrementIdx
      BY <1>0, <2>1 DEF StoreAutoIncrement
    <3>2. toPublish'[e] = toPublish[e] \ {field}
      BY <3>1 DEF EnableInv, TypeOK
    <3>3. /\ CounterIn(s)'.canid = IF field = "canid" THEN CounterOf(e).canid ELSE CounterIn(s).canid
          /\ CounterIn(s)'.bytePos =
               IF field = "bytePos" THEN CounterOf(e).bytePos ELSE CounterIn(s).bytePos
      BY <3>1 DEF CounterIn, CounterOf, EnableInv, TypeOK, AutoIncrement, EntryFields
    <3>4. CounterIn(s) \in HalfEnabled(CounterOf(e))
      BY <1>0, <1>1 DEF EnableInv, FillingOf
    <3>5. CounterIn(s)' \in HalfEnabled(CounterOf(e))
      BY <3>3, <3>4 DEF HalfEnabled, CounterIn, CounterOf
    <3>6. HalfEnabled(CounterOf(e))' = HalfEnabled(CounterOf(e))
      BY <1>4 DEF HalfEnabled
    <3>7. "autoIncrementIdx" \in toPublish'[e] <=> "autoIncrementIdx" \in toPublish[e]
      BY <3>1, <3>2 DEF EntryFields
    <3> QED BY <1>0, <1>1, <1>4, <3>1, <3>2, <3>3, <3>5, <3>6, <3>7
            DEF EnableInv, FillingOf, StaysPut, EntryFields
  <2>2. CASE StoreAutoIncrementIdx(e)
    <3>1. /\ "autoIncrementIdx" \in toPublish[e]
          /\ autoIncrementIdx' \in {slot[e] + 1, autoIncrementIdx + 1}
          /\ toPublish'[e] = toPublish[e] \ {"autoIncrementIdx"}
          /\ UNCHANGED <<canAutoIncrement, arg, slot>>
      BY <2>2 DEF StoreAutoIncrementIdx, EnableInv, TypeOK
    <3>2. autoIncrementIdx = slot[e] /\ autoIncrementIdx' = slot[e] + 1
      BY <1>1, <3>1 DEF EnableInv, FillingOf
    <3>3. CounterIn(slot[e])' = CounterIn(slot[e])
      BY <3>1 DEF CounterIn
    <3>4. HalfEnabled(CounterOf(e))' = HalfEnabled(CounterOf(e))
      BY <1>4 DEF HalfEnabled
    <3> QED BY <1>1, <1>4, <3>1, <3>2, <3>3, <3>4 DEF EnableInv, FillingOf
  <2> QED BY <2>1, <2>2
<1>6. CountersOf(e)'
  <2>1. slot'[e] = s
    BY <1>0, <1>1 DEF StaysPut
  <2>2. \A j \in Slots : j < s => j # s
    BY DEF Slots
  <2> QED BY <1>0, <1>1, <1>3, <2>1, <2>2 DEF EnableInv, CountersOf, Unused
<1>7. \A c \in Counters, j \in Slots : Top(e, c, j) => Top(e, c, j)'
  <2>1. \A j \in Slots : j < s => j # s
    BY DEF Slots
  <2> QED BY <1>1, <1>3, <2>1 DEF Top
<1>8. TopOf(e)'
  <2>1. \A j \in Slots : j < s => j # s
    BY DEF Slots
  <2> QED BY <1>1, <1>3, <1>7, <2>1 DEF EnableInv, TopOf
<1> QED BY <1>0, <1>1, <1>2, <1>5, <1>6, <1>8 DEF EntriesOf

(* Then it is the last one of its counter.                                  *)
LEMMA DoneEntries ==
  ASSUME NEW e \in Callers, EnableInv(e), op[e] = "enable", StoresDone(e)
  PROVE  /\ EntriesOf(e)' /\ CountersStay
         /\ \A c \in Counters, j \in Slots :
              Top(e, c, j) /\ CounterOf(e) # c => Top(e, c, j)'
<1>0. PICK s \in Slots : s = slot[e]
  BY DEF EnableInv, FillingOf, Filling, StoresDone, Return, Go
<1>1. /\ Filling(e) /\ ~ Filling(e)' /\ Finished(e) = s
      /\ toPublish[e] = {} /\ autoIncrementIdx = s + 1 /\ UNCHANGED autoIncrements
  BY <1>0 DEF StoresDone, Return, Go, Filling, Finished, EnableInv, FillingOf, TypeOK
<1>2. CountersStay /\ Finished(e)' = s + 1
  BY <1>1 DEF CountersStay, CounterIn, Finished, autoIncrements
<1>3. CounterIn(s) = CounterOf(e) /\ CounterOf(e) \in Counters
  BY <1>0, <1>1 DEF EnableInv, FillingOf, EnableOf, CounterIn, CounterOf
<1>4. FillingOf(e)'
  BY <1>1 DEF FillingOf
<1>5. \A j \in Slots : j < s + 1 <=> j < s \/ j = s
  BY DEF Slots
<1>6. CountersOf(e)'
  BY <1>0, <1>1, <1>2, <1>3, <1>5 DEF EnableInv, CountersOf, CountersStay, Unused
<1>7. \A c \in Counters, j \in Slots : Top(e, c, j) /\ CounterOf(e) # c => Top(e, c, j)'
  BY <1>1, <1>2, <1>3, <1>5 DEF Top, CountersStay
<1>8. ASSUME NEW c \in Counters, c = CounterOf(e) PROVE Top(e, c, s)'
  BY <1>2, <1>3, <1>5, <1>8 DEF Top, CountersStay, Slots
<1>9. TopOf(e)'
  <2> SUFFICES ASSUME NEW c \in Counters, NEW j \in Slots, j < Finished(e)', CounterIn(j)' = c
               PROVE  \E k \in Slots : Top(e, c, k)'
    BY DEF TopOf
  <2>1. CASE c = CounterOf(e)
    BY <1>8, <2>1
  <2>2. CASE c # CounterOf(e)
    <3>1. CounterIn(j) = c /\ j < s
      BY <1>2, <1>3, <1>5, <2>2 DEF CountersStay
    <3> QED BY <1>1, <1>7, <2>2, <3>1 DEF EnableInv, TopOf
  <2> QED BY <2>1, <2>2
<1> QED BY <1>2, <1>4, <1>6, <1>7, <1>9 DEF EntriesOf

(* The worker changes no entry but its value.                               *)
LEMMA WorkerCounters ==
  ASSUME TypeOK, Worker \/ UNCHANGED vars, wpc # "modify" => wj = 0
  PROVE  /\ UNCHANGED callerVars /\ CountersStay /\ (wpc = "absent" <=> wpc' = "absent")
         /\ wpc' # "modify" => wj' = 0
<1>1. CASE WorkerModify
  <2>1. /\ UNCHANGED <<callerVars, autoIncrementIdx, wpc>> /\ wpc = "modify"
    BY <1>1, Zenon DEF WorkerModify
  <2>2. ASSUME NEW j \in Slots PROVE CounterIn(j)' = CounterIn(j)
    <3>1. CASE canAutoIncrement' = canAutoIncrement
      BY <3>1 DEF CounterIn
    <3>2. CASE canAutoIncrement' # canAutoIncrement
      <4>1. \E v : canAutoIncrement' = [canAutoIncrement EXCEPT ![wj].value = v]
        BY <1>1, <3>2, Zenon DEF WorkerModify
      <4> QED BY <4>1 DEF CounterIn, TypeOK, AutoIncrement
    <3> QED BY <3>1, <3>2
  <2> QED BY <2>1, <2>2 DEF CountersStay
<1>2. CASE (Worker \/ UNCHANGED vars) /\ ~ WorkerModify
  <2>1. UNCHANGED <<callerVars, autoIncrements>> /\ (wpc = "absent" <=> wpc' = "absent")
        /\ (wpc' # "modify" => wj' = 0)
    BY <1>2 DEF Worker, WorkerLook, WorkerSkip, WorkerSee, WorkerSync, WorkerCopyField, WorkerCopied,
       WorkerSend, ReadyToSend, WorkerEndCycle, WorkerWake, WorkerGo, statics, vars, workerVars
  <2> QED BY <2>1 DEF CountersStay, CounterIn, autoIncrements
<1> QED BY <1>1, <1>2

(* Initialisation finds nothing enabled.                                    *)
LEMMA InitCounters ==
  ASSUME NEW e \in Callers, EnableInv(e), CyclicalInitLowLevelThread
  PROVE  /\ EntriesOf(e)' /\ autoIncrementIdx' = 0 /\ wpc' = "check" /\ wj' = wj /\ UNCHANGED callerVars
         /\ \A j \in Slots : ~ j < Finished(e)
<1>1. /\ wpc = "absent" /\ wpc' = "check" /\ wj' = wj /\ autoIncrementIdx' = 0
      /\ canAutoIncrement' = [j \in Slots |-> ZeroCounter] /\ UNCHANGED callerVars
  BY DEF CyclicalInitLowLevelThread
<1>2. autoIncrementIdx = -1 /\ op[e] # "enable"
  BY <1>1 DEF EnableInv, EnableOf
<1>3. ~ Filling(e) /\ ~ Filling(e)' /\ Finished(e) = -1 /\ Finished(e)' = 0
  BY <1>1, <1>2 DEF Filling, Finished, callerVars
<1>4. \A j \in Slots : ~ j < Finished(e) /\ ~ j < Finished(e)' /\ CounterIn(j)' = Unused
  BY <1>1, <1>3 DEF Slots, CounterIn, Unused, ZeroCounter
<1> QED BY <1>1, <1>3, <1>4 DEF EntriesOf, FillingOf, CountersOf, TopOf, Unused

(* A step of a thread either leaves the entries alone or belongs to an      *)
(* enable.                                                                  *)
LEMMA CallerCounters ==
  ASSUME LoaderCallsInit, NEW e \in Callers, Enables(e), EnableInv(e), NEW t \in Callers,
         CallerEntry(t) \/ CallerStep(t)
  PROVE  /\ EnableOf(t)' /\ wpc' = wpc /\ EntriesOf(e)'
         /\ (t = e /\ op[e] = "enable" /\ StoresDone(e)) \/ Finished(e)' = Finished(e)
         /\ \/ UNCHANGED autoIncrements
            \/ /\ Filling(e)
               /\ \A j \in Slots : j # slot[e] => canAutoIncrement'[j] = canAutoIncrement[j]
<1>1. TypeOK /\ EnableOf(t) /\ EntriesOf(e)
  BY DEF EnableInv, EntriesOf
<1>2. ASSUME UNCHANGED autoIncrements PROVE CountersStay
  BY <1>2 DEF CountersStay, CounterIn, autoIncrements
<1>3. CASE t # e
  <2>1. op[t] # "enable"
    BY <1>1, <1>3 DEF Enables, EnableOf
  <2>2. EnableOf(t)' /\ wpc' = wpc /\ UNCHANGED autoIncrements
    BY <1>1, <2>1, EnableOfEntry, TableCallStep
  <2>3. LocalsStay(e)
    BY <1>1, <1>3, OthersStay
  <2> QED BY <1>1, <1>2, <2>2, <2>3, <1>3, EntriesStay DEF LocalsStay, StaysPut
<1>4. CASE t = e /\ CallerEntry(e)
  BY <1>1, <1>2, <1>4, EnableOfEntry, EntriesStay
<1>5. CASE t = e /\ CallerStep(e) /\ op[e] # "enable"
  <2>1. EnableOf(e)' /\ wpc' = wpc /\ UNCHANGED autoIncrements /\ op'[e] # "enable"
    BY <1>1, <1>5, TableCallStep
  <2>2. ~ Filling(e) /\ ~ Filling(e)'
    BY <1>5, <2>1 DEF Filling
  <2> QED BY <1>1, <1>2, <1>5, <2>1, <2>2, EntriesStay
<1>6. CASE t = e /\ CallerStep(e) /\ op[e] = "enable"
  <2>1. EnableOf(e)' /\ wpc' = wpc
    BY <1>1, <1>6, EnableSteps
  <2>2. CASE EnableNoRoom(e)
    <3>1. ~ Filling(e) /\ ~ Filling(e)' /\ UNCHANGED autoIncrements
      BY <2>2 DEF EnableNoRoom, Return, Go, Filling, EnableInv, TypeOK, statics
    <3> QED BY <1>1, <1>2, <1>6, <2>1, <3>1, EntriesStay
  <2>3. CASE EnableHasRoom(e)
    <3>1. UNCHANGED autoIncrements
      BY <2>3 DEF EnableHasRoom, statics
    <3> QED BY <1>6, <2>1, <2>3, <3>1, HasRoomEntries
  <2>4. CASE StoreAutoIncrement(e) \/ StoreAutoIncrementIdx(e)
    BY <1>6, <2>1, <2>4, StoreEntries
  <2>5. CASE StoresDone(e)
    <3>1. UNCHANGED autoIncrements
      BY <2>5 DEF StoresDone
    <3> QED BY <1>6, <2>1, <2>5, <3>1, DoneEntries
  <2>6. CASE StoreField(e) \/ StoreStorageIdx(e)
    <3>1. UNCHANGED autoIncrements /\ StaysPut(e)
          /\ toPublish'[e] \cap EntryFields = toPublish[e] \cap EntryFields
          /\ ("autoIncrementIdx" \in toPublish'[e] <=> "autoIncrementIdx" \in toPublish[e])
      <4>1. UNCHANGED autoIncrements /\ StaysPut(e)
        BY <2>6 DEF StoreField, StoreStorageIdx, StaysPut
      <4>2. toPublish'[e] \in {toPublish[e], toPublish[e] \ {"storageIdx"}}
        BY <1>1, <2>6 DEF StoreField, StoreStorageIdx, TypeOK
      <4> QED BY <4>1, <4>2 DEF EntryFields
    <3> QED BY <1>1, <1>2, <1>6, <2>1, <3>1, EntriesStay
  <2> QED BY <1>1, <1>6, <2>2, <2>3, <2>4, <2>5, <2>6, EnableSteps
<1> QED BY <1>3, <1>4, <1>5, <1>6

(* Every step keeps the invariant of the enables.                           *)
LEMMA EnableStep ==
  ASSUME LoaderCallsInit, NEW e \in Callers, Enables(e), EnableInv(e), [Next]_vars
  PROVE  EnableInv(e)'
<1>1. TypeOK'
  BY TypeStep DEF EnableInv
<1>2. MAX_CAN_FRAMES_TO_STORE \in Nat \ {0}
  BY StorageAssumption DEF StorageAssumption
<1>3. CASE CyclicalInitLowLevelThread
  <2>1. \A t \in Callers : EnableOf(t)'
    BY <1>3, InitCounters DEF EnableInv, EnableOf, callerVars, pending, CounterOf
  <2> QED BY <1>1, <1>2, <1>3, <2>1, InitCounters DEF EnableInv, EntriesOf, CyclicalInitLowLevelThread
<1>4. CASE Worker \/ UNCHANGED vars
  <2>1. /\ UNCHANGED callerVars /\ CountersStay /\ (wpc = "absent" <=> wpc' = "absent")
        /\ wpc' # "modify" => wj' = 0
    BY <1>4, WorkerCounters DEF EnableInv
  <2>2. \A t \in Callers : EnableOf(t)'
    BY <2>1 DEF EnableInv, EnableOf, callerVars, pending, CounterOf
  <2>3. EntriesOf(e)'
    BY <2>1, EntriesStay DEF EnableInv, EntriesOf, StaysPut, callerVars, pending
  <2> QED BY <1>1, <2>1, <2>2, <2>3 DEF EnableInv, EntriesOf, CountersStay
<1>5. ASSUME NEW t \in Callers, CallerEntry(t) \/ CallerStep(t) PROVE EnableInv(e)'
  <2>1. EnableOf(t)' /\ wpc' = wpc /\ EntriesOf(e)'
    BY <1>5, CallerCounters
  <2>2. ASSUME NEW u \in Callers, u # t PROVE EnableOf(u)'
    <3>1. LocalsStay(u)
      BY <1>5, <2>2, OthersStay DEF EnableInv
    <3> QED BY <2>1, <3>1 DEF LocalsStay, EnableInv, EnableOf, CounterOf
  <2>3. wj' = wj
    BY <1>5, CallersLeaveWorker DEF workerVars
  <2>4. /\ autoIncrementIdx' \in -1 .. MAX_CAN_FRAMES_TO_STORE
        /\ wpc' = "absent" <=> autoIncrementIdx' = -1
    <3>1. CASE UNCHANGED autoIncrements
      BY <2>1, <3>1 DEF EnableInv, autoIncrements
    <3>2. CASE Filling(e)
      <4>1. wpc # "absent"
        BY <3>2 DEF EnableInv, EnableOf, Filling
      <4>2. autoIncrementIdx' \in 0 .. MAX_CAN_FRAMES_TO_STORE
        <5>1. CASE Filling(e)'
          <6>1. slot'[e] \in Slots /\ (autoIncrementIdx' = slot'[e] \/ autoIncrementIdx' = slot'[e] + 1)
            BY <2>1, <5>1 DEF EntriesOf, FillingOf
          <6> QED BY <1>2, <6>1 DEF Slots
        <5>2. CASE ~ Filling(e)'
          <6>1. CASE t = e
            <7>1. op[e] = "enable" /\ pc[e] = "store"
              BY <3>2 DEF Filling
            <7>2. ~ StoreAutoIncrementIdx(e)
              BY <5>2, <7>1 DEF StoreAutoIncrementIdx, Filling
            <7>3. ~ CallerEntry(e)
              BY <7>1 DEF CallerEntry, SendCyclicallyAdd, SendCyclicallyRemove, SendCyclicallyAdopt,
                 RemoveCyclicalAll, EnableCyclicallyAutoIncrement, Call, Go
            <7>4. autoIncrementIdx' = autoIncrementIdx
              BY <1>5, <6>1, <7>1, <7>2, <7>3, EnableSteps
              DEF EnableInv, EnableNoRoom, EnableHasRoom, StoreAutoIncrement, StoresDone, StoreField,
                  StoreStorageIdx, Go, Return, autoIncrements
            <7> QED BY <1>2, <4>1, <7>4 DEF EnableInv
          <6>2. CASE t # e
            BY <1>5, <3>2, <5>2, <6>2, OthersStay DEF EnableInv, LocalsStay, Filling
          <6> QED BY <6>1, <6>2
        <5> QED BY <5>1, <5>2
      <4> QED BY <1>2, <2>1, <4>1, <4>2
    <3> QED BY <1>5, <3>1, <3>2, CallerCounters
  <2> QED BY <1>1, <2>1, <2>2, <2>3, <2>4 DEF EnableInv, EntriesOf
<1> QED BY <1>3, <1>4, <1>5 DEF Next

(* The last entry of a counter stays the last one, unless the counter is    *)
(* being enabled once more.                                                 *)
LEMMA TopStays ==
  ASSUME LoaderCallsInit, NEW e \in Callers, Enables(e), EnableInv(e), [Next]_vars,
         NEW c \in Counters, NEW j \in Slots, Top(e, c, j), ~ (Filling(e) /\ CounterOf(e) = c)
  PROVE  Top(e, c, j)'
<1>1. CASE CyclicalInitLowLevelThread
  BY <1>1, InitCounters DEF Top
<1>2. CASE Worker \/ UNCHANGED vars
  <2>1. UNCHANGED callerVars /\ CountersStay
    BY <1>2, WorkerCounters DEF EnableInv
  <2>2. Finished(e)' = Finished(e)
    BY <2>1 DEF callerVars, CountersStay, Finished, Filling
  <2> QED BY <2>1, <2>2 DEF Top, CountersStay
<1>3. ASSUME NEW t \in Callers, CallerEntry(t) \/ CallerStep(t) PROVE Top(e, c, j)'
  <2>1. CASE t = e /\ op[e] = "enable" /\ StoresDone(e)
    BY <2>1, DoneEntries DEF StoresDone, Return, Go, Filling
  <2>2. CASE Finished(e)' = Finished(e)
    <3>1. ASSUME NEW k \in Slots, k < Finished(e) PROVE CounterIn(k)' = CounterIn(k)
      <4>1. Filling(e) => k # slot[e]
        BY <3>1 DEF Finished, Slots
      <4>2. canAutoIncrement'[k] = canAutoIncrement[k]
        BY <1>3, <4>1, CallerCounters DEF autoIncrements
      <4> QED BY <4>2 DEF CounterIn
    <3> QED BY <2>2, <3>1 DEF Top
  <2> QED BY <1>3, <2>1, <2>2, CallerCounters
<1> QED BY <1>1, <1>2, <1>3 DEF Next

-----------------------------------------------------------------------------
(* What the last frame tells of the last entry of a counter: its value is   *)
(* the byte sent last, or the next one once the worker has passed it with a *)
(* frame that it drives.                                                    *)
Passed(c, j) == wpc = "modify" /\ wj > j /\ Drives(c, frameToSend.canid)
Agrees(c, j) ==
  /\ Passed(c, j) => frameToSend[WordOf(c.bytePos)] = canAutoIncrement[j].value
  /\ lastByte[c] # Counting =>
       canAutoIncrement[j].value =
         IF Passed(c, j) THEN (lastByte[c] + 1) % ByteMod ELSE lastByte[c]
LastInv(e) == \A c \in Counters :
  WordOf(c.bytePos) \in Words /\ lastByte[c] # NotCounting
    => \E j \in Slots : Top(e, c, j) /\ Agrees(c, j)

(* No thread but the one that enables has e's counters in hand.             *)
LEMMA FillingIsEnabling ==
  ASSUME NEW e \in Callers, NEW c \in Counters, Filling(e), CounterOf(e) = c
  PROVE  BeingEnabled(c)
BY DEF Filling, CounterOf, BeingEnabled

(* Every entry in use is finished, or is the one e fills.                   *)
LEMMA InUse ==
  ASSUME NEW e \in Callers, EnableInv(e), NEW j \in Slots, j < autoIncrementIdx
  PROVE  j < Finished(e) \/ (Filling(e) /\ j = slot[e])
<1>1. CASE ~ Filling(e)
  BY <1>1 DEF Finished
<1>2. CASE Filling(e)
  <2>1. PICK s \in Slots : s = slot[e]
    BY <1>2 DEF EnableInv, FillingOf
  <2>2. autoIncrementIdx = s \/ autoIncrementIdx = s + 1
    BY <1>2, <2>1 DEF EnableInv, FillingOf
  <2>3. j < s \/ j = s
    BY <2>2 DEF Slots
  <2> QED BY <1>2, <2>1, <2>3 DEF Finished
<1> QED BY <1>1, <1>2

(* Finished entries are in use.                                             *)
LEMMA FinishedInUse ==
  ASSUME NEW e \in Callers, EnableInv(e)
  PROVE  Finished(e) <= autoIncrementIdx /\ Finished(e) \in Int
<1>1. autoIncrementIdx \in Int
  BY DEF EnableInv, TypeOK
<1>2. CASE ~ Filling(e)
  BY <1>1, <1>2 DEF Finished
<1>3. CASE Filling(e)
  <2>1. slot[e] \in Slots /\ (autoIncrementIdx = slot[e] \/ autoIncrementIdx = slot[e] + 1)
    BY <1>3 DEF EnableInv, FillingOf
  <2> QED BY <1>3, <2>1 DEF Finished, Slots
<1> QED BY <1>2, <1>3

(* So the worker's loop comes to the last entry of a counter.               *)
LEMMA TopInUse ==
  ASSUME NEW e \in Callers, EnableInv(e), NEW c \in Counters, NEW j \in Slots, Top(e, c, j)
  PROVE  j < Finished(e) /\ j < autoIncrementIdx /\ j \in Nat /\ autoIncrementIdx \in Int /\ wj \in Nat
<1>1. j < Finished(e) /\ j \in Nat
  BY DEF Top, Slots
<1>2. autoIncrementIdx \in Int /\ wj \in Nat
  BY DEF EnableInv, TypeOK
<1> QED BY <1>1, <1>2, FinishedInUse

(* An entry in use that drives the byte of a counter is an entry of it.     *)
LEMMA DriversAreOwn ==
  ASSUME NEW e \in Callers, EnableInv(e), HalfEnabledDriveNoOther,
         NEW c \in Counters, WordOf(c.bytePos) \in Words, ~ (Filling(e) /\ CounterOf(e) = c),
         NEW j \in Slots, j < autoIncrementIdx,
         CounterIn(j).canid = c.canid, WordOf(CounterIn(j).bytePos) = WordOf(c.bytePos)
  PROVE  j < Finished(e) /\ CounterIn(j) = c
<1>1. CASE j < Finished(e)
  <2>1. CounterIn(j) \in Counters
    BY <1>1 DEF EnableInv, CountersOf
  <2> QED BY <1>1, <2>1, FramesAssumption DEF FramesAssumption
<1>2. CASE Filling(e) /\ j = slot[e]
  <2>1. CounterOf(e) \in Counters /\ CounterIn(j) \in HalfEnabled(CounterOf(e))
    BY <1>2 DEF EnableInv, EnableOf, FillingOf, Filling
  <2>2. CounterOf(e) # c
    BY <1>2
  <2> QED BY <2>1, <2>2 DEF HalfEnabledDriveNoOther
<1> QED BY <1>1, <1>2, InUse

(* A counter in place has a last entry.                                     *)
LEMMA InPlaceHasTop ==
  ASSUME NEW e \in Callers, EnableInv(e), HalfEnabledDriveNoOther,
         NEW c \in Counters, WordOf(c.bytePos) \in Words, ~ (Filling(e) /\ CounterOf(e) = c),
         InPlace(c)
  PROVE  \E j \in Slots : Top(e, c, j)
<1>1. PICK j \in Slots : /\ j < autoIncrementIdx
                         /\ CounterIn(j).canid = c.canid /\ CounterIn(j).bytePos = c.bytePos
  BY DEF InPlace, CounterIn
<1>2. j < Finished(e) /\ CounterIn(j) = c
  BY <1>1, DriversAreOwn
<1> QED BY <1>2 DEF EnableInv, TopOf

(* One turn of the worker's loop over the counters.                         *)
LEMMA ModifyAgrees ==
  ASSUME NEW e \in Callers, EnableInv(e), HalfEnabledDriveNoOther,
         NEW c \in Counters, WordOf(c.bytePos) \in Words, ~ (Filling(e) /\ CounterOf(e) = c),
         NEW j \in Slots, Top(e, c, j), Agrees(c, j), WorkerModify, lastByte'[c] = lastByte[c]
  PROVE  Agrees(c, j)'
<1>1. wpc = "modify" /\ wpc' = "modify" /\ wj < autoIncrementIdx /\ wj' = wj + 1 /\ wj \in Nat
  <2>1. wpc = "modify" /\ wpc' = wpc /\ wj < autoIncrementIdx /\ wj' = wj + 1
    BY Zenon DEF WorkerModify
  <2> QED BY <2>1 DEF EnableInv, TypeOK
<1>2. autoIncrementIdx \in -1 .. MAX_CAN_FRAMES_TO_STORE /\ MAX_CAN_FRAMES_TO_STORE \in Nat
  BY StorageAssumption DEF EnableInv, StorageAssumption
<1>3. PICK k \in Slots : k = wj
  BY <1>1, <1>2 DEF Slots
<1>4. j \in Nat
  BY DEF Slots
<1>5. CounterIn(j) = c /\ j < Finished(e)
  BY DEF Top
<1>6. CounterAt(k) = canAutoIncrement[k] /\ canAutoIncrement[k] \in AutoIncrement
  BY DEF CounterAt, EnableInv, TypeOK
<1>7. CASE ~ Drives(CounterAt(k), frameToSend.canid)
  <2>1. UNCHANGED <<canAutoIncrement, frameToSend>>
    BY <1>3, <1>7 DEF WorkerModify
  <2>2. ~ (k = j /\ Drives(c, frameToSend.canid))
    BY <1>5, <1>6, <1>7 DEF Drives, CounterIn
  <2>3. Passed(c, j)' <=> Passed(c, j)
    BY <1>1, <1>3, <1>4, <2>1, <2>2 DEF Passed
  <2> QED BY <2>1, <2>3 DEF Agrees
<1>8. CASE Drives(CounterAt(k), frameToSend.canid)
  <2>1. PICK next : /\ next = (canAutoIncrement[k].value + 1) % ByteMod
                    /\ canAutoIncrement' = [canAutoIncrement EXCEPT ![k].value = next]
                    /\ frameToSend' = [frameToSend EXCEPT ![WordOf(canAutoIncrement[k].bytePos)] = next]
    BY <1>3, <1>6, <1>8 DEF WorkerModify
  <2>2. WordOf(canAutoIncrement[k].bytePos) \in Words
    BY <1>6, <1>8 DEF Drives
  <2>3. frameToSend \in StoredFrame
    BY DEF EnableInv, TypeOK
  <2>4. frameToSend'.canid = frameToSend.canid
    BY <2>1, <2>2, <2>3 DEF StoredFrame, Words
  <2>5. frameToSend'[WordOf(c.bytePos)] =
          IF WordOf(c.bytePos) = WordOf(canAutoIncrement[k].bytePos) THEN next
          ELSE frameToSend[WordOf(c.bytePos)]
    BY <2>1, <2>2, <2>3 DEF StoredFrame, Words
  <2>6. canAutoIncrement'[j].value = IF j = k THEN next ELSE canAutoIncrement[j].value
    BY <2>1 DEF EnableInv, TypeOK, AutoIncrement
  <2>7. CASE j = k
    <3>1. c.canid = canAutoIncrement[k].canid /\ c.bytePos = canAutoIncrement[k].bytePos
      BY <1>5, <2>7 DEF CounterIn
    <3>2. ~ Passed(c, j) /\ Passed(c, j)'
      BY <1>1, <1>3, <1>6, <1>8, <2>4, <2>7, <3>1 DEF Passed, Drives
    <3> QED BY <2>1, <2>5, <2>6, <2>7, <3>1, <3>2 DEF Agrees
  <2>8. CASE j # k
    <3>1. Passed(c, j)' <=> Passed(c, j)
      BY <1>1, <1>3, <1>4, <2>4, <2>8 DEF Passed
    <3>2. Passed(c, j) => WordOf(c.bytePos) # WordOf(canAutoIncrement[k].bytePos)
      <4> SUFFICES ASSUME Passed(c, j), WordOf(c.bytePos) = WordOf(canAutoIncrement[k].bytePos)
                   PROVE  FALSE
        OBVIOUS
      <4>1. CounterIn(k).canid = c.canid /\ WordOf(CounterIn(k).bytePos) = WordOf(c.bytePos)
        BY <1>6, <1>8 DEF CounterIn, Drives, Passed
      <4>2. k < Finished(e) /\ CounterIn(k) = c
        BY <1>1, <1>3, <4>1, DriversAreOwn
      <4>3. j < k
        BY <1>3 DEF Passed
      <4> QED BY <4>2, <4>3 DEF Top
    <3> QED BY <2>5, <2>6, <2>8, <3>1, <3>2 DEF Agrees
  <2> QED BY <2>7, <2>8
<1> QED BY <1>7, <1>8

(* What the record of the last byte says of the moment before the step.     *)
LEMMA LastByteStep ==
  ASSUME NEW c \in Counters, UpdateLastByte, lastByte'[c] # NotCounting
  PROVE  /\ ~ BeingEnabled(c) /\ InPlace(c)
         /\ lastByte'[c] =
              IF Sending
                THEN IF lastByte[c] = NotCounting THEN Counting
                     ELSE IF Drives(c, frameToSend.canid) THEN frameToSend[WordOf(c.bytePos)]
                     ELSE lastByte[c]
                ELSE lastByte[c]
<1>1. lastByte'[c] =
        CASE BeingEnabled(c) \/ ~ InPlace(c) -> NotCounting
          [] ~ BeingEnabled(c) /\ InPlace(c) /\ Sending ->
               IF lastByte[c] = NotCounting THEN Counting
               ELSE IF Drives(c, frameToSend.canid) THEN frameToSend[WordOf(c.bytePos)]
               ELSE lastByte[c]
          [] OTHER -> lastByte[c]
  BY DEF UpdateLastByte
<1>2. CASE BeingEnabled(c) \/ ~ InPlace(c)
  BY <1>1, <1>2
<1>3. CASE ~ BeingEnabled(c) /\ InPlace(c) /\ Sending
  BY <1>1, <1>3
<1>4. CASE ~ BeingEnabled(c) /\ InPlace(c) /\ ~ Sending
  BY <1>1, <1>4
<1> QED BY <1>2, <1>3, <1>4

(* The worker sends a frame, and the record takes its byte.                 *)
LEMMA SendAgrees ==
  ASSUME NEW e \in Callers, EnableInv(e), NEW c \in Counters,
         NEW j \in Slots, Top(e, c, j), WorkerSend,
         \/ lastByte[c] = NotCounting /\ lastByte'[c] = Counting
         \/ /\ Agrees(c, j)
            /\ lastByte'[c] = IF Drives(c, frameToSend.canid) THEN frameToSend[WordOf(c.bytePos)]
                              ELSE lastByte[c]
  PROVE  Agrees(c, j)'
<1>1. /\ wpc = "modify" /\ wpc' = "check" /\ wj >= autoIncrementIdx
      /\ canAutoIncrement' = canAutoIncrement
  BY DEF WorkerSend, ReadyToSend, autoIncrements
<1>2. j < autoIncrementIdx /\ j \in Nat /\ autoIncrementIdx \in Int /\ wj \in Nat
  BY TopInUse
<1>3. ~ Passed(c, j)' /\ (Passed(c, j) <=> Drives(c, frameToSend.canid))
  BY <1>1, <1>2 DEF Passed
<1>4. CASE lastByte'[c] = Counting
  BY <1>3, <1>4 DEF Agrees
<1>5. CASE /\ Agrees(c, j)
           /\ lastByte'[c] = IF Drives(c, frameToSend.canid) THEN frameToSend[WordOf(c.bytePos)]
                              ELSE lastByte[c]
  BY <1>1, <1>3, <1>5 DEF Agrees
<1> QED BY <1>4, <1>5

(* Every other step leaves frame and counter alone.                         *)
LEMMA OtherAgrees ==
  ASSUME LoaderCallsInit, NEW e \in Callers, Enables(e), EnableInv(e), [Next]_vars,
         NEW c \in Counters, NEW j \in Slots, Top(e, c, j), Agrees(c, j),
         ~ WorkerModify, ~ Sending, lastByte'[c] = lastByte[c]
  PROVE  Agrees(c, j)'
<1>1. j < autoIncrementIdx /\ j \in Nat /\ j < Finished(e)
  BY TopInUse
<1>2. ASSUME canAutoIncrement'[j] = canAutoIncrement[j], Passed(c, j)' <=> Passed(c, j),
             Passed(c, j) => frameToSend' = frameToSend
      PROVE  Agrees(c, j)'
  BY <1>2 DEF Agrees
<1>3. CASE CyclicalInitLowLevelThread
  BY <1>1, <1>3 DEF CyclicalInitLowLevelThread, EnableInv
<1>4. CASE Worker \/ UNCHANGED vars
  <2>1. canAutoIncrement' = canAutoIncrement
    BY <1>4 DEF Worker, WorkerLook, WorkerSkip, WorkerSee, WorkerSync, WorkerCopyField, WorkerCopied,
       WorkerSend, WorkerEndCycle, WorkerWake, statics, vars, autoIncrements
  <2>2. CASE wpc = "modify"
    <3>1. UNCHANGED <<wpc, wj, frameToSend>>
      BY <1>4, <2>2 DEF Worker, WorkerLook, WorkerSkip, WorkerSee, WorkerSync, WorkerCopyField, WorkerCopied,
         WorkerSend, WorkerEndCycle, WorkerWake, WorkerGo, Sending, vars, workerVars
    <3> QED BY <1>2, <2>1, <3>1 DEF Passed
  <2>3. CASE wpc # "modify"
    <3>1. wj' = 0 \/ wpc' # "modify"
      BY <1>4, <2>3 DEF Worker, WorkerLook, WorkerSkip, WorkerSee, WorkerSync, WorkerCopyField, WorkerCopied,
         WorkerSend, WorkerEndCycle, WorkerWake, WorkerGo, ReadyToSend, vars, workerVars, EnableInv
    <3> QED BY <1>1, <1>2, <2>1, <2>3, <3>1 DEF Passed
  <2> QED BY <2>2, <2>3
<1>5. ASSUME NEW t \in Callers, CallerEntry(t) \/ CallerStep(t) PROVE Agrees(c, j)'
  <2>1. UNCHANGED <<wpc, wj, frameToSend>>
    BY <1>5, CallersLeaveWorker DEF workerVars
  <2>2. Filling(e) => j # slot[e]
    BY <1>1 DEF Finished
  <2>3. canAutoIncrement'[j] = canAutoIncrement[j]
    BY <1>5, <2>2, CallerCounters DEF autoIncrements
  <2> QED BY <1>2, <2>1, <2>3 DEF Passed
<1> QED BY <1>3, <1>4, <1>5 DEF Next

(* Every step keeps what the last frame tells of the counters.              *)
LEMMA LastStep ==
  ASSUME LoaderCallsInit, HalfEnabledDriveNoOther,
         NEW e \in Callers, Enables(e), EnableInv(e), LastInv(e), [HNext]_<<vars, history>>
  PROVE  LastInv(e)'
<1>1. [Next]_vars
  BY DEF HNext, vars
<1> SUFFICES ASSUME NEW c \in Counters, WordOf(c.bytePos) \in Words, lastByte'[c] # NotCounting
             PROVE  \E j \in Slots : Top(e, c, j)' /\ Agrees(c, j)'
  BY DEF LastInv
<1>2. CASE UNCHANGED <<vars, history>>
  <2>1. PICK j \in Slots : Top(e, c, j) /\ Agrees(c, j)
    BY <1>2 DEF LastInv, history
  <2>2. Top(e, c, j)' /\ Agrees(c, j)'
    BY <1>2, <2>1 DEF Top, Agrees, Passed, Finished, Filling, CounterIn, vars, statics, history,
                      autoIncrements, workerVars, callerVars
  <2> QED BY <2>2
<1>3. CASE HNext
  <2>1. UpdateLastByte
    BY <1>3 DEF HNext
  <2>2. ~ BeingEnabled(c) /\ InPlace(c)
    BY <2>1, LastByteStep
  <2>3. ~ (Filling(e) /\ CounterOf(e) = c)
    BY <2>2, FillingIsEnabling
  <2>4. ASSUME NEW j \in Slots, Top(e, c, j) PROVE Top(e, c, j)'
    BY <1>1, <2>3, <2>4, TopStays
  <2>5. CASE Sending
    <3>1. WorkerSend
      BY <1>3, <2>5, OnlySendSends DEF HNext, EnableInv
    <3>2. CASE lastByte[c] = NotCounting
      <4>1. PICK j \in Slots : Top(e, c, j)
        BY <2>2, <2>3, InPlaceHasTop
      <4>2. lastByte'[c] = Counting
        BY <2>1, <2>5, <3>2, LastByteStep
      <4> QED BY <2>4, <3>1, <3>2, <4>1, <4>2, SendAgrees
    <3>3. CASE lastByte[c] # NotCounting
      <4>1. PICK j \in Slots : Top(e, c, j) /\ Agrees(c, j)
        BY <3>3 DEF LastInv
      <4>2. lastByte'[c] = IF Drives(c, frameToSend.canid) THEN frameToSend[WordOf(c.bytePos)]
                           ELSE lastByte[c]
        BY <2>1, <2>5, <3>3, LastByteStep
      <4> QED BY <2>4, <3>1, <4>1, <4>2, SendAgrees
    <3> QED BY <3>2, <3>3
  <2>6. CASE ~ Sending
    <3>1. lastByte'[c] = lastByte[c]
      BY <2>1, <2>6, LastByteStep
    <3>2. PICK j \in Slots : Top(e, c, j) /\ Agrees(c, j)
      BY <3>1 DEF LastInv
    <3>3. CASE WorkerModify
      BY <2>3, <2>4, <3>1, <3>2, <3>3, ModifyAgrees
    <3>4. CASE ~ WorkerModify
      BY <1>1, <2>4, <2>6, <3>1, <3>2, <3>4, OtherAgrees
    <3> QED BY <3>3, <3>4
  <2> QED BY <2>5, <2>6
<1> QED BY <1>2, <1>3

(* So the frame about to be sent has the next value.                        *)
LEMMA LastImplies ==
  ASSUME NEW e \in Callers, EnableInv(e), LastInv(e)
  PROVE  CounterAdvances
<1> SUFFICES ASSUME ReadyToSend, NEW c \in Counters, Drives(c, frameToSend.canid),
                    lastByte[c] \notin {NotCounting, Counting}
             PROVE  frameToSend[WordOf(c.bytePos)] = (lastByte[c] + 1) % ByteMod
  BY DEF CounterAdvances
<1>1. PICK j \in Slots : Top(e, c, j) /\ Agrees(c, j)
  BY DEF LastInv, Drives
<1>2. j < autoIncrementIdx /\ j \in Nat /\ autoIncrementIdx \in Int /\ wj \in Nat
  BY <1>1, TopInUse
<1>3. Passed(c, j)
  BY <1>2 DEF Passed, ReadyToSend
<1> QED BY <1>1, <1>3 DEF Agrees

(* With one thread that enables counters, none of which drives the byte of  *)
(* another while it is half enabled, a counter's byte goes up by one from   *)
(* each frame to the next: whoever adds, removes or adopts frames meanwhile, *)
(* and also when the counter is enabled again (cyclical_send_task.cpp:83-131). *)
THEOREM CountersAlwaysAdvance ==
  ASSUME LoaderCallsInit, \E e \in Callers : Enables(e), HalfEnabledDriveNoOther
  PROVE  HSpec => []CounterAdvances
<1>1. PICK e \in Callers : Enables(e)
  OBVIOUS
<1>2. HInit => EnableInv(e) /\ LastInv(e)
  BY EnableInit DEF HInit, LastInv
<1>3. EnableInv(e) /\ [HNext]_<<vars, history>> => EnableInv(e)'
  BY <1>1, EnableStep DEF HNext, vars
<1>4. EnableInv(e) /\ LastInv(e) /\ [HNext]_<<vars, history>> => LastInv(e)'
  BY <1>1, LastStep
<1>5. EnableInv(e) /\ LastInv(e) => CounterAdvances
  BY LastImplies
<1> QED BY <1>2, <1>3, <1>4, <1>5, PTL DEF HSpec
=============================================================================
