--------------------------- MODULE CyclicTableProof --------------------------
(***************************************************************************)
(* CyclicSendTask implements FrameTable: next to threads that only enable  *)
(* counters, the calls of one thread change the table as atomic operations *)
(* would, and their answers are true.  The frames of FrameTable are those the *)
(* table holds once the stores under way are done (FramesInTable), so that a *)
(* call takes effect at the step that decides it and its stores are stutters. *)
(***************************************************************************)
EXTENDS CyclicSendTaskProof

(* Thread w has no competitor for the table.                                *)
Lone(w) == \A t \in Callers : t # w => Calls[t] \subseteq {"enable"}

(* Nobody but w has stores to make into the table.                          *)
OnlyStores(w) == \A t \in Callers : t # w => toStore[t] = {} /\ "storageIdx" \notin toPublish[t]

(* So it holds, once they are done:                                         *)
After(w, s, field) ==
  IF <<s, field>> \in toStore[w] THEN arg[w].f[field] ELSE canStorage[s][field]
AfterIdx(w) ==
  IF "storageIdx" \in toPublish[w] THEN IF op[w] = "add" THEN slot[w] + 1 ELSE 0 ELSE storageIdx
Row(w, s) == [field \in Fields |-> After(w, s, field)]
Rows(w) == {Row(w, s) : s \in {s \in Slots : s < AfterIdx(w) /\ Row(w, s).canid # 0}}

(* A set of one element leaves CHOOSE no choice.                            *)
LEMMA ChosenOne == ASSUME NEW S, NEW x \in S, \A y \in S : y = x PROVE (CHOOSE y \in S : TRUE) = x
OBVIOUS

(* What the other threads would still store is nothing, so that the table   *)
(* the abstract specification sees is the one w leaves.                     *)
SettledIsAfter == \A w \in Callers : OnlyStores(w) =>
  FramesInTable = Rows(w) /\ SettledIdx = AfterIdx(w)

(* It is: the refinement mapping in terms of one thread.                    *)
LEMMA SettledOf == SettledIsAfter
<1> SUFFICES ASSUME NEW w \in Callers, OnlyStores(w)
             PROVE  FramesInTable = Rows(w) /\ SettledIdx = AfterIdx(w)
  BY DEF SettledIsAfter
<1>1. ASSUME NEW s \in Slots, NEW field \in Fields PROVE SettledField(s, field) = After(w, s, field)
  <2> DEFINE W == {t \in Callers : <<s, field>> \in toStore[t]}
  <2>1. SettledField(s, field) =
          IF W = {} THEN canStorage[s][field] ELSE arg[CHOOSE t \in W : TRUE].f[field]
    BY DEF SettledField
  <2>2. \A t \in W : t = w
    BY DEF OnlyStores
  <2>3. CASE w \in W
    <3>1. (CHOOSE t \in W : TRUE) = w
      <4> HIDE DEF W
      <4> QED BY <2>2, <2>3, ChosenOne
    <3> QED BY <2>1, <2>3, <3>1 DEF After
  <2>4. CASE w \notin W
    <3>1. W = {}
      BY <2>2, <2>4
    <3> QED BY <2>1, <2>4, <3>1 DEF After
  <2> QED BY <2>3, <2>4
<1>2. SettledIdx = AfterIdx(w)
  <2> DEFINE W == {t \in Callers : "storageIdx" \in toPublish[t]}
             x == CHOOSE t \in W : TRUE
  <2>1. SettledIdx = IF W = {} THEN storageIdx ELSE IF op[x] = "add" THEN slot[x] + 1 ELSE 0
    BY DEF SettledIdx
  <2>2. \A t \in W : t = w
    BY DEF OnlyStores
  <2>3. CASE w \in W
    <3>1. x = w
      <4> HIDE DEF W
      <4> QED BY <2>2, <2>3, ChosenOne
    <3> QED BY <2>1, <2>3, <3>1 DEF AfterIdx
  <2>4. CASE w \notin W
    <3>1. W = {}
      BY <2>2, <2>4
    <3> QED BY <2>1, <2>4, <3>1 DEF AfterIdx
  <2> QED BY <2>3, <2>4
<1>3. \A s \in Slots : Settled(s) = Row(w, s)
  BY <1>1 DEF Settled, Row
<1> QED BY <1>2, <1>3 DEF FramesInTable, Rows

(* A frame in a slot is the record of its fields.                           *)
LEMMA FieldsMakeFrame == ASSUME NEW f \in StoredFrame PROVE [field \in Fields |-> f[field]] = f
BY DEF StoredFrame, Fields, Words

-----------------------------------------------------------------------------
(* What the one writer knows of the table while it searches, and while it   *)
(* holds the slot it has found; the frames in the table are ones that a     *)
(* caller added, with data of any origin.                                   *)
WriterOf(w) ==
  /\ pc[w] = "scan" => \A s \in Slots : s < i[w] => canStorage[s].canid # arg[w].f.canid
  /\ pc[w] = "ignore" =>
       slot[w] \in Slots /\ slot[w] < storageIdx /\ canStorage[slot[w]].canid = arg[w].f.canid
  /\ op[w] = "add" /\ pc[w] # "store" => arg[w].f \in StorableFrames

EnablersStoreNothing == \A t \in Callers : op[t] = "enable" => toStore[t] = {}

WriterInv(w) ==
  /\ TableInv
  /\ wpc = "absent" => storageIdx <= 0
  /\ EnablersStoreNothing
  /\ WriterOf(w)
  /\ FramesInTable \subseteq StorableFrames

(* A thread that is alone with the table is alone with stores to it.        *)
LoneIsOnly == \A w \in Callers : Lone(w) /\ TableInv /\ EnablersStoreNothing => OnlyStores(w)

(* For the others are in an enable or in no call.                           *)
LEMMA LoneStores == LoneIsOnly
<1> SUFFICES ASSUME NEW w \in Callers, Lone(w), TableInv, EnablersStoreNothing, NEW t \in Callers, t # w
             PROVE  toStore[t] = {} /\ "storageIdx" \notin toPublish[t]
  BY DEF OnlyStores, LoneIsOnly
<1>1. ControlOf(t)
  BY DEF TableInv
<1>2. op[t] \in {"enable", "none"}
  BY <1>1 DEF Lone, ControlOf
<1> QED BY <1>1, <1>2 DEF ControlOf, EnablersStoreNothing

(* One writer is at most one thread that adds or empties.                   *)
LEMMA OneWriterShapes == ASSUME NEW w \in Callers, Lone(w) PROVE OneShaper
BY DEF Lone, OneShaper

(* The table begins empty, and nobody writes to it.                         *)
LEMMA WriterInit == ASSUME NEW w \in Callers, Init PROVE WriterInv(w)
<1>1. TableInv
  BY TableInit
<1>2. storageIdx = -1 /\ WriterOf(w) /\ OnlyStores(w) /\ \A t \in Callers : op[t] = "none"
  BY DEF Init, WriterOf, OnlyStores
<1>3. AfterIdx(w) = -1 /\ Rows(w) = {}
  BY DEF Init, AfterIdx, Rows, Slots
<1>4. FramesInTable = {}
  BY <1>2, <1>3, SettledOf DEF SettledIsAfter
<1> QED BY <1>1, <1>2, <1>4 DEF WriterInv, EnablersStoreNothing

-----------------------------------------------------------------------------
(* Most steps change nothing of what the table will hold.                   *)
Silent(w) ==
  /\ \A s \in Slots, field \in Fields : After(w, s, field)' = After(w, s, field)
  /\ AfterIdx(w)' = AfterIdx(w)

(* Then the frames stay what they are.                                      *)
LEMMA SilentRows == ASSUME NEW w \in Callers, Silent(w) PROVE Rows(w)' = Rows(w)
<1>1. \A s \in Slots : Row(w, s)' = Row(w, s)
  BY DEF Silent, Row
<1> QED BY <1>1 DEF Silent, Rows

(* The four calls by which the writer changes it.                           *)
Decides(w) == RemoveCyclicalAll(w) \/ AddClaim(w) \/ RemoveFound(w) \/ AdoptRaiseFlag(w)

(* The writer at any other step but its stores.                             *)
LEMMA WriterIsSilent ==
  ASSUME TypeOK, NEW w \in Callers, ControlOf(w), CallerEntry(w) \/ CallerStep(w),
         ~ Decides(w), ~ StoreField(w), ~ StoreStorageIdx(w)
  PROVE  Silent(w)
<1> USE DEF TypeOK, Silent, After, AfterIdx, Go, Return, Call, NothingToStore, pending, statics,
            table, ControlOf, Decides
<1>1. CASE CallerEntry(w)
  BY <1>1 DEF CallerEntry, SendCyclicallyAdd, SendCyclicallyRemove, SendCyclicallyAdopt,
              EnableCyclicallyAutoIncrement
<1>2. CASE TestCycleTime(w) \/ SetCycleTime(w) \/ ScanNext(w) \/ AddExists(w) \/ AddIsNew(w)
           \/ AddNoRoom(w) \/ AddHasRoom(w)
  BY <1>2 DEF TestCycleTime, SetCycleTime, ScanNext, Scanning, AddExists, AddIsNew, AddNoRoom,
              AddHasRoom
<1>3. CASE NotFound(w) \/ AdoptFound(w) \/ EnableNoRoom(w)
  BY <1>3 DEF NotFound, AdoptFound, EnableNoRoom, Hit, Scanning
<1>6. CASE EnableHasRoom(w)
  <2>1. pc[w] = "autoRoom" /\ UNCHANGED <<toStore, canStorage, storageIdx>>
        /\ "storageIdx" \notin toPublish'[w]
    BY <1>6 DEF EnableHasRoom, EntryFields
  <2> QED BY <2>1
<1>4. CASE IgnoreCounter(w)
  <2>1. pc[w] = "ignore" /\ UNCHANGED <<toStore, toPublish, canStorage, storageIdx>>
    BY <1>4, Zenon DEF IgnoreCounter
  <2> QED BY <2>1
<1>5. CASE StoreAutoIncrement(w) \/ StoreAutoIncrementIdx(w) \/ StoresDone(w)
  BY <1>5 DEF StoreAutoIncrement, StoreAutoIncrementIdx, StoresDone, EntryFields
<1> QED BY <1>1, <1>2, <1>3, <1>4, <1>5, <1>6 DEF CallerStep

(* What is stored was decided before.                                       *)
LEMMA StoringIsSilent ==
  ASSUME TableInv, NEW w \in Callers, StoreField(w) \/ StoreStorageIdx(w)
  PROVE  Silent(w)
<1>1. CASE StoreField(w)
  <2>1. PICK s0 \in Slots, f0 \in Fields :
          /\ <<s0, f0>> \in toStore[w]
          /\ canStorage' = [canStorage EXCEPT ![s0][f0] = arg[w].f[f0]]
          /\ toStore' = [toStore EXCEPT ![w] = @ \ {<<s0, f0>>}]
    BY <1>1 DEF StoreField
  <2>2. canStorage \in [Slots -> StoredFrame] /\ toStore \in [Callers -> SUBSET (Slots \X Fields)]
    BY DEF TableInv, TypeOK
  <2>3. \A s \in Slots, field \in Fields : canStorage'[s][field] =
          IF s = s0 /\ field = f0 THEN arg[w].f[f0] ELSE canStorage[s][field]
    BY <2>1, <2>2 DEF StoredFrame, Fields, Words
  <2>4. toStore'[w] = toStore[w] \ {<<s0, f0>>} /\ UNCHANGED <<storageIdx, toPublish, op, slot, arg>>
    BY <1>1, <2>1, <2>2 DEF StoreField
  <2> QED BY <2>1, <2>3, <2>4 DEF Silent, After, AfterIdx
<1>2. CASE StoreStorageIdx(w)
  <2>1. /\ pc[w] = "store" /\ "storageIdx" \in toPublish[w] /\ "storageIdx" \notin toPublish'[w]
        /\ UNCHANGED <<canStorage, op, slot, arg, toStore>>
        /\ IF op[w] = "add" THEN storageIdx' \in {slot[w] + 1, storageIdx + 1} ELSE storageIdx' = 0
    BY <1>2 DEF StoreStorageIdx, TableInv, TypeOK
  <2>2. op[w] = "add" => storageIdx = slot[w]
    BY <2>1 DEF TableInv, IndexOf
  <2> QED BY <2>1, <2>2 DEF Silent, After, AfterIdx
<1> QED BY <1>1, <1>2

(* Threads that enable counters, and the worker, do not matter.             *)
LEMMA OthersAreSilent ==
  ASSUME NEW w \in Callers, Lone(w), WriterInv(w), NEW t \in Callers, t # w,
         CallerEntry(t) \/ CallerStep(t)
  PROVE  Silent(w) /\ UNCHANGED table
<1>1. LocalsStay(w)
  BY OthersStay DEF WriterInv, TableInv
<1>2. toStore[t] = {} /\ "storageIdx" \notin toPublish[t]
  BY LoneStores DEF LoneIsOnly, OnlyStores, WriterInv
<1>3. UNCHANGED table
  BY <1>2 DEF CallerEntry, SendCyclicallyAdd, SendCyclicallyRemove, SendCyclicallyAdopt,
         RemoveCyclicalAll, EnableCyclicallyAutoIncrement, Call, CallerStep, TestCycleTime,
         SetCycleTime, ScanNext, AddExists, AddIsNew, AddNoRoom, AddHasRoom, AddClaim, RemoveFound,
         NotFound, AdoptFound, IgnoreCounter, AdoptRaiseFlag, EnableNoRoom, EnableHasRoom,
         StoreField, StoreStorageIdx, StoreAutoIncrement, StoreAutoIncrementIdx, StoresDone, statics
<1> QED BY <1>1, <1>3 DEF Silent, After, AfterIdx, LocalsStay, table

-----------------------------------------------------------------------------
(* The four steps that decide what the table will hold.                     *)

(* Outside of its stores a thread has none left to do.                      *)
LEMMA NothingPending ==
  ASSUME NEW w \in Callers, WriterInv(w), pc[w] # "store"
  PROVE  /\ toStore[w] = {} /\ toPublish[w] = {} /\ AfterIdx(w) = storageIdx
         /\ \A s \in Slots : Row(w, s) = canStorage[s]
<1>1. toStore[w] = {} /\ toPublish[w] = {}
  BY DEF WriterInv, TableInv, ControlOf
<1>2. \A s \in Slots : canStorage[s] \in StoredFrame
  BY DEF WriterInv, TableInv, TypeOK
<1>3. ASSUME NEW s \in Slots PROVE Row(w, s) = canStorage[s]
  <2>1. Row(w, s) = [field \in Fields |-> canStorage[s][field]]
    BY <1>1 DEF Row, After
  <2> QED BY <1>2, <2>1, FieldsMakeFrame
<1> QED BY <1>1, <1>3 DEF AfterIdx

(* The identifiers of a set of frames.                                      *)
IdsIn(rows) == {f.canid : f \in rows}

(* removeAll empties the table at once, and stores later.                   *)
LEMMA ClearsRows ==
  ASSUME NEW w \in Callers, TypeOK, RemoveCyclicalAll(w)
  PROVE  Rows(w)' = {} /\ AfterIdx(w)' = 0
<1>1. /\ toStore'[w] = Slots \X Fields /\ toPublish'[w] = {"storageIdx"}
      /\ op'[w] = "removeAll" /\ arg'[w] = NoArg
  BY DEF RemoveCyclicalAll, Call, TypeOK
<1>2. AfterIdx(w)' = 0
  BY <1>1 DEF AfterIdx
<1>3. \A s \in Slots : s >= 0
  BY DEF Slots
<1> QED BY <1>2, <1>3 DEF Rows, Slots

(* An add puts its frame into the table when it claims the slot.            *)
LEMMA ClaimAddsRow ==
  ASSUME NEW w \in Callers, WriterInv(w), AddClaim(w)
  PROVE  /\ AfterIdx(w) \in Slots /\ AfterIdx(w)' = AfterIdx(w) + 1
         /\ arg[w].f \in StorableFrames
         /\ arg[w].f.canid = 0 => Rows(w)' = Rows(w)
         /\ arg[w].f.canid # 0 => /\ arg[w].f.canid \notin IdsIn(Rows(w))
                                  /\ Rows(w)' = Rows(w) \cup {arg[w].f}
<1>0. PICK new \in Slots, f \in StoredFrame : new = slot[w] /\ f = arg[w].f
  BY DEF AddClaim, Go, WriterInv, TableInv, IndexOf, TypeOK
<1>1. /\ pc[w] = "claim" /\ op[w] = "add" /\ new = storageIdx
      /\ f \in StorableFrames
  BY <1>0 DEF AddClaim, Go, WriterInv, WriterOf, TableInv, ControlOf, IndexOf
<1>2. /\ toStore'[w] = {new} \X Fields /\ toPublish'[w] = {"storageIdx"} /\ slot'[w] = new
      /\ UNCHANGED <<canStorage, storageIdx, op, arg>>
  BY <1>0, <1>1 DEF AddClaim, WriterInv, TableInv, TypeOK, statics, table
<1>3. AfterIdx(w) = new /\ AfterIdx(w)' = new + 1
  BY <1>1, <1>2, NothingPending DEF AfterIdx
<1>4. Row(w, new)' = f
  <2>1. Row(w, new)' = [field \in Fields |-> f[field]]
    BY <1>0, <1>2 DEF Row, After
  <2> QED BY <1>1, <2>1, FieldsMakeFrame
<1>5. ASSUME NEW s \in Slots, s # new PROVE Row(w, s)' = Row(w, s)
  BY <1>1, <1>2, <1>5, NothingPending DEF Row, After
<1>6. \A s \in Slots : s < new + 1 <=> s < new \/ s = new
  BY <1>1 DEF Slots
<1>7. \A s \in Slots : s < new => s # new
  BY DEF Slots
<1>8. CASE f.canid = 0
  <2>1. Rows(w)' = Rows(w)
    BY <1>3, <1>4, <1>5, <1>6, <1>7, <1>8 DEF Rows
  <2> QED BY <1>0, <1>1, <1>3, <1>8, <2>1
<1>9. CASE f.canid # 0
  <2>1. Rows(w)' = Rows(w) \cup {f}
    <3>1. ASSUME NEW g PROVE g \in Rows(w)' <=> g = f \/ g \in Rows(w)
      BY <1>3, <1>4, <1>5, <1>6, <1>7, <1>9 DEF Rows
    <3> QED BY <3>1
  <2>2. \A s \in Slots : s < storageIdx => canStorage[s].canid # f.canid
    BY <1>0, <1>1, <1>9 DEF WriterInv, TableInv, SearchOf, IsNewTo
  <2>3. f.canid \notin IdsIn(Rows(w))
    BY <1>1, <1>3, <2>2, NothingPending DEF Rows, IdsIn
  <2> QED BY <1>0, <1>1, <1>3, <1>9, <2>1, <2>3
<1> QED BY <1>8, <1>9

(* The slot that remove or adopt has found.                                 *)
FoundAt(w, s) == s \in Slots /\ s < storageIdx /\ canStorage[s].canid = arg[w].f.canid

(* Among the frames in the table it is the only one with its identifier.    *)
LEMMA FoundIsUnique ==
  ASSUME NEW w \in Callers, WriterInv(w), pc[w] # "store", NEW s, FoundAt(w, s),
         arg[w].f.canid # 0
  PROVE  /\ Row(w, s) \in Rows(w) /\ Row(w, s).canid = arg[w].f.canid
         /\ \A r \in Slots : r # s => Row(w, r).canid # arg[w].f.canid
<1>1. \A r \in Slots : Row(w, r) = canStorage[r]
  BY NothingPending
<1>2. AfterIdx(w) = storageIdx
  BY NothingPending
<1>3. \A r \in Slots : r # s => canStorage[r].canid # arg[w].f.canid
  BY DEF FoundAt, WriterInv, TableInv, UniqueIds
<1> QED BY <1>1, <1>2, <1>3 DEF FoundAt, Rows

(* A search that hits has found a slot of the table.                        *)
LEMMA HitFinds ==
  ASSUME NEW w \in Callers, TableInv, Hit(w) PROVE pc[w] = "scan" /\ FoundAt(w, i[w])
<1>1. MAX_CAN_FRAMES_TO_STORE \in Nat
  BY StorageAssumption DEF StorageAssumption
<1>2. i[w] \in Nat /\ storageIdx \in -1 .. MAX_CAN_FRAMES_TO_STORE
  BY DEF TableInv, TypeOK
<1>3. pc[w] = "scan" /\ i[w] < storageIdx /\ At(i[w]).canid = arg[w].f.canid
  BY DEF Hit, Scanning
<1>4. i[w] \in Slots
  BY <1>1, <1>2, <1>3 DEF Slots
<1> QED BY <1>3, <1>4 DEF At, FoundAt

(* A remove takes its frame out when it has found the slot.                 *)
LEMMA RemoveTakesRow ==
  ASSUME NEW w \in Callers, WriterInv(w), RemoveFound(w)
  PROVE  /\ AfterIdx(w)' = AfterIdx(w)
         /\ arg[w].f.canid = 0 => Rows(w)' = Rows(w)
         /\ arg[w].f.canid # 0 =>
              /\ \E f \in Rows(w) : f.canid = arg[w].f.canid /\ Rows(w)' = Rows(w) \ {f}
              /\ arg[w].f.canid \notin IdsIn(Rows(w)')
<1>0. PICK s0 \in Slots, id \in Nat : s0 = i[w] /\ id = arg[w].f.canid
  BY HitFinds DEF RemoveFound, FoundAt, WriterInv, TableInv, TypeOK, StoredFrame
<1>1. pc[w] = "scan" /\ op[w] = "remove" /\ FoundAt(w, s0)
  BY <1>0, HitFinds DEF RemoveFound, WriterInv
<1>2. /\ toStore'[w] = {s0} \X Fields /\ arg'[w] = NoArg
      /\ UNCHANGED <<canStorage, storageIdx, op, toPublish>>
  BY <1>0, <1>1 DEF RemoveFound, WriterInv, TableInv, TypeOK, statics, table
<1>3. AfterIdx(w)' = AfterIdx(w)
  BY <1>1, <1>2, NothingPending DEF AfterIdx
<1>4. Row(w, s0)'.canid = 0
  BY <1>1, <1>2 DEF Row, After, NoArg, ZeroFrame, Fields, FoundAt
<1>5. ASSUME NEW s \in Slots, s # s0 PROVE Row(w, s)' = Row(w, s)
  BY <1>1, <1>2, <1>5, NothingPending DEF Row, After
<1>6. CASE id = 0
  <2>1. Row(w, s0).canid = 0
    BY <1>0, <1>1, <1>6, NothingPending DEF FoundAt
  <2>2. Rows(w)' = Rows(w)
    BY <1>3, <1>4, <1>5, <2>1 DEF Rows
  <2> QED BY <1>0, <1>3, <1>6, <2>2
<1>7. CASE id # 0
  <2>1. /\ Row(w, s0) \in Rows(w) /\ Row(w, s0).canid = id
        /\ \A r \in Slots : r # s0 => Row(w, r).canid # id
    BY <1>0, <1>1, <1>7, FoundIsUnique
  <2>2. ASSUME NEW f PROVE f \in Rows(w)' <=> f \in Rows(w) \ {Row(w, s0)}
    <3>1. f \in Rows(w)' <=> \E s \in Slots :
            s < AfterIdx(w) /\ s # s0 /\ Row(w, s).canid # 0 /\ f = Row(w, s)
      BY <1>3, <1>4, <1>5 DEF Rows
    <3>2. f \in Rows(w) <=> \E s \in Slots :
            s < AfterIdx(w) /\ Row(w, s).canid # 0 /\ f = Row(w, s)
      BY DEF Rows
    <3> QED BY <2>1, <3>1, <3>2
  <2>3. Rows(w)' = Rows(w) \ {Row(w, s0)}
    BY <2>2
  <2>4. id \notin IdsIn(Rows(w)')
    <3>1. \A f \in Rows(w)' : f.canid # id
      BY <1>3, <1>4, <1>5, <1>7, <2>1 DEF Rows
    <3> QED BY <3>1 DEF IdsIn
  <2> QED BY <1>0, <1>3, <1>7, <2>1, <2>3, <2>4
<1> QED BY <1>6, <1>7

(* f is g with other data.                                                  *)
SameButData(f, g) == /\ f \in StoredFrame /\ g \in StoredFrame
                     /\ g.head = f.head /\ g.canid = f.canid

(* An adopt changes the data when it has left the loop over the counters.   *)
LEMMA AdoptChangesRow ==
  ASSUME NEW w \in Callers, WriterInv(w), AdoptRaiseFlag(w)
  PROVE  /\ AfterIdx(w)' = AfterIdx(w)
         /\ arg[w].f.canid = 0 => Rows(w)' = Rows(w)
         /\ arg[w].f.canid # 0 => \E f \in Rows(w), g \in StoredFrame :
              /\ SameButData(f, g) /\ Rows(w)' = (Rows(w) \ {f}) \cup {g}
              /\ g.canid = arg[w].f.canid /\ g.lo = arg[w].f.lo /\ g.hi = arg[w].f.hi
<1>0. PICK s0 \in Slots, id \in Nat : s0 = slot[w] /\ id = arg[w].f.canid
  BY DEF AdoptRaiseFlag, Go, WriterInv, WriterOf, TableInv, TypeOK, StoredFrame
<1> DEFINE g == Row(w, s0)'
<1>1. pc[w] = "ignore" /\ op[w] = "adopt" /\ FoundAt(w, s0)
  BY <1>0 DEF AdoptRaiseFlag, Go, FoundAt, WriterInv, WriterOf, TableInv, ControlOf
<1>2. /\ toStore'[w] = {s0} \X Words
      /\ UNCHANGED <<canStorage, storageIdx, op, toPublish, arg>>
  BY <1>0, <1>1 DEF AdoptRaiseFlag, WriterInv, TableInv, TypeOK, table
<1>3. AfterIdx(w)' = AfterIdx(w)
  BY <1>1, <1>2, NothingPending DEF AfterIdx
<1>4. Row(w, s0) = canStorage[s0] /\ canStorage[s0] \in StoredFrame /\ arg[w].f \in StoredFrame
  BY <1>1, NothingPending DEF FoundAt, WriterInv, TableInv, TypeOK
<1>5. /\ g = [field \in Fields |->
                IF field \in Words THEN arg[w].f[field] ELSE canStorage[s0][field]]
  BY <1>1, <1>2 DEF Row, After, FoundAt
<1>6. /\ g.head = canStorage[s0].head /\ g.canid = canStorage[s0].canid
      /\ g.lo = arg[w].f.lo /\ g.hi = arg[w].f.hi
  BY <1>5 DEF Fields, Words
<1>7. SameButData(Row(w, s0), g)
  <2>1. g \in StoredFrame
    BY <1>4, <1>5 DEF StoredFrame, Fields, Words
  <2> QED BY <1>4, <1>6, <2>1 DEF SameButData
<1>8. ASSUME NEW s \in Slots, s # s0 PROVE Row(w, s)' = Row(w, s)
  BY <1>1, <1>2, <1>8, NothingPending DEF Row, After
<1>9. CASE id = 0
  <2>1. Row(w, s0).canid = 0 /\ Row(w, s0)'.canid = 0
    BY <1>0, <1>1, <1>4, <1>6, <1>9 DEF FoundAt
  <2>2. Rows(w)' = Rows(w)
    BY <1>3, <1>8, <2>1 DEF Rows
  <2> QED BY <1>0, <1>3, <1>9, <2>2
<1>10. CASE id # 0
  <2>1. /\ Row(w, s0) \in Rows(w) /\ Row(w, s0).canid = id
        /\ \A r \in Slots : r # s0 => Row(w, r).canid # id
    BY <1>0, <1>1, <1>10, FoundIsUnique
  <2>2. g.canid = id
    BY <1>0, <1>1, <1>6 DEF FoundAt
  <2>3. s0 < AfterIdx(w)
    BY <1>1, NothingPending DEF FoundAt
  <2>4. ASSUME NEW f PROVE f \in Rows(w)' <=> f \in (Rows(w) \ {Row(w, s0)}) \cup {g}
    <3>1. f \in Rows(w)' <=> f = g \/ \E s \in Slots :
            s < AfterIdx(w) /\ s # s0 /\ Row(w, s).canid # 0 /\ f = Row(w, s)
      BY <1>1, <1>3, <1>8, <1>10, <2>2, <2>3 DEF Rows, FoundAt
    <3>2. f \in Rows(w) <=> \E s \in Slots :
            s < AfterIdx(w) /\ Row(w, s).canid # 0 /\ f = Row(w, s)
      BY DEF Rows
    <3> QED BY <2>1, <3>1, <3>2
  <2>5. Rows(w)' = (Rows(w) \ {Row(w, s0)}) \cup {g}
    BY <2>4
  <2> QED BY <1>0, <1>3, <1>6, <1>7, <1>10, <2>1, <2>2, <2>5 DEF SameButData
<1> QED BY <1>9, <1>10

-----------------------------------------------------------------------------
(* What a step does to what the writer knows.                               *)

(* Enables and threads at rest have nothing to store into the table.        *)
LEMMA EnablersKeep ==
  ASSUME TableInv, EnablersStoreNothing, [Next]_vars PROVE EnablersStoreNothing'
<1> USE DEF TableInv, TypeOK, EnablersStoreNothing
<1>1. CASE CyclicalInitLowLevelThread \/ Worker \/ UNCHANGED vars
  <2>1. UNCHANGED callerVars
    BY <1>1 DEF CyclicalInitLowLevelThread, Worker, WorkerLook, WorkerSkip, WorkerSee, WorkerSync,
       WorkerCopyField, WorkerCopied, WorkerModify, WorkerSend, WorkerEndCycle, WorkerWake, vars
  <2> QED BY <2>1 DEF callerVars, pending
<1>2. ASSUME NEW t \in Callers, CallerEntry(t) \/ CallerStep(t) PROVE EnablersStoreNothing'
  <2>1. \A u \in Callers : u # t => LocalsStay(u)
    BY <1>2, OthersStay
  <2>2. op'[t] = "enable" => toStore'[t] = {}
    <3> USE DEF Go, Return, Call, NothingToStore, pending
    <3>1. CASE CallerEntry(t)
      BY <3>1 DEF CallerEntry, SendCyclicallyAdd, SendCyclicallyRemove, SendCyclicallyAdopt,
                  RemoveCyclicalAll, EnableCyclicallyAutoIncrement, ControlOf
    <3>2. CASE IgnoreCounter(t)
      <4>1. UNCHANGED <<op, toStore>>
        BY <3>2, Zenon DEF IgnoreCounter
      <4> QED BY <4>1
    <3>3. CASE CallerStep(t) /\ ~ IgnoreCounter(t)
      BY <3>3 DEF CallerStep, TestCycleTime, SetCycleTime, ScanNext, AddExists, AddIsNew, AddNoRoom,
         AddHasRoom, AddClaim, RemoveFound, NotFound, AdoptFound, AdoptRaiseFlag, EnableNoRoom,
         EnableHasRoom, StoreField, StoreStorageIdx, StoreAutoIncrement, StoreAutoIncrementIdx,
         StoresDone, ControlOf
    <3> QED BY <1>2, <3>1, <3>2, <3>3
  <2> QED BY <2>1, <2>2 DEF LocalsStay
<1> QED BY <1>1, <1>2 DEF Next

(* A buffer is what its frame is, with other data.                          *)
LEMMA BufferIsStorable == ASSUME NEW f \in Frames PROVE Buffer(f) \in StorableFrames
<1>1. f \in StoredFrame /\ Junk \in Word
  BY FramesAssumption DEF FramesAssumption, Word
<1>2. PICK lo \in Word, hi \in Word : Buffer(f) = WithData(f, lo, hi)
  <2>1. f.lo \in Word /\ f.hi \in Word
    BY <1>1 DEF StoredFrame
  <2> QED BY <1>1, <2>1 DEF Buffer, WithData
<1> QED BY <1>2 DEF StorableFrames

(* Other data makes a storable frame of a storable one.                     *)
LEMMA OtherDataIsStorable ==
  ASSUME NEW f \in StorableFrames, NEW g, SameButData(f, g) PROVE g \in StorableFrames
<1>1. PICK h \in Frames, lo \in Word, hi \in Word : f = WithData(h, lo, hi)
  BY DEF StorableFrames
<1>2. h \in StoredFrame /\ g \in StoredFrame /\ g.head = f.head /\ g.canid = f.canid
  BY FramesAssumption DEF FramesAssumption, SameButData
<1>3. g = WithData(h, g.lo, g.hi)
  BY <1>1, <1>2 DEF StoredFrame, WithData
<1>4. g.lo \in Word /\ g.hi \in Word
  BY <1>2 DEF StoredFrame
<1> QED BY <1>1, <1>3, <1>4 DEF StorableFrames

(* Every step keeps what w knows of its own call.                           *)
LEMMA WriterKnows ==
  ASSUME NEW w \in Callers, Lone(w), WriterInv(w), [Next]_vars PROVE WriterOf(w)'
<1> USE DEF WriterInv, TableInv, TypeOK, WriterOf
<1>1. CASE CyclicalInitLowLevelThread
  <2>1. pc[w] = "idle" /\ op[w] = "none" /\ UNCHANGED <<pc, op>>
    BY <1>1 DEF CyclicalInitLowLevelThread, callerVars, ControlOf
  <2> QED BY <2>1
<1>2. CASE Worker \/ UNCHANGED vars
  <2>1. UNCHANGED <<table, callerVars>>
    BY <1>2 DEF Worker, WorkerLook, WorkerSkip, WorkerSee, WorkerSync, WorkerCopyField, WorkerCopied,
       WorkerModify, WorkerSend, WorkerEndCycle, WorkerWake, statics, vars
  <2> QED BY <2>1 DEF table, callerVars, pending
<1>3. ASSUME NEW t \in Callers, t # w, CallerEntry(t) \/ CallerStep(t) PROVE WriterOf(w)'
  <2>1. LocalsStay(w) /\ UNCHANGED table
    BY <1>3, OthersAreSilent, OthersStay
  <2> QED BY <2>1 DEF LocalsStay, table
<1>4. CASE CallerEntry(w)
  <2> USE DEF Call, statics, table
  <2>1. CASE SendCyclicallyAdd(w)
    BY <1>4, <2>1, BufferIsStorable DEF SendCyclicallyAdd, Go
  <2>2. CASE ~ SendCyclicallyAdd(w)
    <3>1. i[w] = 0 /\ i'[w] = i[w] /\ op'[w] # "add" /\ pc'[w] # "ignore"
      BY <1>4, <2>2 DEF CallerEntry, SendCyclicallyRemove, SendCyclicallyAdopt,
         RemoveCyclicalAll, EnableCyclicallyAutoIncrement, Go, ControlOf
    <3> QED BY <3>1 DEF Slots
  <2> QED BY <2>1, <2>2
<1>5. CASE ScanNext(w)
  <2>1. At(i[w]).canid # arg[w].f.canid /\ pc[w] = "scan" /\ i'[w] = i[w] + 1
        /\ UNCHANGED <<pc, op, arg, slot, table>>
    BY <1>5 DEF ScanNext, Hit, Scanning, statics
  <2>2. \A s \in Slots : s < i[w] + 1 => s < i[w] \/ s = i[w]
    BY DEF Slots
  <2> QED BY <2>1, <2>2 DEF At, table
<1>6. CASE AdoptFound(w)
  <2>1. FoundAt(w, i[w])
    BY <1>6, HitFinds DEF AdoptFound
  <2> QED BY <1>6, <2>1 DEF AdoptFound, Go, FoundAt, statics, table
<1>7. CASE IgnoreCounter(w)
  <2>1. /\ pc[w] = "ignore" /\ op[w] = "adopt" /\ UNCHANGED <<pc, op, slot, canStorage, storageIdx>>
    <3>1. pc[w] = "ignore" /\ UNCHANGED <<pc, op, slot, canStorage, storageIdx>>
      BY <1>7, Zenon DEF IgnoreCounter, statics, table
    <3> QED BY <3>1 DEF ControlOf
  <2>2. arg'[w].f.canid = arg[w].f.canid
    <3>1. CASE Drives(CounterAt(i[w]), arg[w].f.canid)
      <4>1. arg' = [arg EXCEPT ![w].f[WordOf(CounterAt(i[w]).bytePos)] = CounterAt(i[w]).value]
        BY <1>7, <3>1 DEF IgnoreCounter
      <4>2. WordOf(CounterAt(i[w]).bytePos) \in Words
        BY <3>1 DEF Drives
      <4> QED BY <4>1, <4>2 DEF Words
    <3>2. CASE ~ Drives(CounterAt(i[w]), arg[w].f.canid)
      BY <1>7, <3>2 DEF IgnoreCounter
    <3> QED BY <3>1, <3>2
  <2> QED BY <2>1, <2>2
<1>8. CASE CallerStep(w) /\ ~ ScanNext(w) /\ ~ AdoptFound(w) /\ ~ IgnoreCounter(w)
  <2>1. pc'[w] # "ignore"
    BY <1>8 DEF CallerStep, TestCycleTime, SetCycleTime, AddExists, AddIsNew, AddNoRoom,
         AddHasRoom, AddClaim, RemoveFound, NotFound, AdoptRaiseFlag, EnableNoRoom,
         EnableHasRoom, StoreField, StoreStorageIdx, StoreAutoIncrement, StoreAutoIncrementIdx,
         StoresDone, Go, Return
  <2>2. pc'[w] = "scan" => i'[w] = 0
    BY <1>8 DEF CallerStep, TestCycleTime, SetCycleTime, AddExists, AddIsNew, AddNoRoom,
         AddHasRoom, AddClaim, RemoveFound, NotFound, AdoptRaiseFlag, EnableNoRoom,
         EnableHasRoom, StoreField, StoreStorageIdx, StoreAutoIncrement, StoreAutoIncrementIdx,
         StoresDone, Go, Return, ControlOf
  <2>3. op'[w] = "add" /\ pc'[w] # "store" =>
          op[w] = "add" /\ pc[w] # "store" /\ arg'[w] = arg[w]
    BY <1>8 DEF CallerStep, TestCycleTime, SetCycleTime, AddExists, AddIsNew, AddNoRoom,
         AddHasRoom, AddClaim, RemoveFound, NotFound, AdoptRaiseFlag, EnableNoRoom,
         EnableHasRoom, StoreField, StoreStorageIdx, StoreAutoIncrement, StoreAutoIncrementIdx,
         StoresDone, Go, Return, ControlOf
  <2> QED BY <2>1, <2>2, <2>3 DEF Slots
<1> QED BY <1>1, <1>2, <1>3, <1>4, <1>5, <1>6, <1>7, <1>8 DEF Next

-----------------------------------------------------------------------------
(* The abstract step.                                                       *)

TableSteps == Table!Next \/ UNCHANGED <<FramesInTable, FramesAdded>>

(* A step that is not one of the four decisions changes nothing.            *)
LEMMA UndecidedStep ==
  ASSUME NEW w \in Callers, Lone(w), WriterInv(w), [Next]_vars, ~ Decides(w)
  PROVE  \/ Silent(w)
         \/ Rows(w) = {} /\ Rows(w)' = {} /\ ~ AfterIdx(w) > 0 /\ ~ AfterIdx(w)' > 0
<1>1. CASE CyclicalInitLowLevelThread
  <2>1. /\ wpc = "absent" /\ storageIdx' = 0 /\ UNCHANGED <<op, arg, slot, toStore, toPublish>>
        /\ storageIdx <= 0 /\ pc[w] = "idle"
    BY <1>1 DEF CyclicalInitLowLevelThread, callerVars, pending, WriterInv, TableInv, ControlOf
  <2>2. toPublish[w] = {}
    BY <2>1, NothingPending
  <2>3. AfterIdx(w) <= 0 /\ AfterIdx(w)' = 0
    BY <2>1, <2>2 DEF AfterIdx
  <2>4. AfterIdx(w) \in Int
    BY <2>1, <2>2 DEF AfterIdx, WriterInv, TableInv, TypeOK
  <2>5. \A s \in Slots : ~ s < AfterIdx(w) /\ ~ s < AfterIdx(w)'
    BY <2>3, <2>4 DEF Slots
  <2> QED BY <2>3, <2>4, <2>5 DEF Rows
<1>2. CASE Worker \/ UNCHANGED vars
  <2>1. UNCHANGED <<table, callerVars>>
    BY <1>2 DEF Worker, WorkerLook, WorkerSkip, WorkerSee, WorkerSync, WorkerCopyField, WorkerCopied,
       WorkerModify, WorkerSend, WorkerEndCycle, WorkerWake, statics, vars
  <2> QED BY <2>1 DEF table, callerVars, pending, Silent, After, AfterIdx
<1>3. ASSUME NEW t \in Callers, t # w, CallerEntry(t) \/ CallerStep(t) PROVE Silent(w)
  BY <1>3, OthersAreSilent
<1>4. CASE CallerEntry(w) \/ CallerStep(w)
  BY <1>4, WriterIsSilent, StoringIsSilent DEF WriterInv, TableInv
<1> QED BY <1>1, <1>2, <1>3, <1>4 DEF Next

(* The writer's decisions are the steps of the abstract table.              *)
LEMMA DecidedStep ==
  ASSUME NEW w \in Callers, Lone(w), WriterInv(w), Decides(w), OnlyStores(w)'
  PROVE  TableSteps /\ FramesInTable' \subseteq StorableFrames
<1>1. /\ FramesInTable = Rows(w) /\ SettledIdx = AfterIdx(w)
  BY SettledOf, LoneStores DEF SettledIsAfter, LoneIsOnly, WriterInv
<1>2. /\ FramesInTable' = Rows(w)' /\ SettledIdx' = AfterIdx(w)'
  <2>1. SettledIsAfter'
    BY SettledOf, PTL
  <2> QED BY <2>1 DEF SettledIsAfter
<1>3. FramesInTable \subseteq StorableFrames
  BY DEF WriterInv
<1>4. CASE RemoveCyclicalAll(w)
  <2>1. FramesInTable' = {} /\ FramesAdded' = 0
    BY <1>2, <1>4, ClearsRows DEF WriterInv, TableInv, FramesAdded
  <2>2. CASE <<FramesInTable, FramesAdded>>' = <<FramesInTable, FramesAdded>>
    BY <2>1, <2>2 DEF TableSteps
  <2>3. CASE <<FramesInTable, FramesAdded>>' # <<FramesInTable, FramesAdded>>
    BY <2>1, <2>3 DEF TableSteps, Table!Next, Table!Clear, Table!tableVars
  <2> QED BY <2>1, <2>2, <2>3
<1>5. CASE AddClaim(w)
  <2> DEFINE f == arg[w].f
  <2>1. /\ AfterIdx(w) \in Slots /\ AfterIdx(w)' = AfterIdx(w) + 1 /\ f \in StorableFrames
        /\ f.canid = 0 => Rows(w)' = Rows(w)
        /\ f.canid # 0 => f.canid \notin IdsIn(Rows(w)) /\ Rows(w)' = Rows(w) \cup {f}
    BY <1>5, ClaimAddsRow
  <2>2. FramesAdded < MAX_CAN_FRAMES_TO_STORE /\ FramesAdded' = FramesAdded + 1
        /\ FramesAdded \in Nat
    BY <1>1, <1>2, <2>1, StorageAssumption DEF FramesAdded, Slots, StorageAssumption
  <2>3. <<FramesInTable, FramesAdded>>' # <<FramesInTable, FramesAdded>>
    BY <2>2
  <2>4. CASE f.canid = 0
    <3>1. Table!AddNoFrame(f)
      BY <1>1, <1>2, <2>1, <2>2, <2>4 DEF Table!AddNoFrame
    <3> QED BY <1>1, <1>2, <1>3, <2>1, <2>3, <2>4, <3>1 DEF TableSteps, Table!Next, Table!tableVars
  <2>5. CASE f.canid # 0
    <3>1. Table!Add(f)
      BY <1>1, <1>2, <2>1, <2>2, <2>5 DEF Table!Add, Table!IdsOf, IdsIn
    <3> QED BY <1>1, <1>2, <1>3, <2>1, <2>3, <2>5, <3>1 DEF TableSteps, Table!Next, Table!tableVars
  <2> QED BY <2>4, <2>5
<1>6. CASE RemoveFound(w)
  <2>1. FramesAdded' = FramesAdded
    BY <1>1, <1>2, <1>6, RemoveTakesRow DEF FramesAdded
  <2>2. CASE FramesInTable' = FramesInTable
    BY <1>3, <2>1, <2>2 DEF TableSteps
  <2>3. CASE FramesInTable' # FramesInTable
    <3>1. PICK f \in FramesInTable : FramesInTable' = FramesInTable \ {f}
      BY <1>1, <1>2, <1>6, <2>3, RemoveTakesRow
    <3>2. Table!Remove(f)
      BY <2>1, <3>1 DEF Table!Remove
    <3> QED BY <1>3, <2>3, <3>1, <3>2 DEF TableSteps, Table!Next, Table!tableVars
  <2> QED BY <2>2, <2>3
<1>7. CASE AdoptRaiseFlag(w)
  <2>1. FramesAdded' = FramesAdded
    BY <1>1, <1>2, <1>7, AdoptChangesRow DEF FramesAdded
  <2>2. CASE FramesInTable' = FramesInTable
    BY <1>3, <2>1, <2>2 DEF TableSteps
  <2>3. CASE FramesInTable' # FramesInTable
    <3>1. PICK f \in FramesInTable, g \in StoredFrame :
            SameButData(f, g) /\ FramesInTable' = (FramesInTable \ {f}) \cup {g}
      BY <1>1, <1>2, <1>7, <2>3, AdoptChangesRow
    <3>2. g \in StorableFrames
      BY <1>3, <3>1, OtherDataIsStorable
    <3>3. [g EXCEPT !.lo = f.lo, !.hi = f.hi] = f
      BY <3>1 DEF SameButData, StoredFrame
    <3>4. Table!Adopt(f, g)
      BY <2>1, <3>1, <3>3 DEF Table!Adopt
    <3> QED BY <1>3, <2>3, <3>1, <3>2, <3>4 DEF TableSteps, Table!Next, Table!tableVars
  <2> QED BY <2>2, <2>3
<1> QED BY <1>4, <1>5, <1>6, <1>7 DEF Decides

(* No call runs before the initialisation.                                  *)
LEMMA CallersNeedInit ==
  ASSUME LoaderCallsInit, TableInv, NEW t \in Callers, CallerEntry(t) \/ CallerStep(t)
  PROVE  wpc # "absent" /\ wpc' = wpc
<1>1. wpc' = wpc
  BY CallersLeaveWorker DEF workerVars
<1>2. CASE CallerEntry(t)
  BY <1>1, <1>2 DEF CallerEntry, SendCyclicallyAdd, SendCyclicallyRemove, SendCyclicallyAdopt,
         RemoveCyclicalAll, EnableCyclicallyAutoIncrement, Call
<1>3. CASE CallerStep(t)
  <2>1. pc[t] # "idle"
    BY <1>3 DEF CallerStep, TestCycleTime,
         SetCycleTime, ScanNext, AddExists, AddIsNew, AddNoRoom, AddHasRoom, AddClaim, RemoveFound,
         NotFound, AdoptFound, IgnoreCounter, AdoptRaiseFlag, EnableNoRoom, EnableHasRoom,
         StoreField, StoreStorageIdx, StoreAutoIncrement, StoreAutoIncrementIdx, StoresDone,
         Go, Return, Hit, Scanning, Missed
  <2> QED BY <1>1, <2>1 DEF TableInv, ControlOf
<1> QED BY <1>2, <1>3

(* Every step keeps the invariant and is a step of FrameTable, or leaves    *)
(* its variables alone.                                                     *)
LEMMA WriterStep ==
  ASSUME LoaderCallsInit, NEW w \in Callers, Lone(w)
  PROVE  WriterInv(w) /\ [Next]_vars => WriterInv(w)' /\ TableSteps /\ OnlyStores(w)'
<1> SUFFICES ASSUME WriterInv(w), [Next]_vars
             PROVE  WriterInv(w)' /\ TableSteps /\ OnlyStores(w)'
  OBVIOUS
<1>1. TableInv'
  BY TableStep, OneWriterShapes DEF WriterInv
<1>2. EnablersStoreNothing' /\ WriterOf(w)'
  BY EnablersKeep, WriterKnows DEF WriterInv
<1>3. OnlyStores(w)'
  <2>1. LoneIsOnly'
    BY LoneStores, PTL
  <2> QED BY <1>1, <1>2, <2>1 DEF LoneIsOnly, Lone
<1>4. (wpc = "absent" => storageIdx <= 0)'
  <2>1. CASE CyclicalInitLowLevelThread
    BY <2>1 DEF CyclicalInitLowLevelThread
  <2>2. CASE ~ CyclicalInitLowLevelThread /\ wpc' = "absent"
    <3>1. wpc = "absent" /\ storageIdx' = storageIdx
      <4>1. CASE Worker \/ UNCHANGED vars
        BY <2>2, <4>1 DEF Worker, WorkerLook, WorkerSkip, WorkerSee, WorkerSync, WorkerCopyField, WorkerCopied,
           WorkerModify, WorkerSend, ReadyToSend, WorkerEndCycle, WorkerWake, WorkerGo, vars, statics,
           table, workerVars
      <4>2. ASSUME NEW t \in Callers, CallerEntry(t) \/ CallerStep(t) PROVE wpc' # "absent"
        BY <4>2, CallersNeedInit DEF WriterInv
      <4> QED BY <2>2, <4>1, <4>2 DEF Next
    <3> QED BY <2>2, <3>1 DEF WriterInv
  <2> QED BY <2>1, <2>2
<1>5. TableSteps /\ FramesInTable' \subseteq StorableFrames
  <2>1. CASE Decides(w)
    BY <1>3, <2>1, DecidedStep
  <2>2. CASE ~ Decides(w)
    <3>1. /\ FramesInTable = Rows(w) /\ SettledIdx = AfterIdx(w)
      BY SettledOf, LoneStores DEF SettledIsAfter, LoneIsOnly, WriterInv
    <3>2. /\ FramesInTable' = Rows(w)' /\ SettledIdx' = AfterIdx(w)'
      <4>1. SettledIsAfter'
        BY SettledOf, PTL
      <4> QED BY <1>3, <4>1 DEF SettledIsAfter
    <3>3. FramesInTable' = FramesInTable /\ FramesAdded' = FramesAdded
      <4>1. CASE Silent(w)
        BY <3>1, <3>2, <4>1, SilentRows DEF Silent, FramesAdded
      <4>2. CASE Rows(w) = {} /\ Rows(w)' = {} /\ ~ AfterIdx(w) > 0 /\ ~ AfterIdx(w)' > 0
        BY <3>1, <3>2, <4>2 DEF FramesAdded
      <4> QED BY <2>2, <4>1, <4>2, UndecidedStep
    <3> QED BY <3>3 DEF TableSteps, WriterInv
  <2> QED BY <2>1, <2>2
<1> QED BY <1>1, <1>2, <1>3, <1>4, <1>5 DEF WriterInv

-----------------------------------------------------------------------------
(* The answers.                                                             *)

(* The identifiers a search can find are those of the frames in the table.  *)
LEMMA IdsInSlots ==
  ASSUME NEW w \in Callers, Lone(w), WriterInv(w), pc[w] # "store", NEW id, id # 0
  PROVE  id \in IdsInTable <=> \E s \in Slots : s < storageIdx /\ canStorage[s].canid = id
<1>1. FramesInTable = Rows(w)
  BY SettledOf, LoneStores DEF SettledIsAfter, LoneIsOnly, WriterInv
<1>2. AfterIdx(w) = storageIdx /\ \A s \in Slots : Row(w, s) = canStorage[s]
  BY NothingPending
<1> QED BY <1>1, <1>2 DEF IdsInTable, Rows

(* Only these steps decide an answer, and the writer's alone are about the  *)
(* table.                                                                   *)
LEMMA DecidingSteps ==
  ASSUME NEW w \in Callers, Lone(w), TableInv, [Next]_vars, NEW t \in Callers,
         result[t] = Undecided, result'[t] # Undecided
  PROVE  \/ op[t] \in {"enable", "none"}
         \/ /\ t = w
            /\ \/ AddExists(w) \/ AddNoRoom(w) \/ AddClaim(w) \/ RemoveFound(w) \/ NotFound(w)
               \/ AdoptRaiseFlag(w) \/ (StoresDone(w) /\ op[w] = "removeAll")
<1> USE DEF TableInv, TypeOK
<1>1. CASE CyclicalInitLowLevelThread \/ Worker \/ UNCHANGED vars
  <2>1. UNCHANGED callerVars
    BY <1>1 DEF CyclicalInitLowLevelThread, Worker, WorkerLook, WorkerSkip, WorkerSee, WorkerSync,
       WorkerCopyField, WorkerCopied, WorkerModify, WorkerSend, WorkerEndCycle, WorkerWake, vars
  <2> QED BY <2>1 DEF callerVars
<1>2. ASSUME NEW u \in Callers, CallerEntry(u) \/ CallerStep(u)
      PROVE  \/ op[t] \in {"enable", "none"}
             \/ /\ t = w
                /\ \/ AddExists(w) \/ AddNoRoom(w) \/ AddClaim(w) \/ RemoveFound(w) \/ NotFound(w)
                   \/ AdoptRaiseFlag(w) \/ (StoresDone(w) /\ op[w] = "removeAll")
  <2>1. CASE t # w
    BY <2>1 DEF Lone, ControlOf
  <2>2. CASE t = w /\ IgnoreCounter(u)
    <3>1. result' = result
      BY <2>2, Zenon DEF IgnoreCounter
    <3> QED BY <3>1
  <2>3. CASE t = w /\ CallerEntry(u)
    BY <2>3 DEF CallerEntry, SendCyclicallyAdd, SendCyclicallyRemove, SendCyclicallyAdopt,
       RemoveCyclicalAll, EnableCyclicallyAutoIncrement, Call
  <2>4. CASE t = w /\ CallerStep(u) /\ ~ IgnoreCounter(u)
    <3>1. CASE u # t
      BY <2>4, <3>1 DEF CallerStep, TestCycleTime, SetCycleTime, ScanNext, AddExists, AddIsNew,
         AddNoRoom, AddHasRoom, AddClaim, RemoveFound, NotFound, AdoptFound, AdoptRaiseFlag,
         EnableNoRoom, EnableHasRoom, StoreField, StoreStorageIdx, StoreAutoIncrement,
         StoreAutoIncrementIdx, StoresDone, Return
    <3>2. CASE u = t
      <4>0. CallerStep(w) /\ ~ IgnoreCounter(w)
        BY <2>4, <3>2
      <4>1. CASE EnableNoRoom(w) \/ EnableHasRoom(w)
        BY <2>4, <4>1 DEF EnableNoRoom, EnableHasRoom, Return, Go, ControlOf
      <4>2. CASE StoresDone(w)
        BY <2>4, <3>2, <4>2 DEF StoresDone, Return
      <4>3. ~ (TestCycleTime(w) \/ SetCycleTime(w) \/ ScanNext(w) \/ AddIsNew(w) \/ AddHasRoom(w)
               \/ AdoptFound(w) \/ StoreField(w) \/ StoreStorageIdx(w) \/ StoreAutoIncrement(w)
               \/ StoreAutoIncrementIdx(w))
        BY DEF TestCycleTime, SetCycleTime, ScanNext, AddIsNew, AddHasRoom, AdoptFound, StoreField,
               StoreStorageIdx, StoreAutoIncrement, StoreAutoIncrementIdx
      <4>4. \/ AddExists(w) \/ AddNoRoom(w) \/ AddClaim(w) \/ RemoveFound(w) \/ NotFound(w)
            \/ AdoptRaiseFlag(w) \/ StoresDone(w) \/ EnableNoRoom(w) \/ EnableHasRoom(w)
        BY <4>0, <4>3 DEF CallerStep
      <4> QED BY <2>4, <4>1, <4>2, <4>4
    <3> QED BY <3>1, <3>2
  <2> QED BY <1>2, <2>1, <2>2, <2>3, <2>4
<1> QED BY <1>1, <1>2 DEF Next

(* The answer decided in a step is true of the table before and after it.   *)
LEMMA AnswerStep ==
  ASSUME NEW w \in Callers, Lone(w), WriterInv(w), OnlyStores(w)', [Next]_vars,
         NEW t \in Callers, result[t] = Undecided, result'[t] # Undecided,
         arg[t].f.canid # 0 \/ op[t] = "removeAll"
  PROVE  AnswerIsTrue(t)
<1>1. CASE op[t] \in {"enable", "none"}
  BY <1>1 DEF AnswerIsTrue
<1>2. FramesInTable = Rows(w) /\ SettledIdx = AfterIdx(w)
  BY SettledOf, LoneStores DEF SettledIsAfter, LoneIsOnly, WriterInv
<1>3. FramesInTable' = Rows(w)'
  <2>1. SettledIsAfter'
    BY SettledOf, PTL
  <2> QED BY <2>1 DEF SettledIsAfter
<1>4. IdsInTable = IdsIn(Rows(w)) /\ IdsInTable' = IdsIn(Rows(w)')
  BY <1>2, <1>3 DEF IdsInTable, IdsIn
<1> USE DEF Go, Return, WriterInv, TableInv, TypeOK
<1>5. CASE t = w /\ AddExists(w)
  <2>1. op[w] = "add" /\ result'[w] = 1 /\ FoundAt(w, i[w]) /\ pc[w] = "scan"
    BY <1>5, HitFinds DEF AddExists
  <2> QED BY <1>5, <2>1, IdsInSlots DEF FoundAt, AnswerIsTrue
<1>6. CASE t = w /\ AddNoRoom(w)
  <2>1. /\ op[w] = "add" /\ result'[w] = 2 /\ pc[w] = "room"
        /\ storageIdx = MAX_CAN_FRAMES_TO_STORE
        /\ \A s \in Slots : s < storageIdx => IsNewTo(w, s)
    BY <1>6, StorageAssumption DEF AddNoRoom, ControlOf, SearchOf, StorageAssumption
  <2>2. SettledIdx = MAX_CAN_FRAMES_TO_STORE
    BY <1>2, <2>1, NothingPending
  <2>3. arg[w].f.canid \notin IdsInTable
    BY <1>6, <2>1, IdsInSlots DEF IsNewTo
  <2> QED BY <1>6, <2>1, <2>2, <2>3 DEF AnswerIsTrue
<1>7. CASE t = w /\ AddClaim(w)
  <2>1. op[w] = "add" /\ result'[w] = 0
    BY <1>7 DEF AddClaim, ControlOf
  <2>2. arg[w].f.canid \notin IdsIn(Rows(w)) /\ Rows(w)' = Rows(w) \cup {arg[w].f}
    BY <1>7, <2>1, ClaimAddsRow
  <2> QED BY <1>3, <1>4, <1>7, <2>1, <2>2 DEF AnswerIsTrue
<1>8. CASE t = w /\ RemoveFound(w)
  <2>1. op[w] = "remove" /\ result'[w] = 0 /\ FoundAt(w, i[w]) /\ pc[w] = "scan"
    BY <1>8, HitFinds DEF RemoveFound
  <2>2. arg[w].f.canid \in IdsInTable
    BY <1>8, <2>1, IdsInSlots DEF FoundAt
  <2>3. arg[w].f.canid \notin IdsInTable'
    BY <1>4, <1>8, <2>1, RemoveTakesRow
  <2> QED BY <1>8, <2>1, <2>2, <2>3 DEF AnswerIsTrue
<1>9. CASE t = w /\ NotFound(w)
  <2>1. /\ op[w] \in {"remove", "adopt"} /\ result'[w] = 1 /\ pc[w] = "scan"
        /\ \A s \in Slots : s < storageIdx => canStorage[s].canid # arg[w].f.canid
    BY <1>9 DEF NotFound, Missed, Scanning, WriterOf, Slots
  <2>2. arg[w].f.canid \notin IdsInTable
    BY <1>9, <2>1, IdsInSlots
  <2>3. arg[w].f.canid \notin IdsInTable'
    <3>1. ~ Decides(w)
      BY <1>9 DEF Decides, NotFound, RemoveCyclicalAll, Call, AddClaim, RemoveFound, Hit, Missed,
                  AdoptRaiseFlag
    <3>2. Silent(w)
      BY <1>9, <3>1, WriterIsSilent DEF CallerStep, NotFound, StoreField, StoreStorageIdx
    <3> QED BY <1>4, <2>2, <3>2, SilentRows
  <2> QED BY <1>9, <2>1, <2>2, <2>3 DEF AnswerIsTrue
<1>10. CASE t = w /\ AdoptRaiseFlag(w)
  <2>1. op[w] = "adopt" /\ result'[w] = 0 /\ FoundAt(w, slot[w]) /\ pc[w] = "ignore"
    BY <1>10 DEF AdoptRaiseFlag, ControlOf, WriterOf, FoundAt
  <2>2. arg[w].f.canid \in IdsInTable
    BY <1>10, <2>1, IdsInSlots DEF FoundAt
  <2>3. \E g \in Rows(w)' : g.canid = arg[w].f.canid /\ g.lo = arg[w].f.lo /\ g.hi = arg[w].f.hi
    BY <1>10, <2>1, AdoptChangesRow
  <2> QED BY <1>3, <1>10, <2>1, <2>2, <2>3 DEF AnswerIsTrue
<1>11. CASE t = w /\ (StoresDone(w) /\ op[w] = "removeAll")
  <2>1. pc[w] = "store" /\ toStore[w] = {} /\ toPublish[w] = {}
    BY <1>11 DEF StoresDone
  <2>2. \A s \in Slots : canStorage[s].canid = 0
    BY <1>11, <2>1 DEF StoresOf
  <2>3. \A s \in Slots : Row(w, s).canid = 0
    BY <2>1, <2>2 DEF Row, After, Fields
  <2>4. Rows(w) = {}
    BY <2>3 DEF Rows
  <2>5. Silent(w)
    BY <1>11, WriterIsSilent
    DEF CallerStep, Decides, StoresDone, RemoveCyclicalAll, Call, AddClaim, RemoveFound, Hit, Scanning,
        AdoptRaiseFlag, StoreField, StoreStorageIdx
  <2> QED BY <1>3, <1>11, <2>4, <2>5, SilentRows DEF AnswerIsTrue
<1> QED BY <1>1, <1>5, <1>6, <1>7, <1>8, <1>9, <1>10, <1>11, DecidingSteps DEF WriterInv

-----------------------------------------------------------------------------
(* Calls of one thread change the table as atomic calls would, whatever the *)
(* order of their stores and next to threads that enable counters           *)
(* (cyclical_send_task.cpp:133-195).                                        *)
THEOREM CallsImplementTable ==
  ASSUME LoaderCallsInit, OneWriter PROVE Spec => ImplementsTable
<1>1. PICK w \in Callers : Lone(w)
  BY DEF OneWriter, Lone
<1>2. Init => Table!Init
  <2> SUFFICES ASSUME Init PROVE Table!Init
    OBVIOUS
  <2>1. OnlyStores(w) /\ AfterIdx(w) = -1 /\ Rows(w) = {}
    BY DEF Init, OnlyStores, AfterIdx, Rows, Slots
  <2> QED BY <2>1, SettledOf DEF SettledIsAfter, Table!Init, FramesAdded
<1>3. Init => WriterInv(w)
  BY WriterInit
<1>4. WriterInv(w) /\ [Next]_vars => WriterInv(w)' /\ [Table!Next]_(Table!tableVars)
  BY <1>1, WriterStep DEF TableSteps, Table!tableVars
<1> QED BY <1>2, <1>3, <1>4, PTL DEF Spec, ImplementsTable, Table!Spec

(* What a call answers is true of the table at the moment it is decided     *)
(* (the return values of cyclical_send_task.cpp:133-195).                   *)
THEOREM AnswersAlwaysTruthful ==
  ASSUME LoaderCallsInit, OneWriter PROVE Spec => AnswersTruthful
<1>1. PICK w \in Callers : Lone(w)
  BY DEF OneWriter, Lone
<1> DEFINE Truthful == \A t \in Callers :
             /\ result[t] = Undecided /\ result'[t] # Undecided
             /\ arg[t].f.canid # 0 \/ op[t] = "removeAll"
             => AnswerIsTrue(t)
<1>2. Init => WriterInv(w)
  BY WriterInit
<1>3. WriterInv(w) /\ [Next]_vars => WriterInv(w)' /\ [Truthful]_vars
  BY <1>1, WriterStep, AnswerStep
<1> QED BY <1>2, <1>3, PTL DEF Spec, AnswersTruthful
=============================================================================
