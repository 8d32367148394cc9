----------------------------- MODULE SocketTask -----------------------------
(***************************************************************************)
(* CanSocket objects and the cyclical send task that they share.  A frame  *)
(* in the table carries the number of the socket that added it, and the    *)
(* worker goes on sending through that number whatever became of it.  The  *)
(* calls of the table come one at a time, as in FrameTable; a slot is two  *)
(* words, so that the worker may copy one of them before and the other     *)
(* after a call has written to the slot.  What the frames hold otherwise,  *)
(* their data and counters, is the subject of CyclicSendTask.              *)
(***************************************************************************)
EXTENDS SocketLifecycle

CONSTANT MAX_CAN_FRAMES_TO_STORE

Slots == 0 .. MAX_CAN_FRAMES_TO_STORE - 1

(* fd, and canid with if_idx and all the rest.  Each comes with the object  *)
(* that stored it, which the code does not know.                            *)
Fields == {"fd", "canid"}
Frames == [fd : [value : Descriptors, by : Sockets \cup {None}],
           canid : [value : Interfaces \cup {None}, by : Sockets \cup {None}]]
ZeroFrame == [fd |-> [value |-> 0, by |-> None], canid |-> [value |-> None, by |-> None]]
FrameOf(s, i) == [fd |-> [value |-> fd[s], by |-> s], canid |-> [value |-> i, by |-> s]]

ASSUME TableAssumption ==
  MAX_CAN_FRAMES_TO_STORE \in Nat \ {0} /\ None \notin Sockets \cup Slots

VARIABLES
  slots,        \* canStorage
  storageIdx,
  call,         \* the call of the table: what it stores where, and the index it leaves
  at,           \* the slot that the worker is at, or None
  toCopy,       \* fields that it has yet to copy
  frameToSend,
  disturbed,    \* calls on that slot since the worker looked at it
  astray        \* per object: frames sent since it was closed and out of the table

tableVars == <<slots, storageIdx, call>>
workerVars == <<at, toCopy, frameToSend, disturbed>>
taskVars == <<tableVars, workerVars, astray>>
allVars == <<vars, taskVars>>

NoCall(idx) == [op |-> "none", frame |-> ZeroFrame, toStore |-> {}, idx |-> idx]

TaskInit ==
  /\ Init
  /\ slots = [n \in Slots |-> ZeroFrame]
  /\ storageIdx = 0
  /\ call = NoCall(0)
  /\ at = None /\ toCopy = {} /\ frameToSend = ZeroFrame /\ disturbed = "no"
  /\ astray = [s \in Sockets |-> 0]

-----------------------------------------------------------------------------
(* The Java methods.  Only the add uses the object's number; a table that   *)
(* has the identifier or no room refuses it and changes nothing.            *)
Idle == call.op = "none"
Starts(op, frame, toStore, idx) ==
  /\ Idle
  /\ call' = [op |-> op, frame |-> frame, toStore |-> toStore, idx |-> idx]
Disturbs(how) == disturbed' = IF at = None \/ disturbed = "emptied" THEN disturbed ELSE how

SendCyclicallyAdd(s, i) ==
  /\ Calls(s) /\ storageIdx < MAX_CAN_FRAMES_TO_STORE
  /\ Starts("add", FrameOf(s, i), {storageIdx} \X Fields, storageIdx + 1)
  /\ UNCHANGED <<objectVars, kernelVars, threadVars, stats, raced, asked,
                 slots, storageIdx, workerVars, astray>>
SendCyclicallyRemove(s, n) ==
  /\ phase[s] # "new" /\ n < storageIdx /\ slots[n].canid # ZeroFrame.canid
  /\ Starts("remove", ZeroFrame, {n} \X Fields, storageIdx)
  /\ IF n = at THEN Disturbs("cleared") ELSE UNCHANGED disturbed
  /\ UNCHANGED <<vars, slots, storageIdx, at, toCopy, frameToSend, astray>>
RemoveCyclicalAll(s) ==
  /\ phase[s] # "new"
  /\ Starts("removeAll", ZeroFrame, Slots \X Fields, 0)
  /\ Disturbs("emptied")
  /\ UNCHANGED <<vars, slots, storageIdx, at, toCopy, frameToSend, astray>>

(* As MayStore, with no store held back: the identifier may go first.       *)
MayStoreAlways(n, field) == TRUE
(* The identifier of an added frame "should be the last".                   *)
MayStore(n, field) == call.op = "add" /\ field = "canid" => <<n, "fd">> \notin call.toStore
StoreField(n, field) ==
  /\ <<n, field>> \in call.toStore /\ MayStore(n, field)
  /\ slots' = [slots EXCEPT ![n][field] = call.frame[field]]
  /\ call' = [call EXCEPT !.toStore = @ \ {<<n, field>>}]
  /\ UNCHANGED <<vars, storageIdx, workerVars, astray>>
StoreStorageIdx ==
  /\ ~Idle /\ storageIdx # call.idx
  /\ storageIdx' = call.idx
  /\ UNCHANGED <<vars, slots, call, workerVars, astray>>
StoresDone ==
  /\ ~Idle /\ call.toStore = {} /\ storageIdx = call.idx
  /\ call' = NoCall(storageIdx)
  /\ UNCHANGED <<vars, slots, storageIdx, workerVars, astray>>

-----------------------------------------------------------------------------
(* The worker: it sees that a slot has an identifier, copies the slot word  *)
(* by word, and sends what it has copied.                                   *)
DisturbedBy(n) ==
  IF call.op = "add" \/ \A field \in Fields : <<n, field>> \notin call.toStore THEN "no"
  ELSE IF call.op = "remove" THEN "cleared" ELSE "emptied"
WorkerSee(n) ==
  /\ at = None /\ n < storageIdx /\ slots[n].canid # ZeroFrame.canid
  /\ at' = n /\ toCopy' = Fields /\ disturbed' = DisturbedBy(n)
  /\ UNCHANGED <<vars, tableVars, frameToSend, astray>>
WorkerCopyField(field) ==
  /\ field \in toCopy
  /\ frameToSend' = [frameToSend EXCEPT ![field] = slots[at][field]]
  /\ toCopy' = toCopy \ {field}
  /\ UNCHANGED <<vars, tableVars, at, disturbed, astray>>

(* The object has a frame in the table, or on its way there.                *)
InTable(s) ==
  \/ \E n \in Slots, field \in Fields : slots[n][field].by = s
  \/ call.toStore # {} /\ call.frame.fd.by = s
CountAstray == astray' = [s \in Sockets |->
  IF phase[s] = "closed" /\ ~InTable(s) /\ \E field \in Fields : frameToSend[field].by = s
  THEN IF astray[s] = 0 THEN 1 ELSE 2 ELSE astray[s]]
ReadyToSend == at # None /\ toCopy = {}
Sendto ==
  /\ IsRaw(descriptors[frameToSend.fd.value]) /\ frameToSend.canid.value \in Interfaces
  /\ Deliver(descriptors[frameToSend.fd.value], frameToSend.canid.value)
  /\ CountAstray
  /\ UNCHANGED <<objectVars, descriptors, bound, timeout, threadVars, stats, watched, tableVars>>
NextSlot == at' = None /\ frameToSend' = ZeroFrame /\ disturbed' = "no" /\ UNCHANGED toCopy

(* As WorkerSend, with a frame that is sent until there is another.         *)
WorkerSendAgain == ReadyToSend /\ Sendto /\ (NextSlot \/ UNCHANGED workerVars)
WorkerSend == ReadyToSend /\ Sendto /\ NextSlot

(* No raw socket behind the number, no interface or no buffer: an error is  *)
(* counted and the frame is given up.                                       *)
WorkerSendFails == ReadyToSend /\ NextSlot /\ UNCHANGED <<vars, tableVars, astray>>

-----------------------------------------------------------------------------
TaskCall(s) ==
  \/ \E i \in Interfaces : SendCyclicallyAdd(s, i)
  \/ \E n \in Slots : SendCyclicallyRemove(s, n)
  \/ RemoveCyclicalAll(s)
TaskStore == StoreStorageIdx \/ StoresDone \/ \E n \in Slots, field \in Fields : StoreField(n, field)
Worker ==
  \/ WorkerSend \/ WorkerSendFails
  \/ (\E n \in Slots : WorkerSee(n)) \/ \E field \in Fields : WorkerCopyField(field)
TaskNext ==
  \/ Next /\ UNCHANGED taskVars
  \/ \E s \in Sockets : TaskCall(s)
  \/ TaskStore
  \/ Worker
TaskSpec == TaskInit /\ [][TaskNext]_allVars

-----------------------------------------------------------------------------
TaskTypeOK ==
  /\ slots \in [Slots -> Frames]
  /\ storageIdx \in 0..MAX_CAN_FRAMES_TO_STORE
  /\ call \in [op : {"none", "add", "remove", "removeAll"}, frame : Frames,
               toStore : SUBSET (Slots \X Fields), idx : 0..MAX_CAN_FRAMES_TO_STORE]
  /\ at \in Slots \cup {None} /\ toCopy \subseteq Fields
  /\ frameToSend \in Frames
  /\ disturbed \in {"no", "cleared", "emptied"}
  /\ astray \in [Sockets -> 0..2]

(* What the worker hands to sendto for an open object goes through that     *)
(* object's own file, while other objects close with frames left in the     *)
(* table, numbers are given away, and calls write to the slot that is being *)
(* copied.  A remove of that slot may send it through descriptor 0 instead, *)
(* and through no other; only after a removeAll may it be anyone's          *)
(* (cyclical_send_task.cpp:166, 205-212, 242-243).                          *)
FramesGoHome ==
  LET s == frameToSend.canid.by IN
  ReadyToSend /\ s # None /\ phase[s] = "open" /\ Trusted(s) =>
    \/ descriptors[frameToSend.fd.value] = s
    \/ disturbed = "cleared" /\ frameToSend.fd.value = 0
    \/ disturbed = "emptied"

(* Once an object is closed and its frames are out of the table, in either  *)
(* order and whoever removed them, at most one frame more goes out with its *)
(* number or its data, to whoever has the number by then: the one in the    *)
(* worker's hand (cyclical_send_task.cpp:205-212, CanSocket.java:787-789).  *)
AtMostOneAstray == \A s \in Sockets : fd[s] \notin late => astray[s] <= 1
=============================================================================
