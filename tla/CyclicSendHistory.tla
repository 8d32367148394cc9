-------------------------- MODULE CyclicSendHistory --------------------------
(***************************************************************************)
(* CyclicSendTask with a record of what the worker handed to sendto, for   *)
(* the properties that compare one frame on the bus with the ones before.  *)
(* The history variables only watch: they guard no step of the library.    *)
(***************************************************************************)
EXTENDS CyclicSendTask

VARIABLES
  staleSent,  \* since a call last took a step, frames sent that no slot holds; 2: more
  lastByte,   \* per counter, what its byte was in the last frame sent
  overwritten \* the functions that were storing into the slot while it was sent from

history == <<staleSent, lastByte, overwritten>>

\* lastByte before a counter is in place, and once the frame that may have
\* been under way at that moment is gone.
NotCounting == -2
Counting == -1

Sending == wpc = "modify" /\ wpc' = "check"
Calling == callerVars' # callerVars

(* A word of a frame that a counter in place keeps for itself.             *)
Counted(word, canid) == \E j \in Slots :
  /\ j < autoIncrementIdx
  /\ Drives(canAutoIncrement[j], canid) /\ WordOf(canAutoIncrement[j].bytePos) = word

InTable(f) == f.canid # 0 /\ \E s \in Slots :
  /\ s < storageIdx
  /\ \A field \in Fields : canStorage[s][field] = f[field] \/ Counted(field, f.canid)

UpdateStaleSent ==
  staleSent' = CASE Calling -> 0
                 [] Sending /\ ~ InTable(frameToSend) -> IF staleSent = 0 THEN 1 ELSE 2
                 [] OTHER -> staleSent

BeingEnabled(c) == \E t \in Callers :
  op[t] = "enable" /\ arg[t].f.canid = c.canid /\ arg[t].n = c.bytePos
InPlace(c) == \E j \in Slots :
  /\ j < autoIncrementIdx
  /\ canAutoIncrement[j].canid = c.canid /\ canAutoIncrement[j].bytePos = c.bytePos

UpdateLastByte ==
  lastByte' = [c \in Counters |->
    CASE BeingEnabled(c) \/ ~ InPlace(c) -> NotCounting
      [] ~ BeingEnabled(c) /\ InPlace(c) /\ Sending ->
           IF lastByte[c] = NotCounting THEN Counting
           ELSE IF Drives(c, frameToSend.canid) THEN frameToSend[WordOf(c.bytePos)]
           ELSE lastByte[c]
      [] OTHER -> lastByte[c]]

(* A store into the slot matters from the first access of the memcpy to the *)
(* last; one that clears it also between the test of its identifier and the *)
(* memcpy.                                                                  *)
Clears == {"remove", "removeAll"}
Overwriting == {op[t] : t \in {t \in Callers : \E field \in Fields : <<wi, field>> \in toStore[t]}}

UpdateOverwritten ==
  overwritten' = CASE wpc' = "sync" -> overwritten \cup (Overwriting' \cap Clears)
                   [] wpc' = "copy" -> overwritten \cup (Overwriting' \cap (Clears \cup {"adopt"}))
                   [] wpc' = "modify" -> overwritten
                   [] OTHER -> {}

HInit ==
  /\ Init
  /\ staleSent = 0
  /\ lastByte = [c \in Counters |-> NotCounting]
  /\ overwritten = {}
HNext == Next /\ UpdateStaleSent /\ UpdateLastByte /\ UpdateOverwritten
HSpec == HInit /\ [][HNext]_<<vars, history>>

(* Between two steps of calls at most one frame goes out that the table     *)
(* does not hold as it is, apart from the bytes that counters drive: the    *)
(* one the worker had in its hands when a call last changed the table       *)
(* (cyclical_send_task.cpp:209-212).                                        *)
AtMostOneStaleFrame == staleSent <= 1

(* The byte of an enabled counter goes up by exactly one, modulo a byte,    *)
(* from each frame with its identifier to the next, whatever adopt writes   *)
(* into that byte and however often the frame is removed and added again    *)
(* (cyclical_send_task.cpp:104-131).                                        *)
CounterAdvances == ReadyToSend => \A c \in Counters :
  Drives(c, frameToSend.canid) /\ lastByte[c] \notin {NotCounting, Counting}
    => frameToSend[WordOf(c.bytePos)] = (lastByte[c] + 1) % ByteMod

(* Without counters: a frame goes out as callers handed it over, all of its *)
(* data from one call, unless the worker met a store into its slot.  A store *)
(* by adopt can only mix data that was given to this identifier; it takes a *)
(* remove or a removeAll to send anything else.  Of an add the worker meets *)
(* nothing, in whatever order its stores are seen, as long as its           *)
(* identifier is the last: "should be the last"                             *)
(* (cyclical_send_task.cpp:156, 205-210).                                   *)
SentHead(f) == frameToSend.canid = f.canid /\ frameToSend.head = f.head
SentWord(f, word) == f.canid = frameToSend.canid /\ frameToSend[word] = Buffer(f)[word]
TornOnlyByOverwriting ==
  ReadyToSend /\ overwritten \cap Clears = {} =>
    /\ \E f \in Frames : SentHead(f)
    /\ \A word \in Words : \E f \in Frames : SentWord(f, word)
    /\ overwritten = {} => \E f \in Frames : \A word \in Words : SentWord(f, word)
=============================================================================
