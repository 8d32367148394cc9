-------------------------- MODULE MCCyclicSendTask --------------------------
(* Values for the constants of CyclicSendTask that a .cfg cannot write.     *)
EXTENDS CyclicSendTask

CONSTANT t1

\* Two frames, and other data for the first.
A1 == [head |-> [fd |-> 1, len |-> 8], canid |-> 1, lo |-> 1, hi |-> 1]
A2 == [head |-> [fd |-> 1, len |-> 8], canid |-> 1, lo |-> 2, hi |-> 1]
B1 == [head |-> [fd |-> 2, len |-> 8], canid |-> 2, lo |-> 1, hi |-> 1]
\* Data for the first frame that differs in both of its words.
A3 == [head |-> [fd |-> 1, len |-> 8], canid |-> 1, lo |-> 2, hi |-> 2]
AdoptFrames == {A1, A3}
TwoFrames == {A1, B1}
\* A frame with the identifier 0.
Z1 == [head |-> [fd |-> 1, len |-> 8], canid |-> 0, lo |-> 1, hi |-> 1]
\* The first frame from another socket with a short array: the second word of
\* the buffer is not the caller's.
A4 == [head |-> [fd |-> 2, len |-> 4], canid |-> 1, lo |-> 2, hi |-> 2]
OneId == {A1, A4}
OneFrame == {A1}
TableFrames == {A1, A2, B1, Z1}
NoCounters == {}
CounterOfA == {[canid |-> 1, bytePos |-> 0]}

TableCalls == {"add", "remove", "removeAll", "adopt"}
AddAndAdopt == [t \in Callers |-> {"add", "adopt"}]
OnlyAdd == [t \in Callers |-> {"add"}]
LiveCalls == [t \in Callers |-> {"add", "remove", "adopt", "enable"}]
OneEnables == [t \in Callers |->
  IF t = t1 THEN {"enable"} ELSE {"add", "remove", "adopt"}]
OneCaller == [t \in Callers |-> TableCalls]

\* No order at all.
AnyOrder == [f \in Functions \cup {"worker"} |-> {}]
\* memset and memcpy go upwards through a slot, storageIdx is stored anywhen.
Upwards == {<<"head", "canid">>, <<"head", "lo">>, <<"head", "hi">>,
            <<"canid", "lo">>, <<"canid", "hi">>, <<"lo", "hi">>}
UpwardsOrder == [AnyOrder EXCEPT !["remove"] = Upwards, !["removeAll"] = Upwards,
                                 !["adopt"] = Upwards, !["worker"] = Upwards]
\* "should be the last" kept: the identifier of an added frame after the rest,
\* with storageIdx still stored anywhen.
CanidLast == [UpwardsOrder EXCEPT !["add"] = {"head", "lo", "hi"} \X {"canid"}]
\* Every access where the source has it.
SourceOrder == [UpwardsOrder EXCEPT !["add"] =
  {<<"head", "lo">>, <<"lo", "hi">>, <<"hi", "canid">>, <<"canid", "storageIdx">>}]
JunkWord == -1

\* The callers by themselves: they read nothing that the worker writes, except
\* the value of a counter, so that it can be left out where only they matter.
CallersNext ==
  \/ CyclicalInitLowLevelThread
  \/ \E t \in Callers : CallerEntry(t) \/ CallerStep(t)
CallersSpec == Init /\ [][CallersNext]_vars
=============================================================================
