--------------------------- MODULE SocketLifecycle ---------------------------
(***************************************************************************)
(* CanSocket objects from their constructor to close, with the natives of  *)
(* cansocket.cpp and the kernel's table of descriptors.  A CanSocket keeps *)
(* a number, fd, for its whole life; the kernel gives that number to the   *)
(* next file once it is closed.  A system call is one step.                *)
(***************************************************************************)
EXTENDS Naturals, Sequences

CONSTANTS
  Sockets,        \* CanSocket objects; also names the file that the object opened
  Threads,        \* Java threads that bind, send and receive
  Interfaces, ALL,      \* network interfaces, and CAN_ALL_INTERFACES
  MaxDescriptor, Free, Foreign,  \* descriptors without a file, or with one of somebody else
  CAN_NPROTO, SizeofAddr,        \* what the library was compiled with
  KernelAddrLen,  \* length of the address that the kernel returns with a frame
  None, QueueMax, MaxErrors

Descriptors == 0..MaxDescriptor

ASSUME NamesAssumption ==
  /\ Free \notin Sockets /\ Foreign \notin Sockets /\ Free # Foreign
  /\ ALL \notin Interfaces /\ None \notin Interfaces \cup {ALL}
  /\ {"IOException", "Throwable"} \cap Interfaces = {}
ASSUME SizesAssumption ==
  /\ MaxDescriptor \in Nat /\ QueueMax \in Nat /\ MaxErrors \in Nat
  /\ CAN_NPROTO \in {7, 8} /\ SizeofAddr \in Nat /\ KernelAddrLen \in Nat

VARIABLES
  phase,    \* per object: "new", then "open" or "failed", then "closed"
  mode,     \* per object: what kind of file it opened, "RAW" before that
  fd,       \* _fd, 0 until it is assigned
  boundTo,  \* _boundTo
  descriptors,  \* the kernel's table: whose file each descriptor is
  bound,    \* per file: the interface it is bound to
  timeout,  \* per file: whether a receive is "limited" or waits "forever"
  queue,    \* per file: the interfaces of the frames that wait in it
  pc,       \* per thread: "idle", or where it is in its call
  local,    \* per thread: what it keeps for the rest of its call
  stats,    \* statsErrorCntrSend and statsErrorCntrReceive
  late,     \* numbers that calls have used after the close of their objects
  raced,    \* objects that two threads have bound at the same time
  asked     \* per object: the interfaces that its bind was asked for

objectVars == <<phase, mode, fd, boundTo>>
kernelVars == <<descriptors, bound, timeout, queue>>
threadVars == <<pc, local>>
watched == <<late, raced, asked>>
vars == <<objectVars, kernelVars, threadVars, stats, watched>>

(* The object that a call names, the file that recvfrom waits on, and the   *)
(* interface of a bind, the limit of a wait, a counter and its value, or    *)
(* what a receive gave: the interface of a frame or an exception.           *)
Local(s, f, a, n) == [sock |-> s, file |-> f, arg |-> a, loaded |-> n]
Nothing == Local(None, None, None, 0)

Init ==
  /\ phase = [s \in Sockets |-> "new"]
  /\ mode = [s \in Sockets |-> "RAW"]
  /\ fd = [s \in Sockets |-> 0]
  /\ boundTo = [s \in Sockets |-> None]
  /\ descriptors = [d \in Descriptors |-> IF d = 0 THEN Foreign ELSE Free]
  /\ bound = [s \in Sockets |-> None]
  /\ timeout = [s \in Sockets |-> "forever"]
  /\ queue = [s \in Sockets |-> <<>>]
  /\ pc = [t \in Threads |-> "idle"]
  /\ local = [t \in Threads |-> Nothing]
  /\ stats = [c \in {"Send", "Receive"} |-> 0]
  /\ late = {}
  /\ raced = {}
  /\ asked = [s \in Sockets |-> {}]

-----------------------------------------------------------------------------
(* The kernel.  A new file gets the lowest descriptor that is free.         *)
LowestFree(d) == descriptors[d] = Free /\ \A e \in Descriptors : e < d => descriptors[e] # Free
File(s) == descriptors[fd[s]]
IsCan(f) == f \in Sockets
IsRaw(f) == f \in Sockets /\ mode[f] = "RAW"

(* A file lives while a descriptor or a waiting call refers to it.          *)
Referenced(f) ==
  \/ \E d \in Descriptors : descriptors[d] = f
  \/ \E t \in Threads : pc[t] = "recvfrom" /\ local[t].file = f
Hears(f, i) == Referenced(f) /\ bound[f] \in {i, ALL} /\ Len(queue[f]) < QueueMax
Deliver(sender, i) ==
  queue' = [f \in Sockets |-> IF f # sender /\ Hears(f, i) THEN Append(queue[f], i) ELSE queue[f]]

(* Frames from the bus, and files of the rest of the process.               *)
Arrive(i) ==
  /\ Deliver(Foreign, i)
  /\ UNCHANGED <<objectVars, descriptors, bound, timeout, threadVars, stats, watched>>
ForeignOpens(d) ==
  /\ LowestFree(d)
  /\ descriptors' = [descriptors EXCEPT ![d] = Foreign]
  /\ UNCHANGED <<objectVars, bound, timeout, queue, threadVars, stats, watched>>
ForeignCloses(d) ==
  /\ descriptors[d] = Foreign
  /\ descriptors' = [descriptors EXCEPT ![d] = Free]
  /\ UNCHANGED <<objectVars, bound, timeout, queue, threadVars, stats, watched>>

-----------------------------------------------------------------------------
(* The constructor.  It prints the exception of an open that fails, and     *)
(* leaves the object with the 0 that Java puts into every new int.          *)
Open(s, m) == \E d \in Descriptors :
  /\ phase[s] = "new" /\ LowestFree(d)
  /\ phase' = [phase EXCEPT ![s] = "open"]
  /\ mode' = [mode EXCEPT ![s] = m]
  /\ fd' = [fd EXCEPT ![s] = d]
  /\ descriptors' = [descriptors EXCEPT ![d] = s]
  /\ UNCHANGED <<boundTo, bound, timeout, queue, threadVars, stats, watched>>
OpenFails(s) ==
  /\ phase[s] = "new"
  /\ phase' = [phase EXCEPT ![s] = "failed"]
  /\ UNCHANGED <<mode, fd, boundTo, kernelVars, threadVars, stats, watched>>

(* What every other call has in common: the object's number, closed or not. *)
Calls(s) == phase[s] # "new" /\ late' = late \cup {d \in {fd[s]} : phase[s] = "closed"}

Close(s) ==
  /\ Calls(s)
  /\ phase' = [phase EXCEPT ![s] = "closed"]
  /\ descriptors' = [descriptors EXCEPT ![fd[s]] = Free]
  /\ UNCHANGED <<mode, fd, boundTo, bound, timeout, queue, threadVars, stats, raced, asked>>

SetReceiveTimeout(s, limit) ==
  /\ Calls(s)
  /\ timeout' = [f \in Sockets |-> IF f = File(s) THEN limit ELSE timeout[f]]
  /\ UNCHANGED <<objectVars, descriptors, bound, queue, threadVars, stats, raced, asked>>

(* Two steps: the system call, then the assignment of _boundTo.             *)
Bind(t, s, i) ==
  /\ pc[t] = "idle" /\ Calls(s) /\ IsRaw(File(s))
  /\ bound' = [bound EXCEPT ![File(s)] = i]
  /\ pc' = [pc EXCEPT ![t] = "bound"]
  /\ local' = [local EXCEPT ![t] = Local(s, None, i, 0)]
  /\ raced' = raced \cup {r \in {s} : \E u \in Threads : pc[u] = "bound" /\ local[u].sock = r}
  /\ asked' = [asked EXCEPT ![s] = @ \cup {i}]
  /\ UNCHANGED <<objectVars, descriptors, timeout, queue, stats>>
BindReturns(t) ==
  /\ pc[t] = "bound"
  /\ boundTo' = [boundTo EXCEPT ![local[t].sock] = local[t].arg]
  /\ pc' = [pc EXCEPT ![t] = "idle"]
  /\ local' = [local EXCEPT ![t] = Nothing]
  /\ UNCHANGED <<phase, mode, fd, kernelVars, stats, watched>>

(* As BindFails, with _boundTo assigned before the native call.             *)
BindFailsAfterAssignment(t, s) ==
  /\ pc[t] = "idle" /\ Calls(s)
  /\ \E i \in Interfaces \cup {ALL} : boundTo' = [boundTo EXCEPT ![s] = i]
  /\ UNCHANGED <<phase, mode, fd, kernelVars, threadVars, stats, raced, asked>>

(* No raw socket behind the number, or no such interface any more.          *)
BindFails(t, s) ==
  /\ pc[t] = "idle" /\ Calls(s)
  /\ UNCHANGED <<objectVars, kernelVars, threadVars, stats, raced, asked>>

-----------------------------------------------------------------------------
(* counter++ without synchronisation, before an exception: a load, then a   *)
(* store.                                                                   *)
CountAndThrow(t, counter) ==
  /\ stats[counter] < MaxErrors
  /\ pc' = [pc EXCEPT ![t] = "count"]
  /\ local' = [local EXCEPT ![t] = Local(None, None, counter, 0)]
LoadCounter(t) ==
  /\ pc[t] = "count"
  /\ pc' = [pc EXCEPT ![t] = "counted"]
  /\ local' = [local EXCEPT ![t] = Local(None, None, local[t].arg, stats[local[t].arg])]
  /\ UNCHANGED <<objectVars, kernelVars, stats, watched>>
StoreCounter(t) ==
  /\ pc[t] = "counted"
  /\ stats' = [stats EXCEPT ![local[t].arg] = local[t].loaded + 1]
  /\ pc' = [pc EXCEPT ![t] = "idle"]
  /\ local' = [local EXCEPT ![t] = Nothing]
  /\ UNCHANGED <<objectVars, kernelVars, watched>>

Send(t, s, i) ==
  /\ pc[t] = "idle" /\ Calls(s) /\ IsRaw(File(s))
  /\ Deliver(File(s), i)
  /\ UNCHANGED <<objectVars, descriptors, bound, timeout, threadVars, stats, raced, asked>>
(* No raw socket, no interface, no buffer.                                  *)
SendFails(t, s) ==
  /\ pc[t] = "idle" /\ Calls(s)
  /\ CountAndThrow(t, "Send")
  /\ UNCHANGED <<objectVars, kernelVars, stats, raced, asked>>

-----------------------------------------------------------------------------
illegalAddress(len) ==
  \/ CAN_NPROTO = 8 /\ len # 8
  \/ CAN_NPROTO = 7 /\ len # SizeofAddr

(* The end of a receive: the length of the address is tested first, then    *)
(* what recvfrom returned.  A frame of another size is counted as an error. *)
RecvReturns(t, s, len, complete, result) ==
  \/ /\ illegalAddress(len) \/ ~complete
     /\ CountAndThrow(t, "Receive")
  \/ /\ ~illegalAddress(len) /\ complete
     /\ pc' = [pc EXCEPT ![t] = "received"]
     /\ local' = [local EXCEPT ![t] = Local(s, None, result, 0)]
(* A recvfrom that returns -1 leaves the length as it was handed over.      *)
RecvError(t, s) == RecvReturns(t, s, SizeofAddr, TRUE, "IOException")

(* The frame becomes a CanFrame, or is lost: no class, no array, no memory. *)
ToJava(frame) == {frame, "Throwable"}
RecvIsOver(t) ==
  /\ pc[t] = "received"
  /\ pc' = [pc EXCEPT ![t] = "idle"]
  /\ local' = [local EXCEPT ![t] = Nothing]
  /\ UNCHANGED <<objectVars, kernelVars, stats, watched>>

Recv(t, s) ==
  /\ pc[t] = "idle" /\ Calls(s) /\ IsCan(File(s))
  /\ pc' = [pc EXCEPT ![t] = "recvfrom"]
  /\ local' = [local EXCEPT ![t] = Local(s, File(s), timeout[File(s)], 0)]
  /\ UNCHANGED <<objectVars, kernelVars, stats, raced, asked>>
RecvRefused(t, s) ==
  /\ pc[t] = "idle" /\ Calls(s) /\ ~IsCan(File(s))
  /\ RecvError(t, s)
  /\ UNCHANGED <<objectVars, kernelVars, stats, raced, asked>>
RecvFrame(t) ==
  LET f == local[t].file IN
  /\ pc[t] = "recvfrom" /\ queue[f] # <<>>
  /\ queue' = [queue EXCEPT ![f] = Tail(@)]
  /\ \E complete \in BOOLEAN, result \in ToJava(Head(queue[f])) :
       RecvReturns(t, local[t].sock, KernelAddrLen, complete, result)
  /\ UNCHANGED <<objectVars, descriptors, bound, timeout, stats, watched>>

(* As RecvTimesOut, with a second recvfrom on the same number.              *)
RecvTimesOutAndRetries(t) ==
  LET s == local[t].sock IN
  /\ pc[t] = "recvfrom" /\ local[t].arg = "limited" /\ IsCan(File(s))
  /\ local' = [local EXCEPT ![t].file = File(s)]
  /\ UNCHANGED <<objectVars, kernelVars, pc, stats, watched>>
(* As RecvTimesOut, closing the number as if the socket were broken.        *)
RecvTimesOutAndCloses(t) ==
  /\ pc[t] = "recvfrom" /\ local[t].arg = "limited"
  /\ RecvError(t, local[t].sock)
  /\ descriptors' = [descriptors EXCEPT ![fd[local[t].sock]] = Free]
  /\ UNCHANGED <<objectVars, bound, timeout, queue, stats, watched>>
RecvTimesOut(t) ==
  /\ pc[t] = "recvfrom" /\ local[t].arg = "limited"
  /\ RecvError(t, local[t].sock)
  /\ UNCHANGED <<objectVars, kernelVars, stats, watched>>

-----------------------------------------------------------------------------
Kernel ==
  \/ \E i \in Interfaces : Arrive(i)
  \/ \E d \in Descriptors : ForeignOpens(d) \/ ForeignCloses(d)
Object(s) ==
  \/ \E m \in {"RAW", "BCM"} : Open(s, m)
  \/ OpenFails(s) \/ Close(s)
  \/ \E limit \in {"limited", "forever"} : SetReceiveTimeout(s, limit)
Call(t, s) ==
  \/ \E i \in Interfaces \cup {ALL} : Bind(t, s, i)
  \/ \E i \in Interfaces : Send(t, s, i)
  \/ BindFails(t, s) \/ SendFails(t, s) \/ Recv(t, s) \/ RecvRefused(t, s)
Thread(t) ==
  \/ BindReturns(t) \/ LoadCounter(t) \/ StoreCounter(t)
  \/ RecvFrame(t) \/ RecvTimesOut(t) \/ RecvIsOver(t)

Next ==
  \/ Kernel
  \/ \E s \in Sockets : Object(s) \/ \E t \in Threads : Call(t, s)
  \/ \E t \in Threads : Thread(t)
Spec == Init /\ [][Next]_vars

-----------------------------------------------------------------------------
Argument ==
  Interfaces \cup {ALL, None, "limited", "forever", "Send", "Receive", "IOException", "Throwable"}
Locals == [sock : Sockets \cup {None}, file : Sockets \cup {None}, arg : Argument, loaded : Nat]

(* The locals that a thread needs at the place where it is.                 *)
LocalsOf(t) ==
  /\ pc[t] = "bound" => local[t].sock \in Sockets /\ local[t].arg \in Interfaces \cup {ALL}
  /\ pc[t] = "recvfrom" => local[t].sock \in Sockets /\ local[t].file \in Sockets
  /\ pc[t] = "received" => local[t].sock \in Sockets
  /\ pc[t] \in {"count", "counted"} => local[t].arg \in {"Send", "Receive"}

TypeOK ==
  /\ phase \in [Sockets -> {"new", "open", "failed", "closed"}]
  /\ mode \in [Sockets -> {"RAW", "BCM"}]
  /\ fd \in [Sockets -> Descriptors]
  /\ boundTo \in [Sockets -> Interfaces \cup {ALL, None}]
  /\ descriptors \in [Descriptors -> Sockets \cup {Free, Foreign}]
  /\ bound \in [Sockets -> Interfaces \cup {ALL, None}]
  /\ timeout \in [Sockets -> {"limited", "forever"}]
  /\ queue \in [Sockets -> Seq(Interfaces)]
  /\ pc \in [Threads -> {"idle", "bound", "recvfrom", "received", "count", "counted"}]
  /\ local \in [Threads -> Locals] /\ \A t \in Threads : LocalsOf(t)
  /\ stats \in [{"Send", "Receive"} -> Nat]
  /\ late \subseteq Descriptors
  /\ raced \subseteq Sockets
  /\ asked \in [Sockets -> SUBSET (Interfaces \cup {ALL})]

(* A call through the number of an object that is closed does what it does  *)
(* to whoever has that number by now, and to nobody else: every open object *)
(* with another number keeps its own file behind it, however objects,       *)
(* failed ones too, and other files come and go.  Descriptor 0 is left to   *)
(* itself: every object that failed to open takes it for its own            *)
(* (CanSocket.java:744-771, 787-789).                                       *)
Trusted(s) == fd[s] \notin late \cup {0}
OwnDescriptor == \A s \in Sockets :
  phase[s] = "open" /\ Trusted(s) => descriptors[fd[s]] = s

(* _boundTo is what the kernel has bound the object's file to, also after   *)
(* binds that failed, as long as one thread at a time binds it              *)
(* (CanSocket.java:773-776).                                                *)
BoundAsRecorded == \A s \in Sockets :
  phase[s] = "open" /\ Trusted(s) /\ s \notin raced
    /\ (\A t \in Threads : ~(pc[t] = "bound" /\ local[t].sock = s))
  => boundTo[s] = bound[s]

(* A frame that recv returns came over an interface that this very object   *)
(* was told to bind to, now or earlier, also when the object was closed     *)
(* under the receive and its number given to another object, with frames of *)
(* its own, before the receive came back (CanSocket.java:773-789,           *)
(* cansocket.cpp:173-218).                                                  *)
ReceivesWhatItBound == \A t \in Threads :
  pc[t] = "received" /\ local[t].arg \in Interfaces /\ Trusted(local[t].sock)
  => asked[local[t].sock] \cap {local[t].arg, ALL} # {}
=============================================================================
