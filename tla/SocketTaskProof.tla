--------------------------- MODULE SocketTaskProof ---------------------------
(***************************************************************************)
(* Which descriptor is whose, and whose files the cyclical send task writes *)
(* to, for any number of objects, threads, files, identifiers and           *)
(* descriptors.                                                             *)
(***************************************************************************)
EXTENDS SocketTask, TLAPS

-----------------------------------------------------------------------------
(* The sockets by themselves (SocketLifecycle).                             *)

(* What the constructor leaves: a number for what was opened, else 0, and   *)
(* an object that is new has done nothing.                                  *)
NumbersOf == \A s \in Sockets :
  /\ phase[s] \in {"new", "failed"} => fd[s] = 0
  /\ phase[s] = "new" => boundTo[s] = None /\ bound[s] = None

(* A file is behind the number of its own object or behind none.            *)
FilesOf == \A d \in Descriptors : descriptors[d] \in Sockets =>
  phase[descriptors[d]] # "new" /\ fd[descriptors[d]] = d

InCall == {"bound", "recvfrom", "received"}
CallsOf == \A t \in Threads : pc[t] \in InCall => phase[local[t].sock] # "new"

(* A thread on its way out of bind carries what the file is bound to.       *)
Binds(t, s) == pc[t] = "bound" /\ local[t].sock = s
BindsOf == \A s \in Sockets : phase[s] = "open" /\ Trusted(s) /\ s \notin raced =>
  \A t \in Threads : Binds(t, s) =>
    local[t].arg = bound[s] /\ \A u \in Threads : Binds(u, s) => u = t

(* A receive through a trusted number waits on the object's own file, and   *)
(* such a file has only heard what the object was bound to.                 *)
WaitsOnOwnFile == \A t \in Threads :
  pc[t] = "recvfrom" /\ Trusted(local[t].sock) => local[t].file = local[t].sock
Covers(s, i) == asked[s] \cap {i, ALL} # {}
AskedOf == \A s \in Sockets : phase[s] = "new" \/ Trusted(s) =>
  /\ bound[s] \in asked[s] \cup {None}
  /\ \A k \in 1..Len(queue[s]) : Covers(s, queue[s][k])

-----------------------------------------------------------------------------
(* A call that counts or ends touches its thread only.                      *)
LEMMA CountTyped ==
  ASSUME TypeOK, NEW t \in Threads, NEW c \in {"Send", "Receive"}, CountAndThrow(t, c)
  PROVE  /\ pc' \in [Threads -> {"idle", "bound", "recvfrom", "received", "count", "counted"}]
         /\ local' \in [Threads -> Locals] /\ \A u \in Threads : LocalsOf(u)'
  BY DEF TypeOK, CountAndThrow, LocalsOf, Locals, Local, Argument

LEMMA ReturnTyped ==
  ASSUME TypeOK, NEW t \in Threads, NEW s \in Sockets, NEW len, NEW complete,
         NEW v \in Interfaces \cup {"IOException", "Throwable"}, RecvReturns(t, s, len, complete, v)
  PROVE  /\ pc' \in [Threads -> {"idle", "bound", "recvfrom", "received", "count", "counted"}]
         /\ local' \in [Threads -> Locals] /\ \A u \in Threads : LocalsOf(u)'
  <1>1. CASE CountAndThrow(t, "Receive")
    BY <1>1, CountTyped
  <1>2. CASE pc' = [pc EXCEPT ![t] = "received"]
             /\ local' = [local EXCEPT ![t] = Local(s, None, v, 0)]
    BY <1>2 DEF TypeOK, LocalsOf, Locals, Local, Argument
  <1> QED BY <1>1, <1>2 DEF RecvReturns

LEMMA QueueTyped ==
  ASSUME TypeOK, NEW f, NEW i \in Interfaces, Deliver(f, i)
  PROVE  queue' \in [Sockets -> Seq(Interfaces)]
  <1>1. \A g \in Sockets : Append(queue[g], i) \in Seq(Interfaces)
    BY DEF TypeOK
  <1> QED BY <1>1 DEF TypeOK, Deliver

-----------------------------------------------------------------------------
LEMMA TypeInit == Init => TypeOK
  BY NamesAssumption, SizesAssumption
  DEF Init, TypeOK, LocalsOf, Locals, Local, Nothing, Argument, Descriptors

LEMMA KernelTyped == ASSUME TypeOK, Kernel PROVE TypeOK'
  <1>1. ASSUME NEW i \in Interfaces, Arrive(i) PROVE TypeOK'
    <2>1. queue' \in [Sockets -> Seq(Interfaces)]
      BY <1>1, QueueTyped DEF Arrive
    <2> QED BY <1>1, <2>1 DEF Arrive, TypeOK, LocalsOf, objectVars, threadVars, watched
  <1>2. ASSUME NEW d \in Descriptors, ForeignOpens(d) PROVE TypeOK'
    BY <1>2 DEF ForeignOpens, TypeOK, LocalsOf, objectVars, threadVars, watched
  <1>3. ASSUME NEW d \in Descriptors, ForeignCloses(d) PROVE TypeOK'
    BY <1>3 DEF ForeignCloses, TypeOK, LocalsOf, objectVars, threadVars, watched
  <1> QED BY <1>1, <1>2, <1>3 DEF Kernel

LEMMA ObjectTyped == ASSUME TypeOK, NEW s \in Sockets, Object(s) PROVE TypeOK'
  <1>1. ASSUME NEW m \in {"RAW", "BCM"}, Open(s, m) PROVE TypeOK'
    BY <1>1 DEF Open, TypeOK, LocalsOf, threadVars, watched
  <1>2. CASE OpenFails(s)
    BY <1>2 DEF OpenFails, TypeOK, LocalsOf, kernelVars, threadVars, watched
  <1>3. CASE Close(s)
    BY <1>3 DEF Close, Calls, TypeOK, LocalsOf, threadVars, watched
  <1>4. ASSUME NEW limit \in {"limited", "forever"}, SetReceiveTimeout(s, limit) PROVE TypeOK'
    BY <1>4 DEF SetReceiveTimeout, Calls, TypeOK, LocalsOf, objectVars, threadVars, watched
  <1> QED BY <1>1, <1>2, <1>3, <1>4 DEF Object

LEMMA CallTyped ==
  ASSUME TypeOK, NEW t \in Threads, NEW s \in Sockets, Call(t, s) PROVE TypeOK'
  <1>1. ASSUME NEW i \in Interfaces \cup {ALL}, Bind(t, s, i) PROVE TypeOK'
    <2>1. local' \in [Threads -> Locals] /\ \A u \in Threads : LocalsOf(u)'
      BY <1>1 DEF Bind, TypeOK, LocalsOf, Locals, Local, Argument
    <2> QED BY <1>1, <2>1 DEF Bind, Calls, TypeOK, objectVars
  <1>2. ASSUME NEW i \in Interfaces, Send(t, s, i) PROVE TypeOK'
    <2>1. queue' \in [Sockets -> Seq(Interfaces)]
      BY <1>2, QueueTyped DEF Send
    <2> QED BY <1>2, <2>1 DEF Send, Calls, TypeOK, LocalsOf, objectVars, threadVars, watched
  <1>3. CASE BindFails(t, s)
    BY <1>3 DEF BindFails, Calls, TypeOK, LocalsOf, objectVars, kernelVars, threadVars, watched
  <1>4. CASE SendFails(t, s)
    BY <1>4, CountTyped DEF SendFails, Calls, TypeOK, objectVars, kernelVars
  <1>5. CASE Recv(t, s)
    <2>1. timeout[File(s)] \in {"limited", "forever"} /\ File(s) \in Sockets
      BY <1>5 DEF Recv, IsCan, TypeOK
    <2>2. local' \in [Threads -> Locals] /\ \A u \in Threads : LocalsOf(u)'
      BY <1>5, <2>1 DEF Recv, TypeOK, LocalsOf, Locals, Local, Argument
    <2> QED BY <1>5, <2>2 DEF Recv, Calls, TypeOK, objectVars, kernelVars
  <1>6. CASE RecvRefused(t, s)
    BY <1>6, ReturnTyped DEF RecvRefused, RecvError, Calls, TypeOK, objectVars, kernelVars
  <1> QED BY <1>1, <1>2, <1>3, <1>4, <1>5, <1>6 DEF Call

LEMMA ThreadTyped == ASSUME TypeOK, NEW t \in Threads, Thread(t) PROVE TypeOK'
  <1>1. CASE BindReturns(t)
    BY <1>1 DEF BindReturns, TypeOK, LocalsOf, Locals, Local, Nothing, Argument, kernelVars, watched
  <1>2. CASE LoadCounter(t)
    BY <1>2 DEF LoadCounter, TypeOK, LocalsOf, Locals, Local, Argument, objectVars, kernelVars, watched
  <1>3. CASE StoreCounter(t)
    <2>1. local[t].loaded + 1 \in Nat
      BY DEF TypeOK, Locals
    <2> QED
      BY <1>3, <2>1 DEF StoreCounter, TypeOK, LocalsOf, Locals, Local, Nothing, Argument, objectVars, kernelVars, watched
  <1>4. CASE RecvFrame(t)
    <2>1. Head(queue[local[t].file]) \in Interfaces /\ Tail(queue[local[t].file]) \in Seq(Interfaces)
      BY <1>4 DEF RecvFrame, TypeOK, LocalsOf
    <2>2. queue' \in [Sockets -> Seq(Interfaces)]
      BY <1>4, <2>1 DEF RecvFrame, TypeOK, LocalsOf
    <2>3. /\ pc' \in [Threads -> {"idle", "bound", "recvfrom", "received", "count", "counted"}]
          /\ local' \in [Threads -> Locals] /\ \A u \in Threads : LocalsOf(u)'
      BY <1>4, <2>1, ReturnTyped DEF RecvFrame, ToJava, TypeOK, LocalsOf
    <2> QED BY <1>4, <2>2, <2>3 DEF RecvFrame, TypeOK, objectVars, watched
  <1>5. CASE RecvTimesOut(t)
    <2>1. local[t].sock \in Sockets
      BY <1>5 DEF RecvTimesOut, TypeOK, LocalsOf
    <2> QED BY <1>5, <2>1, ReturnTyped DEF RecvTimesOut, RecvError, TypeOK, objectVars, kernelVars, watched
  <1>6. CASE RecvIsOver(t)
    BY <1>6 DEF RecvIsOver, TypeOK, LocalsOf, Locals, Local, Nothing, Argument, objectVars, kernelVars, watched
  <1> QED BY <1>1, <1>2, <1>3, <1>4, <1>5, <1>6 DEF Thread

LEMMA TypeStep == TypeOK /\ [Next]_vars => TypeOK'
  <1> SUFFICES ASSUME TypeOK, [Next]_vars PROVE TypeOK'
    OBVIOUS
  <1>1. CASE UNCHANGED vars
    BY <1>1 DEF vars, objectVars, kernelVars, threadVars, watched, TypeOK, LocalsOf
  <1> QED BY <1>1, KernelTyped, ObjectTyped, CallTyped, ThreadTyped DEF Next

-----------------------------------------------------------------------------
Rest ==
  /\ NumbersOf /\ FilesOf /\ CallsOf /\ BindsOf /\ OwnDescriptor /\ WaitsOnOwnFile
  /\ BoundAsRecorded /\ AskedOf /\ ReceivesWhatItBound

(* A step that neither opens, closes nor binds, and starts no receive: what *)
(* it puts into a queue comes over the interface that the file is bound to, *)
(* and a receive that it ends gives what the object was bound to.           *)
Queues == \A s \in Sockets : \A k \in 1..Len(queue'[s]) :
  \/ \E j \in 1..Len(queue[s]) : queue'[s][k] = queue[s][j]
  \/ bound[s] \in {queue'[s][k], ALL} /\ bound[s] # None
Gives(t) ==
  /\ pc'[t] = "received"
  /\ local'[t].sock \in Sockets /\ phase[local'[t].sock] # "new"
  /\ local'[t].arg \in Interfaces /\ Trusted(local'[t].sock) =>
       Covers(local'[t].sock, local'[t].arg)
Returns == \A t \in Threads :
  /\ pc'[t] \in InCall => (pc'[t] = pc[t] /\ local'[t] = local[t]) \/ Gives(t)
  /\ pc[t] = "bound" => pc'[t] = "bound" /\ local'[t] = local[t]
Quiet ==
  /\ UNCHANGED <<phase, fd, boundTo, descriptors, bound, raced, asked>>
  /\ late \subseteq late'
  /\ Queues
  /\ Returns

LEMMA AskedStep ==
  ASSUME TypeOK, Rest, UNCHANGED <<phase, fd, bound, asked>>, late \subseteq late', Queues
  PROVE  AskedOf'
  <1> SUFFICES ASSUME NEW s \in Sockets, phase[s] = "new" \/ Trusted(s)
               PROVE  /\ bound[s] \in asked[s] \cup {None}
                      /\ \A k \in 1..Len(queue'[s]) : Covers(s, queue'[s][k])
    BY DEF AskedOf, Covers, Trusted
  <1>1. /\ bound[s] \in asked[s] \cup {None}
        /\ \A k \in 1..Len(queue[s]) : Covers(s, queue[s][k])
    BY DEF Rest, AskedOf
  <1>2. ASSUME NEW k \in 1..Len(queue'[s]) PROVE Covers(s, queue'[s][k])
    <2>1. CASE \E j \in 1..Len(queue[s]) : queue'[s][k] = queue[s][j]
      BY <1>1, <2>1
    <2>2. CASE bound[s] \in {queue'[s][k], ALL} /\ bound[s] # None
      BY <1>1, <2>2 DEF Covers
    <2> QED BY <2>1, <2>2 DEF Queues
  <1> QED BY <1>1, <1>2

LEMMA QuietStep == ASSUME TypeOK, Rest, Quiet PROVE Rest'
  <1>1. NumbersOf' /\ FilesOf' /\ OwnDescriptor'
    BY DEF Rest, Quiet, NumbersOf, FilesOf, OwnDescriptor, Trusted
  <1>2. CallsOf' /\ WaitsOnOwnFile'
    BY DEF Rest, Quiet, Returns, Gives, CallsOf, WaitsOnOwnFile, Trusted, InCall
  <1>3. BindsOf'
    BY DEF Rest, Quiet, Returns, Gives, BindsOf, Binds, Trusted, InCall
  <1>4. BoundAsRecorded'
    BY DEF Rest, Quiet, Returns, Gives, BoundAsRecorded, Trusted, InCall
  <1>5. AskedOf'
    BY AskedStep DEF Quiet
  <1>6. ReceivesWhatItBound'
    <2> SUFFICES ASSUME NEW t \in Threads, pc'[t] = "received", local'[t].arg \in Interfaces,
                        Trusted(local'[t].sock)
                 PROVE  Covers(local'[t].sock, local'[t].arg)
      BY DEF Quiet, ReceivesWhatItBound, Covers, Trusted
    <2>1. (pc[t] = "received" /\ local'[t] = local[t]) \/ Gives(t)
      BY DEF Quiet, Returns, InCall
    <2> QED BY <2>1 DEF Rest, ReceivesWhatItBound, Gives, Covers
  <1> QED BY <1>1, <1>2, <1>3, <1>4, <1>5, <1>6 DEF Rest

LEMMA OpenStep ==
  ASSUME TypeOK, Rest, NEW s \in Sockets, NEW m \in {"RAW", "BCM"}, Open(s, m) PROVE Rest'
  <1> PICK d \in Descriptors :
        /\ descriptors[d] = Free
        /\ fd' = [fd EXCEPT ![s] = d] /\ descriptors' = [descriptors EXCEPT ![d] = s]
    BY DEF Open, LowestFree
  <1>1. /\ phase[s] = "new" /\ phase' = [phase EXCEPT ![s] = "open"]
        /\ UNCHANGED <<boundTo, bound, queue, pc, local, late, raced, asked>>
    BY DEF Open, threadVars, watched
  <1>2. \A e \in Descriptors : descriptors[e] # s
    BY <1>1 DEF Rest, FilesOf
  <1>3. \A t \in Threads : pc[t] \in InCall => local[t].sock # s
    BY <1>1 DEF Rest, CallsOf
  <1>4. NumbersOf'
    BY <1>1 DEF Rest, NumbersOf, TypeOK
  <1>5. FilesOf'
    BY <1>1, <1>2 DEF Rest, FilesOf, TypeOK
  <1>6. CallsOf'
    BY <1>1, <1>3 DEF Rest, CallsOf, TypeOK, LocalsOf, InCall
  <1>7. BindsOf'
    <2> SUFFICES ASSUME NEW r \in Sockets, (phase[r] = "open" /\ Trusted(r) /\ r \notin raced)',
                        NEW t \in Threads, Binds(t, r)'
                 PROVE  (local[t].arg = bound[r] /\ \A u \in Threads : Binds(u, r) => u = t)'
      BY DEF BindsOf
    <2>1. r # s /\ Binds(t, r)
      BY <1>1, <1>3 DEF Binds, InCall
    <2> QED BY <1>1, <2>1 DEF Rest, BindsOf, Binds, Trusted, TypeOK
  <1>8. OwnDescriptor'
    BY <1>1, NamesAssumption DEF Rest, OwnDescriptor, Trusted, TypeOK
  <1>9. WaitsOnOwnFile'
    BY <1>1, <1>3 DEF Rest, WaitsOnOwnFile, Trusted, TypeOK, LocalsOf, InCall
  <1>10. BoundAsRecorded'
    <2> SUFFICES ASSUME NEW r \in Sockets,
                        (phase[r] = "open" /\ Trusted(r) /\ r \notin raced)',
                        \A t \in Threads : ~(pc[t] = "bound" /\ local[t].sock = r)
                 PROVE  boundTo[r] = bound[r]
      BY <1>1 DEF BoundAsRecorded
    <2> QED BY <1>1 DEF Rest, NumbersOf, BoundAsRecorded, Trusted, TypeOK
  <1>11. AskedOf'
    <2> SUFFICES ASSUME NEW r \in Sockets, (phase[r] = "new" \/ Trusted(r))'
                 PROVE  phase[r] = "new" \/ Trusted(r)
      BY <1>1 DEF Rest, AskedOf, Covers
    <2> QED BY <1>1 DEF Trusted, TypeOK
  <1>12. ReceivesWhatItBound'
    BY <1>1, <1>3 DEF Rest, ReceivesWhatItBound, Trusted, TypeOK, LocalsOf, InCall
  <1> QED BY <1>4, <1>5, <1>6, <1>7, <1>8, <1>9, <1>10, <1>11, <1>12 DEF Rest

LEMMA OpenFailsStep == ASSUME TypeOK, Rest, NEW s \in Sockets, OpenFails(s) PROVE Rest'
  <1>1. /\ phase[s] = "new" /\ phase' = [phase EXCEPT ![s] = "failed"]
        /\ UNCHANGED <<fd, boundTo, descriptors, bound, queue, pc, local, late, raced, asked>>
    BY DEF OpenFails, kernelVars, threadVars, watched
  <1>2. NumbersOf' /\ FilesOf'
    BY <1>1 DEF Rest, NumbersOf, FilesOf, TypeOK
  <1>3. CallsOf' /\ WaitsOnOwnFile' /\ ReceivesWhatItBound'
    BY <1>1 DEF Rest, CallsOf, WaitsOnOwnFile, ReceivesWhatItBound, Trusted, TypeOK, LocalsOf, InCall
  <1>4. BindsOf' /\ OwnDescriptor' /\ BoundAsRecorded'
    BY <1>1 DEF Rest, BindsOf, Binds, OwnDescriptor, BoundAsRecorded, Trusted, TypeOK
  <1>5. AskedOf'
    BY <1>1 DEF Rest, AskedOf, Covers, Trusted, TypeOK
  <1> QED BY <1>2, <1>3, <1>4, <1>5 DEF Rest

LEMMA CloseStep == ASSUME TypeOK, Rest, NEW s \in Sockets, Close(s) PROVE Rest'
  <1>1. /\ phase[s] # "new" /\ phase' = [phase EXCEPT ![s] = "closed"]
        /\ descriptors' = [descriptors EXCEPT ![fd[s]] = Free]
        /\ late \subseteq late' /\ (phase[s] = "closed" => fd[s] \in late')
        /\ UNCHANGED <<fd, boundTo, bound, queue, pc, local, raced, asked>>
    BY DEF Close, Calls, threadVars
  <1>2. NumbersOf' /\ FilesOf'
    BY <1>1, NamesAssumption DEF Rest, NumbersOf, FilesOf, TypeOK
  <1>3. CallsOf' /\ WaitsOnOwnFile' /\ ReceivesWhatItBound'
    BY <1>1 DEF Rest, CallsOf, WaitsOnOwnFile, ReceivesWhatItBound, Trusted, TypeOK, LocalsOf, InCall
  <1>4. BindsOf' /\ BoundAsRecorded'
    BY <1>1 DEF Rest, BindsOf, Binds, BoundAsRecorded, Trusted, TypeOK
  <1>5. OwnDescriptor'
    <2> SUFFICES ASSUME NEW r \in Sockets, phase'[r] = "open", fd[r] \notin late' \cup {0}
                 PROVE  descriptors'[fd[r]] = r
      BY <1>1 DEF OwnDescriptor, Trusted
    <2>1. r # s /\ phase[r] = "open" /\ descriptors[fd[r]] = r
      BY <1>1 DEF Rest, OwnDescriptor, Trusted, TypeOK
    <2>2. fd[s] # fd[r]
      <3>1. CASE phase[s] = "failed"
        BY <3>1 DEF Rest, NumbersOf
      <3>2. CASE phase[s] = "open"
        BY <1>1, <2>1, <3>2 DEF Rest, OwnDescriptor, Trusted
      <3> QED BY <1>1, <3>1, <3>2 DEF TypeOK
    <2> QED BY <1>1, <2>1, <2>2 DEF TypeOK
  <1>6. AskedOf'
    BY <1>1 DEF Rest, AskedOf, Covers, Trusted, TypeOK
  <1> QED BY <1>2, <1>3, <1>4, <1>5, <1>6 DEF Rest

(* Somebody else's file comes to a free descriptor, or leaves its own.      *)
LEMMA ForeignStep ==
  ASSUME TypeOK, Rest, NEW d \in Descriptors, ForeignOpens(d) \/ ForeignCloses(d) PROVE Rest'
  <1>1. PICK f \in {Free, Foreign} :
          descriptors[d] \notin Sockets /\ descriptors' = [descriptors EXCEPT ![d] = f]
    BY NamesAssumption DEF ForeignOpens, ForeignCloses, LowestFree
  <1>2. UNCHANGED <<phase, fd, boundTo, bound, queue, pc, local, late, raced, asked>>
    BY DEF ForeignOpens, ForeignCloses, objectVars, threadVars, watched
  <1>3. NumbersOf' /\ FilesOf'
    BY <1>1, <1>2, NamesAssumption DEF Rest, NumbersOf, FilesOf, TypeOK
  <1>4. /\ CallsOf' /\ WaitsOnOwnFile' /\ BindsOf' /\ BoundAsRecorded'
        /\ AskedOf' /\ ReceivesWhatItBound'
    BY <1>2
    DEF Rest, CallsOf, WaitsOnOwnFile, BindsOf, Binds, BoundAsRecorded, AskedOf, Covers,
        ReceivesWhatItBound, Trusted
  <1>5. OwnDescriptor'
    BY <1>1, <1>2 DEF Rest, OwnDescriptor, Trusted, TypeOK
  <1> QED BY <1>3, <1>4, <1>5 DEF Rest

(* What the kernel finds behind a number that it is called with in time is  *)
(* the caller's file, and no other file is behind a number that is trusted. *)
LEMMA FileOfCaller ==
  ASSUME TypeOK, Rest, NEW s \in Sockets, Calls(s)
  PROVE  /\ fd[s] \notin late' \cup {0} => File(s) = s
         /\ \A r \in Sockets : fd[r] \notin late' \cup {0} /\ File(s) = r => r = s
  <1>1. late \subseteq late' /\ (phase[s] = "closed" => fd[s] \in late') /\ phase[s] # "new"
    BY DEF Calls
  <1>2. fd[s] \notin late' \cup {0} => File(s) = s
    BY <1>1 DEF Rest, NumbersOf, OwnDescriptor, Trusted, File, TypeOK
  <1>3. ASSUME NEW r \in Sockets, fd[r] \notin late' \cup {0}, File(s) = r PROVE r = s
    BY <1>2, <1>3 DEF Rest, FilesOf, File, TypeOK
  <1> QED BY <1>2, <1>3

LEMMA BindStep ==
  ASSUME TypeOK, Rest, NEW t \in Threads, NEW s \in Sockets, NEW i \in Interfaces \cup {ALL},
         Bind(t, s, i)
  PROVE  Rest'
  <1>1. /\ pc[t] = "idle" /\ phase[s] # "new" /\ File(s) \in Sockets
        /\ late \subseteq late'
        /\ bound' = [bound EXCEPT ![File(s)] = i]
        /\ pc' = [pc EXCEPT ![t] = "bound"]
        /\ local' = [local EXCEPT ![t] = Local(s, None, i, 0)]
        /\ raced' = raced \cup {r \in {s} : \E u \in Threads : pc[u] = "bound" /\ local[u].sock = r}
        /\ asked' = [asked EXCEPT ![s] = @ \cup {i}]
        /\ UNCHANGED <<phase, fd, boundTo, descriptors, queue>>
    BY DEF Bind, Calls, IsRaw, objectVars
  <1>2. phase[File(s)] # "new"
    BY <1>1 DEF Rest, FilesOf, File, TypeOK
  <1>3. NumbersOf' /\ FilesOf' /\ OwnDescriptor'
    BY <1>1, <1>2 DEF Rest, NumbersOf, FilesOf, OwnDescriptor, Trusted, TypeOK
  <1>4. CallsOf' /\ WaitsOnOwnFile'
    BY <1>1 DEF Rest, CallsOf, WaitsOnOwnFile, Trusted, TypeOK, InCall, Local
  <1>5. \A u \in Threads \ {t} : pc'[u] = pc[u] /\ local'[u] = local[u]
    BY <1>1 DEF TypeOK
  <1>6. Binds(t, s)' /\ local'[t].arg = i /\ local'[t].sock = s /\ ~\E r \in Sockets : Binds(t, r)
    BY <1>1 DEF Binds, TypeOK, Local
  <1>7. ASSUME NEW r \in Sockets, fd[r] \notin late' \cup {0}, r # s
        PROVE  bound'[r] = bound[r] /\ \A u \in Threads : Binds(u, r)' <=> Binds(u, r)
    <2>1. File(s) # r
      BY <1>7, FileOfCaller DEF Bind
    <2> QED BY <1>1, <1>5, <1>6, <1>7, <2>1 DEF Binds, TypeOK
  <1>8. BindsOf'
    <2> SUFFICES ASSUME NEW r \in Sockets, phase[r] = "open", fd[r] \notin late' \cup {0},
                        r \notin raced', NEW u \in Threads, Binds(u, r)'
                 PROVE  local'[u].arg = bound'[r] /\ \A v \in Threads : Binds(v, r)' => v = u
      BY <1>1 DEF BindsOf, Trusted
    <2>1. CASE r # s
      <3>1. u # t /\ Binds(u, r) /\ r \notin raced
        BY <1>1, <1>6, <1>7, <2>1 DEF Binds, TypeOK
      <3> QED BY <1>1, <1>5, <1>7, <2>1, <3>1 DEF Rest, BindsOf, Trusted
    <2>2. CASE r = s
      <3>1. \A v \in Threads : ~Binds(v, s)
        BY <1>1, <2>2 DEF Binds
      <3>2. \A v \in Threads : Binds(v, s)' => v = t
        BY <1>5, <3>1 DEF Binds
      <3>3. bound'[s] = i
        BY <1>1, <2>2, FileOfCaller DEF Bind, TypeOK
      <3> QED BY <1>6, <2>2, <3>2, <3>3
    <2> QED BY <2>1, <2>2
  <1>9. BoundAsRecorded'
    <2> SUFFICES ASSUME NEW r \in Sockets, phase[r] = "open", fd[r] \notin late' \cup {0},
                        r \notin raced', \A u \in Threads : ~Binds(u, r)'
                 PROVE  boundTo[r] = bound'[r]
      BY <1>1 DEF BoundAsRecorded, Trusted, Binds
    <2>1. r # s
      BY <1>6
    <2> QED BY <1>1, <1>7, <2>1 DEF Rest, BoundAsRecorded, Trusted, Binds, TypeOK
  <1>10. AskedOf'
    <2>1. \A r \in Sockets : asked[r] \subseteq asked'[r]
      BY <1>1 DEF TypeOK
    <2> SUFFICES ASSUME NEW r \in Sockets, phase[r] = "new" \/ fd[r] \notin late' \cup {0}
                 PROVE  /\ bound'[r] \in asked'[r] \cup {None}
                        /\ \A k \in 1..Len(queue[r]) : Covers(r, queue[r][k])'
      BY <1>1 DEF AskedOf, Trusted, Covers
    <2>2. /\ bound[r] \in asked[r] \cup {None}
          /\ \A k \in 1..Len(queue[r]) : Covers(r, queue[r][k])
      BY <1>1 DEF Rest, AskedOf, Trusted
    <2>3. bound'[r] \in asked'[r] \cup {None}
      <3>1. CASE File(s) = r
        <4>1. r = s
          BY <1>2, <3>1, FileOfCaller DEF Bind
        <4> QED BY <1>1, <3>1, <4>1 DEF TypeOK
      <3>2. CASE File(s) # r
        BY <1>1, <2>1, <2>2, <3>2 DEF TypeOK
      <3> QED BY <3>1, <3>2
    <2>4. ASSUME NEW k \in 1..Len(queue[r]) PROVE asked'[r] \cap {queue[r][k], ALL} # {}
      BY <2>1, <2>2 DEF Covers
    <2> QED BY <1>1, <2>3, <2>4 DEF Covers
  <1>11. ReceivesWhatItBound'
    <2> SUFFICES ASSUME NEW u \in Threads, pc'[u] = "received", local'[u].arg \in Interfaces,
                        fd[local'[u].sock] \notin late' \cup {0}
                 PROVE  asked'[local'[u].sock] \cap {local'[u].arg, ALL} # {}
      BY <1>1 DEF ReceivesWhatItBound, Trusted
    <2>1. pc[u] = "received" /\ local'[u] = local[u] /\ local[u].sock \in Sockets
      BY <1>1 DEF TypeOK, LocalsOf
    <2>2. asked[local[u].sock] \cap {local[u].arg, ALL} # {}
      BY <1>1, <2>1 DEF Rest, ReceivesWhatItBound, Trusted
    <2>3. asked[local[u].sock] \subseteq asked'[local[u].sock]
      BY <1>1, <2>1 DEF TypeOK
    <2> QED BY <2>1, <2>2, <2>3
  <1> QED BY <1>3, <1>4, <1>8, <1>9, <1>10, <1>11 DEF Rest

LEMMA BindReturnsStep == ASSUME TypeOK, Rest, NEW t \in Threads, BindReturns(t) PROVE Rest'
  <1> DEFINE s == local[t].sock
  <1>1. /\ pc[t] = "bound" /\ s \in Sockets /\ phase[s] # "new" /\ Binds(t, s)
        /\ boundTo' = [boundTo EXCEPT ![s] = local[t].arg]
        /\ pc' = [pc EXCEPT ![t] = "idle"] /\ local' = [local EXCEPT ![t] = Nothing]
        /\ UNCHANGED <<phase, fd, descriptors, bound, queue, late, raced, asked>>
    BY DEF BindReturns, Rest, CallsOf, InCall, Binds, TypeOK, LocalsOf, kernelVars, watched
  <1>2. NumbersOf' /\ FilesOf' /\ OwnDescriptor'
    BY <1>1 DEF Rest, NumbersOf, FilesOf, OwnDescriptor, Trusted, TypeOK
  <1>3. \A u \in Threads \ {t} : pc'[u] = pc[u] /\ local'[u] = local[u]
    BY <1>1 DEF TypeOK
  <1>4. pc'[t] = "idle"
    BY <1>1 DEF TypeOK
  <1>5. CallsOf' /\ WaitsOnOwnFile' /\ BindsOf' /\ ReceivesWhatItBound'
    BY <1>1, <1>3, <1>4
    DEF Rest, CallsOf, WaitsOnOwnFile, BindsOf, Binds, ReceivesWhatItBound, Trusted, InCall
  <1>6. BoundAsRecorded'
    <2> SUFFICES ASSUME NEW r \in Sockets, phase[r] = "open", Trusted(r), r \notin raced,
                        \A u \in Threads : ~Binds(u, r)'
                 PROVE  boundTo'[r] = bound[r]
      BY <1>1 DEF BoundAsRecorded, Trusted, Binds
    <2>1. CASE r = s
      BY <1>1, <2>1 DEF Rest, BindsOf, TypeOK
    <2>2. CASE r # s
      BY <1>1, <1>3, <2>2 DEF Rest, BoundAsRecorded, Binds, TypeOK
    <2> QED BY <2>1, <2>2
  <1>7. AskedOf'
    BY <1>1 DEF Rest, AskedOf, Covers, Trusted
  <1> QED BY <1>2, <1>5, <1>6, <1>7 DEF Rest

LEMMA RecvStep ==
  ASSUME TypeOK, Rest, NEW t \in Threads, NEW s \in Sockets, Recv(t, s) PROVE Rest'
  <1>1. /\ pc[t] = "idle" /\ phase[s] # "new"
        /\ late \subseteq late'
        /\ pc' = [pc EXCEPT ![t] = "recvfrom"]
        /\ local' = [local EXCEPT ![t] = Local(s, File(s), timeout[File(s)], 0)]
        /\ UNCHANGED <<phase, fd, boundTo, descriptors, bound, queue, raced, asked>>
    BY DEF Recv, Calls, objectVars, kernelVars
  <1>2. \A u \in Threads \ {t} : pc'[u] = pc[u] /\ local'[u] = local[u]
    BY <1>1 DEF TypeOK
  <1>3. pc'[t] = "recvfrom" /\ local'[t].sock = s /\ local'[t].file = File(s)
    BY <1>1 DEF TypeOK, Local
  <1>4. NumbersOf' /\ FilesOf' /\ OwnDescriptor' /\ CallsOf'
    BY <1>1, <1>2, <1>3 DEF Rest, NumbersOf, FilesOf, OwnDescriptor, CallsOf, Trusted
  <1>5. WaitsOnOwnFile'
    <2>1. fd[s] \notin late' \cup {0} => File(s) = s
      BY FileOfCaller DEF Recv
    <2> SUFFICES ASSUME NEW u \in Threads, pc'[u] = "recvfrom",
                        fd[local'[u].sock] \notin late' \cup {0}
                 PROVE  local'[u].file = local'[u].sock
      BY <1>1 DEF WaitsOnOwnFile, Trusted
    <2>2. CASE u = t
      <3>1. local'[u].sock = s /\ local'[u].file = File(s)
        BY <1>3, <2>2
      <3> QED BY <2>1, <3>1
    <2>3. CASE u # t
      <3>1. pc[u] = "recvfrom" /\ local'[u] = local[u]
        BY <1>1, <1>2, <2>3 DEF TypeOK
      <3> QED BY <1>1, <3>1 DEF Rest, WaitsOnOwnFile, Trusted
    <2> QED BY <2>2, <2>3
  <1>6. \A u \in Threads : /\ pc[u] = "bound" <=> pc'[u] = "bound"
                        /\ pc[u] = "bound" => u # t /\ local'[u] = local[u]
    BY <1>1, <1>2, <1>3
  <1>7. BindsOf'
    BY <1>1, <1>6 DEF Rest, BindsOf, Binds, Trusted
  <1>8. BoundAsRecorded'
    BY <1>1, <1>6 DEF Rest, BoundAsRecorded, Trusted
  <1>9. AskedOf'
    BY <1>1 DEF Rest, AskedOf, Covers, Trusted
  <1>10. ReceivesWhatItBound'
    BY <1>1, <1>2, <1>3 DEF Rest, ReceivesWhatItBound, Trusted
  <1> QED BY <1>4, <1>5, <1>7, <1>8, <1>9, <1>10 DEF Rest

(* The other actions are quiet.                                             *)
LEMMA SameQueues == ASSUME UNCHANGED queue PROVE Queues
  BY DEF Queues

LEMMA DeliverQueues == ASSUME TypeOK, NEW f, NEW i \in Interfaces, Deliver(f, i) PROVE Queues
  <1> SUFFICES ASSUME NEW s \in Sockets, NEW k \in 1..Len(queue'[s])
               PROVE  \/ \E j \in 1..Len(queue[s]) : queue'[s][k] = queue[s][j]
                      \/ bound[s] \in {queue'[s][k], ALL} /\ bound[s] # None
    BY DEF Queues
  <1>1. CASE queue'[s] = queue[s]
    BY <1>1
  <1>2. CASE Hears(s, i) /\ queue'[s] = Append(queue[s], i)
    <2>1. queue[s] \in Seq(Interfaces)
      BY DEF TypeOK
    <2>2. bound[s] \in {i, ALL} /\ bound[s] # None
      BY <1>2, NamesAssumption DEF Hears
    <2>3. (k \in 1..Len(queue[s]) /\ queue'[s][k] = queue[s][k]) \/ queue'[s][k] = i
      BY <1>2, <2>1
    <2> QED BY <2>2, <2>3
  <1> QED BY <1>1, <1>2 DEF Deliver

LEMMA CountReturns ==
  ASSUME TypeOK, NEW t \in Threads, NEW c, CountAndThrow(t, c), pc[t] # "bound"
  PROVE  Returns
  BY DEF CountAndThrow, TypeOK, InCall, Returns

LEMMA ReceiveReturns ==
  ASSUME TypeOK, NEW t \in Threads, NEW s \in Sockets, NEW len, NEW complete, NEW v,
         RecvReturns(t, s, len, complete, v), pc[t] # "bound", phase[s] # "new",
         v \in Interfaces /\ Trusted(s) => Covers(s, v)
  PROVE  Returns
  <1>1. CASE CountAndThrow(t, "Receive")
    BY <1>1, CountReturns
  <1>2. CASE pc' = [pc EXCEPT ![t] = "received"]
             /\ local' = [local EXCEPT ![t] = Local(s, None, v, 0)]
    <2>1. pc'[t] = "received" /\ local'[t].sock = s /\ local'[t].arg = v
      BY <1>2 DEF TypeOK, Local
    <2>2. \A u \in Threads \ {t} : pc'[u] = pc[u] /\ local'[u] = local[u]
      BY <1>2 DEF TypeOK
    <2>3. Gives(t)
      BY <2>1 DEF Gives
    <2> QED BY <2>2, <2>3 DEF Returns
  <1> QED BY <1>1, <1>2 DEF RecvReturns

LEMMA CallQuiet ==
  ASSUME TypeOK, NEW t \in Threads, NEW s \in Sockets
  PROVE  /\ \A i \in Interfaces : Send(t, s, i) => Quiet
         /\ BindFails(t, s) \/ SendFails(t, s) \/ RecvRefused(t, s) => Quiet
  <1>1. ASSUME NEW i \in Interfaces, Send(t, s, i) PROVE Quiet
    <2>1. Queues
      BY <1>1, DeliverQueues DEF Send
    <2> QED BY <1>1, <2>1 DEF Send, Calls, Quiet, Returns, objectVars, threadVars
  <1>2. BindFails(t, s) => Quiet
    BY SameQueues DEF BindFails, Calls, Quiet, Returns, objectVars, kernelVars, threadVars
  <1>3. SendFails(t, s) => Quiet
    BY SameQueues, CountReturns DEF SendFails, Calls, Quiet, objectVars, kernelVars
  <1>4. ASSUME RecvRefused(t, s) PROVE Quiet
    <2>1. Returns
      BY <1>4, ReceiveReturns, NamesAssumption DEF RecvRefused, RecvError, Calls
    <2> QED BY <1>4, <2>1, SameQueues DEF RecvRefused, Calls, Quiet, objectVars, kernelVars
  <1> QED BY <1>1, <1>2, <1>3, <1>4

LEMMA TailAt ==
  ASSUME NEW S, NEW q \in Seq(S), q # <<>>, NEW k \in 1..Len(Tail(q))
  PROVE  k + 1 \in 1..Len(q) /\ Tail(q)[k] = q[k + 1]
  <1>1. Len(q) \in Nat \ {0} /\ Len(Tail(q)) = Len(q) - 1
    OBVIOUS
  <1> QED BY <1>1

LEMMA RecvFrameQuiet == ASSUME TypeOK, Rest, NEW t \in Threads, RecvFrame(t) PROVE Quiet
  <1> DEFINE f == local[t].file
  <1> DEFINE s == local[t].sock
  <1>1. /\ pc[t] = "recvfrom" /\ f \in Sockets /\ s \in Sockets /\ phase[s] # "new"
        /\ queue[f] # <<>> /\ queue[f] \in Seq(Interfaces)
        /\ queue' = [queue EXCEPT ![f] = Tail(@)]
        /\ UNCHANGED <<phase, fd, boundTo, descriptors, bound, late, raced, asked>>
    BY DEF RecvFrame, TypeOK, LocalsOf, Rest, CallsOf, InCall, objectVars, watched
  <1>2. Queues
    <2> SUFFICES ASSUME NEW r \in Sockets, NEW k \in 1..Len(queue'[r])
                 PROVE  \E j \in 1..Len(queue[r]) : queue'[r][k] = queue[r][j]
      BY DEF Queues
    <2>1. CASE r # f
      BY <1>1, <2>1 DEF TypeOK
    <2>2. CASE r = f
      <3>1. queue'[f] = Tail(queue[f])
        BY <1>1 DEF TypeOK
      <3>2. k + 1 \in 1..Len(queue[f]) /\ queue'[f][k] = queue[f][k + 1]
        BY <1>1, <2>2, <3>1, TailAt
      <3> QED BY <2>2, <3>2
    <2> QED BY <2>1, <2>2
  <1>3. PICK complete \in BOOLEAN, result \in ToJava(Head(queue[f])) :
          RecvReturns(t, s, KernelAddrLen, complete, result)
    BY DEF RecvFrame
  <1>4. ASSUME result \in Interfaces, Trusted(s) PROVE Covers(s, result)
    <2>1. f = s
      BY <1>1, <1>4 DEF Rest, WaitsOnOwnFile
    <2>2. result = queue[s][1] /\ 1 \in 1..Len(queue[s])
      BY <1>1, <1>3, <1>4, <2>1, NamesAssumption DEF ToJava
    <2> QED BY <1>1, <1>4, <2>2 DEF Rest, AskedOf
  <1>5. Returns
    BY <1>1, <1>3, <1>4, ReceiveReturns
  <1> QED BY <1>1, <1>2, <1>5 DEF Quiet

LEMMA ThreadQuiet ==
  ASSUME TypeOK, Rest, NEW t \in Threads,
         LoadCounter(t) \/ StoreCounter(t) \/ RecvFrame(t) \/ RecvTimesOut(t) \/ RecvIsOver(t)
  PROVE  Quiet
  <1>1. CASE LoadCounter(t)
    BY <1>1, SameQueues DEF LoadCounter, Quiet, Returns, InCall, TypeOK, objectVars, kernelVars, watched
  <1>2. CASE StoreCounter(t) \/ RecvIsOver(t)
    BY <1>2, SameQueues
    DEF StoreCounter, RecvIsOver, Quiet, Returns, InCall, TypeOK, objectVars, kernelVars, watched
  <1>3. CASE RecvFrame(t)
    BY <1>3, RecvFrameQuiet
  <1>4. CASE RecvTimesOut(t)
    <2>1. local[t].sock \in Sockets /\ phase[local[t].sock] # "new" /\ pc[t] # "bound"
      BY <1>4 DEF RecvTimesOut, TypeOK, LocalsOf, Rest, CallsOf, InCall
    <2>2. Returns
      BY <1>4, <2>1, ReceiveReturns, NamesAssumption DEF RecvTimesOut, RecvError
    <2> QED BY <1>4, <2>2, SameQueues DEF RecvTimesOut, Quiet, objectVars, kernelVars, watched
  <1> QED BY <1>1, <1>2, <1>3, <1>4

-----------------------------------------------------------------------------
LEMMA RestInit == Init => Rest
  BY NamesAssumption
  DEF Init, Rest, NumbersOf, FilesOf, CallsOf, BindsOf, Binds, OwnDescriptor, WaitsOnOwnFile,
      BoundAsRecorded, AskedOf, ReceivesWhatItBound, InCall, Descriptors

LEMMA RestStep == TypeOK /\ Rest /\ [Next]_vars => Rest'
  <1> SUFFICES ASSUME TypeOK, Rest, [Next]_vars PROVE Rest'
    OBVIOUS
  <1>1. CASE UNCHANGED vars
    BY <1>1, SameQueues, QuietStep
    DEF vars, objectVars, kernelVars, threadVars, watched, Quiet, Returns
  <1>2. ASSUME NEW i \in Interfaces, Arrive(i) PROVE Rest'
    <2>1. Queues
      BY <1>2, DeliverQueues DEF Arrive
    <2> QED BY <1>2, <2>1, QuietStep DEF Arrive, Quiet, Returns, objectVars, threadVars, watched
  <1>3. CASE Kernel
    BY <1>2, <1>3, ForeignStep DEF Kernel
  <1>4. ASSUME NEW s \in Sockets, Object(s) PROVE Rest'
    <2>1. ASSUME NEW limit \in {"limited", "forever"}, SetReceiveTimeout(s, limit) PROVE Rest'
      BY <2>1, SameQueues, QuietStep
      DEF SetReceiveTimeout, Calls, Quiet, Returns, objectVars, threadVars
    <2> QED BY <1>4, <2>1, OpenStep, OpenFailsStep, CloseStep DEF Object
  <1>5. ASSUME NEW s \in Sockets, NEW t \in Threads, Call(t, s) PROVE Rest'
    BY <1>5, CallQuiet, QuietStep, BindStep, RecvStep DEF Call
  <1>6. ASSUME NEW t \in Threads, Thread(t) PROVE Rest'
    <2>1. CASE BindReturns(t)
      BY <2>1, BindReturnsStep
    <2>2. CASE LoadCounter(t) \/ StoreCounter(t) \/ RecvFrame(t) \/ RecvTimesOut(t) \/ RecvIsOver(t)
      BY <2>2, ThreadQuiet, QuietStep
    <2> QED BY <1>6, <2>1, <2>2 DEF Thread
  <1> QED BY <1>1, <1>3, <1>4, <1>5, <1>6 DEF Next

THEOREM LifeInvariant == Spec => [](TypeOK /\ Rest)
  <1>1. Init => TypeOK /\ Rest
    BY TypeInit, RestInit
  <1>2. TypeOK /\ Rest /\ [Next]_vars => (TypeOK /\ Rest)'
    BY TypeStep, RestStep
  <1> QED BY <1>1, <1>2, PTL DEF Spec

(* For any number of objects and threads: numbers of open objects stay      *)
(* their own through failed opens, closes and reuse (CanSocket.java:748).   *)
THEOREM OpenObjectsOwnTheirDescriptor == Spec => []OwnDescriptor
  <1>1. TypeOK /\ Rest => OwnDescriptor
    BY DEF Rest
  <1> QED BY <1>1, LifeInvariant, PTL

(* And _boundTo is true of the kernel (CanSocket.java:773-776).             *)
THEOREM BoundToIsTrue == Spec => []BoundAsRecorded
  <1>1. TypeOK /\ Rest => BoundAsRecorded
    BY DEF Rest
  <1> QED BY <1>1, LifeInvariant, PTL

(* And a receive gives what its own object was bound to, whoever closes,    *)
(* opens and binds what under it (cansocket.cpp:173-218).                   *)
THEOREM ReceivesOnlyWhatItBound == Spec => []ReceivesWhatItBound
  <1>1. TypeOK /\ Rest => ReceivesWhatItBound
    BY DEF Rest
  <1> QED BY <1>1, LifeInvariant, PTL

-----------------------------------------------------------------------------
(* The sockets with the task (SocketTask).                                  *)

(* A number in the table, or on its way to or from it, is that of an object *)
(* that was opened, or the 0 of a cleared slot.                             *)
OfOwner(part) ==
  IF part.by = None THEN part.value = 0 ELSE part.value = fd[part.by] /\ phase[part.by] # "new"
NumbersInTable ==
  /\ \A n \in Slots : OfOwner(slots[n].fd)
  /\ OfOwner(call.frame.fd) /\ OfOwner(frameToSend.fd)

(* What the call of the table has left to do, and where: an add fills the   *)
(* first empty slot with the identifier last, a remove clears one slot, and *)
(* after a removeAll, as behind the index, there is nothing.                *)
Pending(n) == \E field \in Fields : <<n, field>> \in call.toStore
Owned(frame, s) == \A field \in Fields : frame[field].by \in {s, None}
OneOwner(frame) == frame.canid.by \in {None, frame.fd.by}
ClearedOf(n) == \A field \in Fields :
  <<n, field>> \notin call.toStore => slots[n][field] = ZeroFrame[field]
AddOf ==
  /\ call.idx # 0 /\ storageIdx \in {call.idx - 1, call.idx}
  /\ call.frame.fd.by = call.frame.canid.by
  /\ call.toStore \subseteq {call.idx - 1} \X Fields
  /\ \A field \in Fields :
       IF <<call.idx - 1, field>> \in call.toStore
       THEN slots[call.idx - 1][field] = ZeroFrame[field]
       ELSE slots[call.idx - 1][field] = call.frame[field]
  /\ <<call.idx - 1, "fd">> \in call.toStore => <<call.idx - 1, "canid">> \in call.toStore
CallOf ==
  /\ Idle => call.toStore = {} /\ call.idx = storageIdx
  /\ call.op = "add" => AddOf
  /\ call.op = "remove" => /\ call.idx = storageIdx /\ call.frame = ZeroFrame
                           /\ \A n \in Slots : Pending(n) => ClearedOf(n)
  /\ call.op = "removeAll" => /\ call.idx = 0 /\ call.frame = ZeroFrame
                              /\ \A n \in Slots : ClearedOf(n)
TableOf ==
  /\ call.op # "removeAll" => \A n \in Slots :
       /\ n >= call.idx => slots[n] = ZeroFrame
       /\ \E s \in Sockets \cup {None} : Owned(slots[n], s)
  /\ \A n \in Slots : ~Pending(n) => OneOwner(slots[n])

(* The worker's copy belongs to the one object whose frame is in the slot,  *)
(* and is that frame unless a call has cleared it meanwhile.                *)
HandOf ==
  /\ at = None => frameToSend = ZeroFrame /\ toCopy = {}
  /\ at # None /\ disturbed # "emptied" =>
       /\ at < storageIdx /\ call.op # "removeAll"
       /\ Pending(at) => call.op = "remove" /\ disturbed = "cleared"
       /\ \E s \in Sockets \cup {None} : Owned(slots[at], s) /\ Owned(frameToSend, s)
       /\ disturbed = "no" =>
            \A field \in Fields \ toCopy : frameToSend[field] = slots[at][field]

(* An object that has had its one frame more is closed for good, and no     *)
(* frame of it is left.                                                     *)
InHand(s) == \E field \in Fields : frameToSend[field].by = s
AstrayOf == \A s \in Sockets :
  /\ astray[s] # 0 => phase[s] = "closed"
  /\ fd[s] \notin late /\ astray[s] # 0 => astray[s] = 1 /\ ~InTable(s) /\ ~InHand(s)

TaskInv ==
  /\ TypeOK /\ Rest /\ TaskTypeOK
  /\ NumbersInTable /\ CallOf /\ TableOf /\ HandOf /\ AstrayOf

-----------------------------------------------------------------------------
LEMMA SlotsAreNumbers == Slots \subseteq Nat
  BY TableAssumption DEF Slots

LEMMA TaskInitInv == TaskInit => TaskInv
<1>1. TaskInit => TypeOK /\ Rest
  BY TypeInit, RestInit DEF TaskInit
<1>2. TaskInit => TaskTypeOK
  BY TableAssumption, SizesAssumption
  DEF TaskInit, TaskTypeOK, Frames, ZeroFrame, NoCall, Fields, Slots, Descriptors
<1>3. TaskInit => NumbersInTable /\ CallOf /\ TableOf /\ HandOf /\ AstrayOf
  BY DEF TaskInit, NumbersInTable, OfOwner, CallOf, TableOf, Owned, OneOwner, Idle, HandOf, AstrayOf,
         NoCall, ZeroFrame, Fields
<1> QED BY <1>1, <1>2, <1>3 DEF TaskInv

(* No step of the objects takes a number back or opens an object again.     *)
ObjectsStay ==
  /\ late \subseteq late'
  /\ \A s \in Sockets : /\ phase[s] # "new" => phase'[s] # "new" /\ fd'[s] = fd[s]
                        /\ phase[s] = "closed" => phase'[s] = "closed"

LEMMA NextObjectsStay == ASSUME TypeOK, [Next]_vars PROVE ObjectsStay
<1>1. CASE UNCHANGED vars
  BY <1>1 DEF ObjectsStay, vars, objectVars, watched
<1>2. CASE Kernel
  BY <1>2 DEF Kernel, Arrive, ForeignOpens, ForeignCloses, ObjectsStay, objectVars, watched
<1>3. ASSUME NEW s \in Sockets, Object(s) PROVE ObjectsStay
  <2>1. ASSUME NEW m \in {"RAW", "BCM"}, Open(s, m) PROVE ObjectsStay
    BY <2>1 DEF Open, ObjectsStay, TypeOK, watched
  <2>2. CASE OpenFails(s)
    BY <2>2 DEF OpenFails, ObjectsStay, TypeOK, watched
  <2>3. CASE Close(s)
    BY <2>3 DEF Close, Calls, ObjectsStay, TypeOK
  <2>4. ASSUME NEW limit, SetReceiveTimeout(s, limit) PROVE ObjectsStay
    BY <2>4 DEF SetReceiveTimeout, Calls, ObjectsStay, objectVars
  <2> QED BY <1>3, <2>1, <2>2, <2>3, <2>4 DEF Object
<1>4. ASSUME NEW s \in Sockets, NEW t \in Threads, Call(t, s) PROVE ObjectsStay
  BY <1>4 DEF Call, Bind, Send, BindFails, SendFails, Recv, RecvRefused, Calls, ObjectsStay, objectVars
<1>5. ASSUME NEW t \in Threads, Thread(t) PROVE ObjectsStay
  BY <1>5
  DEF Thread, BindReturns, LoadCounter, StoreCounter, RecvFrame, RecvTimesOut, RecvIsOver, ObjectsStay,
      objectVars, watched
<1> QED BY <1>1, <1>2, <1>3, <1>4, <1>5 DEF Next

LEMMA OwnerStays ==
  ASSUME ObjectsStay, TypeOK, NEW part \in [value : Descriptors, by : Sockets \cup {None}],
         OfOwner(part)
  PROVE  OfOwner(part)'
  BY DEF ObjectsStay, OfOwner

LEMMA PartsTyped ==
  ASSUME TaskTypeOK
  PROVE  /\ \A n \in Slots, field \in Fields : slots[n][field].by \in Sockets \cup {None}
         /\ \A n \in Slots : slots[n].fd \in [value : Descriptors, by : Sockets \cup {None}]
         /\ call.frame.fd \in [value : Descriptors, by : Sockets \cup {None}]
         /\ frameToSend.fd \in [value : Descriptors, by : Sockets \cup {None}]
  BY DEF TaskTypeOK, Frames, Fields

TaskParts == NumbersInTable /\ CallOf /\ TableOf /\ HandOf /\ AstrayOf

LEMMA TaskKeptByObjects ==
  ASSUME TaskInv, ObjectsStay, UNCHANGED taskVars
  PROVE  TaskTypeOK' /\ TaskParts'
<1>1. UNCHANGED <<slots, storageIdx, call, at, toCopy, frameToSend, disturbed, astray>>
  BY DEF taskVars, tableVars, workerVars
<1>2. TaskTypeOK'
  BY <1>1 DEF TaskInv, TaskTypeOK
<1>3. NumbersInTable'
  BY <1>1, OwnerStays, PartsTyped DEF TaskInv, NumbersInTable
<1>4. CallOf' /\ TableOf' /\ HandOf'
  BY <1>1 DEF TaskInv, CallOf, AddOf, ClearedOf, TableOf, Owned, OneOwner, HandOf, Idle, Pending
<1>5. AstrayOf'
  BY <1>1 DEF TaskInv, AstrayOf, InTable, InHand, ObjectsStay
<1> QED BY <1>2, <1>3, <1>4, <1>5 DEF TaskParts

(* The task opens, closes and binds nothing.                                *)
LEMMA TaskIsQuiet ==
  ASSUME TypeOK, TaskTypeOK, (\E s \in Sockets : TaskCall(s)) \/ TaskStore \/ Worker
  PROVE  TypeOK' /\ Quiet /\ ObjectsStay
<1>1. CASE UNCHANGED vars
  BY <1>1, SameQueues
  DEF vars, objectVars, kernelVars, threadVars, watched, TypeOK, LocalsOf, Quiet, Returns, ObjectsStay
<1>2. ASSUME NEW s \in Sockets, NEW i, SendCyclicallyAdd(s, i) PROVE TypeOK' /\ Quiet /\ ObjectsStay
  <2>1. /\ UNCHANGED <<objectVars, kernelVars, threadVars, stats, raced, asked>>
        /\ late' \subseteq Descriptors /\ late \subseteq late'
    BY <1>2 DEF SendCyclicallyAdd, Calls, TypeOK
  <2> QED BY <2>1, SameQueues
    DEF TypeOK, LocalsOf, Quiet, Returns, ObjectsStay, objectVars, kernelVars, threadVars
<1>3. CASE WorkerSend
  <2>1. /\ frameToSend.canid.value \in Interfaces
        /\ Deliver(descriptors[frameToSend.fd.value], frameToSend.canid.value)
        /\ UNCHANGED <<objectVars, descriptors, bound, timeout, threadVars, stats, watched>>
    BY <1>3 DEF WorkerSend, Sendto
  <2>2. queue' \in [Sockets -> Seq(Interfaces)] /\ Queues
    BY <2>1, QueueTyped, DeliverQueues
  <2> QED BY <2>1, <2>2
    DEF TypeOK, LocalsOf, Quiet, Returns, ObjectsStay, objectVars, threadVars, watched
<1>4. CASE TaskStore
  BY <1>1, <1>4 DEF TaskStore, StoreStorageIdx, StoresDone, StoreField
<1>5. CASE Worker
  BY <1>1, <1>3, <1>5 DEF Worker, WorkerSendFails, WorkerSee, WorkerCopyField
<1> QED BY <1>1, <1>2, <1>4, <1>5 DEF TaskCall, SendCyclicallyRemove, RemoveCyclicalAll

-----------------------------------------------------------------------------
(* The beginnings of the calls.                                             *)
LEMMA AddStep ==
  ASSUME TaskInv, NEW s \in Sockets, NEW i \in Interfaces, SendCyclicallyAdd(s, i)
  PROVE  TaskTypeOK' /\ TaskParts'
<1> DEFINE c == storageIdx
<1>1. /\ call.op = "none" /\ c \in Slots /\ c < MAX_CAN_FRAMES_TO_STORE
      /\ call' = [op |-> "add", frame |-> FrameOf(s, i), toStore |-> {c} \X Fields, idx |-> c + 1]
      /\ phase[s] # "new" /\ late \subseteq late' /\ (phase[s] = "closed" => fd[s] \in late')
      /\ UNCHANGED <<phase, fd, slots, storageIdx, at, toCopy, frameToSend, disturbed, astray>>
  BY TableAssumption
  DEF SendCyclicallyAdd, Starts, Idle, Calls, objectVars, workerVars, TaskInv, TaskTypeOK, Slots
<1>2. FrameOf(s, i) \in Frames
  BY DEF FrameOf, Frames, TaskInv, TypeOK
<1>3. TaskTypeOK'
  BY <1>1, <1>2, TableAssumption DEF TaskInv, TaskTypeOK, Slots
<1>4. call.toStore = {} /\ call.idx = c
  BY <1>1 DEF TaskInv, CallOf, Idle
<1>5. NumbersInTable'
  BY <1>1, TableAssumption DEF TaskInv, NumbersInTable, OfOwner, FrameOf
<1>6. slots[c] = ZeroFrame
  BY <1>1, <1>4, SlotsAreNumbers DEF TaskInv, TableOf
<1>7. CallOf'
  <2>1. call'.idx # 0 /\ call'.idx - 1 = c /\ call'.op = "add"
    BY <1>1, SlotsAreNumbers
  <2>2. \A field \in Fields : <<c, field>> \in call'.toStore
    BY <1>1
  <2>3. AddOf'
    BY <1>1, <1>6, <2>1, <2>2 DEF AddOf, FrameOf, Fields
  <2> QED BY <2>1, <2>3 DEF CallOf, Idle
<1>8. TableOf'
  <2>1. \A n \in Slots : n >= c + 1 => slots[n] = ZeroFrame
    BY <1>1, <1>4, SlotsAreNumbers DEF TaskInv, TableOf
  <2>2. \A n \in Slots : OneOwner(slots[n])
    BY <1>4 DEF TaskInv, TableOf, Pending
  <2> QED BY <1>1, <2>1, <2>2 DEF TaskInv, TableOf, OneOwner, Owned
<1>9. HandOf'
  <2>1. at # None /\ disturbed # "emptied" => at # c
    BY <1>1, SlotsAreNumbers DEF TaskInv, HandOf
  <2>2. ~Pending(c)
    BY <1>4 DEF Pending
  <2>3. at # None /\ disturbed # "emptied" => ~Pending(at)'
    BY <1>1, <2>1 DEF Pending
  <2> QED BY <1>1, <2>3 DEF TaskInv, HandOf, Owned
<1>10. AstrayOf'
  <2> SUFFICES ASSUME NEW r \in Sockets, fd[r] \notin late', astray[r] # 0
               PROVE  astray[r] = 1 /\ ~InTable(r)' /\ ~InHand(r)
    BY <1>1 DEF TaskInv, AstrayOf, InHand
  <2>1. astray[r] = 1 /\ phase[r] = "closed" /\ ~InTable(r) /\ ~InHand(r)
    BY <1>1 DEF TaskInv, AstrayOf
  <2>2. r # s
    BY <1>1, <2>1
  <2> QED BY <1>1, <2>1, <2>2 DEF InTable, FrameOf
<1> QED BY <1>3, <1>5, <1>7, <1>8, <1>9, <1>10 DEF TaskParts

LEMMA RemoveStep ==
  ASSUME TaskInv, NEW s \in Sockets,
         RemoveCyclicalAll(s) \/ \E n \in Slots : SendCyclicallyRemove(s, n)
  PROVE  TaskTypeOK' /\ TaskParts'
<1>1. /\ call.op = "none"
      /\ UNCHANGED <<phase, fd, late, slots, storageIdx, at, toCopy, frameToSend, astray>>
  BY DEF RemoveCyclicalAll, SendCyclicallyRemove, Starts, Idle, vars, objectVars, watched
<1>2. /\ call'.frame = ZeroFrame
      /\ \/ /\ call' = [op |-> "removeAll", frame |-> ZeroFrame, toStore |-> Slots \X Fields, idx |-> 0]
            /\ at # None => disturbed' = "emptied"
            /\ at = None => disturbed' = disturbed
         \/ \E n \in Slots :
              /\ call' = [op |-> "remove", frame |-> ZeroFrame, toStore |-> {n} \X Fields,
                          idx |-> storageIdx]
              /\ disturbed' = IF n = at /\ at # None /\ disturbed # "emptied"
                              THEN "cleared" ELSE disturbed
  BY DEF RemoveCyclicalAll, SendCyclicallyRemove, Starts, Disturbs
<1>3. ZeroFrame \in Frames
  BY SizesAssumption DEF ZeroFrame, Frames, Descriptors
<1>4. TaskTypeOK'
  BY <1>1, <1>2, <1>3, TableAssumption DEF TaskInv, TaskTypeOK
<1>5. NumbersInTable'
  BY <1>1, <1>2 DEF TaskInv, NumbersInTable, OfOwner, ZeroFrame
<1>6. call.toStore = {} /\ call.idx = storageIdx
  BY <1>1 DEF TaskInv, CallOf, Idle
<1>7. CallOf'
  <2>1. CASE call'.op = "removeAll"
    BY <1>2, <2>1 DEF CallOf, Idle, ClearedOf
  <2>2. CASE call'.op = "remove"
    <3>1. \A n \in Slots : Pending(n)' => ClearedOf(n)'
      BY <1>2, <2>2 DEF Pending, ClearedOf
    <3> QED BY <1>1, <1>2, <2>2, <3>1 DEF CallOf, Idle
  <2> QED BY <1>2, <2>1, <2>2
<1>8. TableOf'
  <2>1. \A n \in Slots : OneOwner(slots[n])
    BY <1>6 DEF TaskInv, TableOf, Pending
  <2>2. call'.op # "removeAll" => call'.idx = call.idx
    BY <1>2, <1>6
  <2> QED BY <1>1, <2>1, <2>2 DEF TaskInv, TableOf, OneOwner, Owned
<1>9. HandOf'
  <2>1. CASE call'.op = "removeAll" \/ at = None
    BY <1>1, <1>2, <2>1 DEF TaskInv, HandOf, Owned
  <2>2. CASE call'.op = "remove" /\ at # None
    <3> PICK n \in Slots :
          /\ call' = [op |-> "remove", frame |-> ZeroFrame, toStore |-> {n} \X Fields,
                      idx |-> storageIdx]
          /\ disturbed' = IF n = at /\ disturbed # "emptied" THEN "cleared" ELSE disturbed
      BY <1>2, <2>2
    <3>1. Pending(at)' => n = at
      BY <1>1 DEF Pending
    <3> QED BY <1>1, <2>2, <3>1 DEF TaskInv, HandOf, Owned
  <2> QED BY <1>2, <2>1, <2>2
<1>10. AstrayOf'
  <2>1. \A r \in Sockets : InTable(r)' => InTable(r)
    BY <1>1, <1>2, TableAssumption DEF InTable, ZeroFrame
  <2> QED BY <1>1, <2>1 DEF TaskInv, AstrayOf, InHand
<1> QED BY <1>4, <1>5, <1>7, <1>8, <1>9, <1>10 DEF TaskParts

-----------------------------------------------------------------------------
(* Their stores.                                                            *)
LEMMA StoreStep ==
  ASSUME TaskInv, NEW n \in Slots, NEW field \in Fields, StoreField(n, field)
  PROVE  TaskTypeOK' /\ TaskParts'
<1>1. /\ <<n, field>> \in call.toStore
      /\ call.op = "add" /\ field = "canid" => <<n, "fd">> \notin call.toStore
      /\ slots' = [slots EXCEPT ![n][field] = call.frame[field]]
      /\ call' = [call EXCEPT !.toStore = @ \ {<<n, field>>}]
      /\ UNCHANGED <<phase, fd, late, storageIdx, at, toCopy, frameToSend, disturbed, astray>>
  BY DEF StoreField, MayStore, vars, objectVars, watched, workerVars
<1>2. /\ slots \in [Slots -> Frames] /\ call.frame \in Frames
      /\ call \in [op : {"none", "add", "remove", "removeAll"}, frame : Frames,
                   toStore : SUBSET (Slots \X Fields), idx : 0..MAX_CAN_FRAMES_TO_STORE]
  BY DEF TaskInv, TaskTypeOK
<1>3. /\ slots'[n][field] = call.frame[field]
      /\ \A m \in Slots, g \in Fields : m # n \/ g # field => slots'[m][g] = slots[m][g]
      /\ \A m \in Slots : m # n => slots'[m] = slots[m]
  BY <1>1, <1>2 DEF Frames, Fields
<1>4. /\ call'.op = call.op /\ call'.frame = call.frame /\ call'.idx = call.idx
      /\ call'.toStore = call.toStore \ {<<n, field>>}
  BY <1>1, <1>2
<1>5. TaskTypeOK'
  <2>1. slots' \in [Slots -> Frames]
    BY <1>1, <1>2 DEF Frames, Fields
  <2> QED BY <1>1, <1>2, <2>1 DEF TaskInv, TaskTypeOK
<1>6. NumbersInTable'
  BY <1>1, <1>3, <1>4 DEF TaskInv, NumbersInTable, OfOwner, Fields
<1>7. call.op # "none"
  BY <1>1 DEF TaskInv, CallOf, Idle
<1>8. CallOf'
  <2>1. call.op = "add" => AddOf'
    <3> SUFFICES ASSUME call.op = "add" PROVE AddOf'
      OBVIOUS
    <3>1. n = call.idx - 1 /\ AddOf
      BY <1>1 DEF TaskInv, CallOf, AddOf
    <3> QED BY <1>1, <1>3, <1>4, <3>1 DEF AddOf, Fields
  <2>2. \A m \in Slots : Pending(m)' => Pending(m)
    BY <1>4 DEF Pending
  <2>3. call.frame = ZeroFrame => \A m \in Slots : ClearedOf(m) => ClearedOf(m)'
    BY <1>3, <1>4 DEF ClearedOf
  <2> QED BY <1>1, <1>4, <1>7, <2>1, <2>2, <2>3 DEF TaskInv, CallOf, Idle
<1>9. TableOf'
  <2>1. ASSUME call.op # "removeAll", NEW m \in Slots
        PROVE  /\ m >= call.idx => slots'[m] = ZeroFrame
               /\ \E s \in Sockets \cup {None} : Owned(slots'[m], s)
    <3>1. CASE m # n
      BY <1>3, <2>1, <3>1 DEF TaskInv, TableOf
    <3>2. CASE m = n /\ call.op = "add"
      <4>1. n = call.idx - 1 /\ call.idx \in Nat /\ AddOf'
        BY <1>1, <1>2, <1>4, <1>8, <3>2 DEF TaskInv, CallOf, AddOf
      <4>2. ~(n >= call.idx)
        BY <4>1
      <4>3. Owned(slots'[n], call.frame.fd.by)
        BY <1>4, <4>1 DEF AddOf, Owned, Fields, ZeroFrame
      <4> QED BY <1>2, <3>2, <4>2, <4>3 DEF Frames
    <3>3. CASE m = n /\ call.op = "remove"
      <4>1. call.frame = ZeroFrame /\ slots'[n][field] = ZeroFrame[field]
        BY <1>3, <3>3 DEF TaskInv, CallOf
      <4>2. slots[n] = ZeroFrame => slots'[n] = ZeroFrame
        BY <1>1, <1>2, <4>1 DEF ZeroFrame, Fields
      <4>3. \A s : Owned(slots[n], s) => Owned(slots'[n], s)
        BY <1>3, <4>1 DEF Owned, ZeroFrame, Fields
      <4> QED BY <2>1, <3>3, <4>2, <4>3 DEF TaskInv, TableOf
    <3> QED BY <1>2, <1>7, <2>1, <3>1, <3>2, <3>3
  <2>2. ASSUME NEW m \in Slots, ~Pending(m)' PROVE OneOwner(slots'[m])
    <3>1. CASE m # n
      BY <1>3, <1>4, <2>2, <3>1 DEF TaskInv, TableOf, Pending
    <3>2. CASE m = n /\ call.op = "add"
      <4>1. n = call.idx - 1 /\ AddOf'
        BY <1>1, <1>4, <1>8, <3>2 DEF TaskInv, CallOf, AddOf
      <4> QED BY <1>4, <2>2, <3>2, <4>1 DEF AddOf, Pending, OneOwner, Fields
    <3>3. CASE m = n /\ call.op # "add"
      <4>1. ClearedOf(n) /\ call.frame = ZeroFrame
        BY <1>1, <1>2, <1>7, <3>3 DEF TaskInv, CallOf, Pending
      <4>2. slots'[n]["canid"] = ZeroFrame["canid"]
        BY <1>3, <1>4, <2>2, <3>3, <4>1 DEF ClearedOf, Pending, Fields
      <4> QED BY <3>3, <4>2 DEF OneOwner, ZeroFrame
    <3> QED BY <3>1, <3>2, <3>3
  <2> QED BY <1>4, <2>1, <2>2 DEF TableOf, OneOwner
<1>10. HandOf'
  <2> SUFFICES ASSUME at # None, disturbed # "emptied" PROVE HandOf'
    BY <1>1 DEF TaskInv, HandOf
  <2>1. Pending(at)' => Pending(at)
    BY <1>1, <1>4 DEF Pending
  <2>2. at \in Slots /\ \A s : Owned(slots[at], s) => Owned(slots'[at], s)
    <3>1. at \in Slots
      BY DEF TaskInv, TaskTypeOK
    <3>2. n = at => call.frame = ZeroFrame
      BY <1>1 DEF TaskInv, HandOf, CallOf, Pending
    <3>3. CASE n = at
      BY <1>3, <3>1, <3>2, <3>3 DEF Owned, ZeroFrame, Fields
    <3> QED BY <1>3, <3>1, <3>3
  <2>3. disturbed = "no" => slots'[at] = slots[at]
    BY <1>1, <1>3, <2>2 DEF TaskInv, HandOf, Pending
  <2> QED BY <1>1, <1>4, <2>1, <2>2, <2>3 DEF TaskInv, HandOf
<1>11. AstrayOf'
  <2> SUFFICES ASSUME NEW s \in Sockets, ~InTable(s) PROVE ~InTable(s)'
    BY <1>1 DEF TaskInv, AstrayOf, InHand
  <2>1. call.frame.fd.by # s
    BY <1>1 DEF InTable
  <2>2. call.frame[field].by # s
    <3>1. CASE call.op = "add"
      BY <2>1, <3>1 DEF TaskInv, CallOf, AddOf, Fields
    <3>2. CASE call.op # "add"
      BY <1>2, <1>7, <3>2, TableAssumption DEF TaskInv, CallOf, ZeroFrame, Fields
    <3> QED BY <3>1, <3>2
  <2>3. \A m \in Slots, g \in Fields : slots'[m][g].by # s
    BY <1>3, <2>2 DEF InTable
  <2> QED BY <1>4, <2>1, <2>3 DEF InTable
<1> QED BY <1>5, <1>6, <1>8, <1>9, <1>10, <1>11 DEF TaskParts

LEMMA StoreStorageIdxStep == ASSUME TaskInv, StoreStorageIdx PROVE TaskTypeOK' /\ TaskParts'
<1>1. /\ call.op # "none" /\ storageIdx # call.idx /\ storageIdx' = call.idx
      /\ UNCHANGED <<phase, fd, late, slots, call, at, toCopy, frameToSend, disturbed, astray>>
  BY DEF StoreStorageIdx, Idle, vars, objectVars, watched, workerVars
<1>2. /\ call.op \in {"none", "add", "remove", "removeAll"}
      /\ call.idx \in 0..MAX_CAN_FRAMES_TO_STORE
  BY DEF TaskInv, TaskTypeOK
<1>3. TaskTypeOK'
  BY <1>1, <1>2 DEF TaskInv, TaskTypeOK
<1>4. NumbersInTable' /\ TableOf' /\ AstrayOf'
  BY <1>1
  DEF TaskInv, NumbersInTable, OfOwner, TableOf, Pending, Owned, OneOwner, AstrayOf, InTable, InHand
<1>5. call.op # "remove" /\ call.op = "add" => storageIdx = call.idx - 1
  BY <1>1 DEF TaskInv, CallOf, AddOf
<1>6. CallOf'
  BY <1>1, <1>5 DEF TaskInv, CallOf, AddOf, ClearedOf, Pending, Idle
<1>7. HandOf'
  <2>1. at # None /\ disturbed # "emptied" => at < call.idx
    <3> SUFFICES ASSUME at # None, disturbed # "emptied" PROVE at < call.idx
      OBVIOUS
    <3>1. call.op = "add" /\ at < storageIdx /\ at \in Nat
      BY <1>1, <1>2, SlotsAreNumbers DEF TaskInv, HandOf, CallOf, TaskTypeOK
    <3> QED BY <1>2, <1>5, <3>1
  <2> QED BY <1>1, <2>1 DEF TaskInv, HandOf, Owned, Pending
<1> QED BY <1>3, <1>4, <1>6, <1>7 DEF TaskParts

LEMMA StoresDoneStep == ASSUME TaskInv, StoresDone PROVE TaskTypeOK' /\ TaskParts'
<1>1. /\ call.toStore = {} /\ storageIdx = call.idx
      /\ call' = [op |-> "none", frame |-> ZeroFrame, toStore |-> {}, idx |-> storageIdx]
      /\ UNCHANGED <<phase, fd, late, slots, storageIdx, at, toCopy, frameToSend, disturbed, astray>>
  BY DEF StoresDone, NoCall, vars, objectVars, watched, workerVars
<1>2. ZeroFrame \in Frames
  BY SizesAssumption DEF ZeroFrame, Frames, Descriptors
<1>3. TaskTypeOK'
  BY <1>1, <1>2 DEF TaskInv, TaskTypeOK
<1>4. NumbersInTable'
  BY <1>1 DEF TaskInv, NumbersInTable, OfOwner, ZeroFrame
<1>5. CallOf'
  BY <1>1 DEF CallOf, Idle
<1>6. TableOf'
  <2>1. \A n \in Slots : OneOwner(slots[n])
    BY <1>1 DEF TaskInv, TableOf, Pending
  <2>2. ASSUME call.op = "removeAll", NEW n \in Slots PROVE slots[n] = ZeroFrame
    <3>1. \A field \in Fields : slots[n][field] = ZeroFrame[field]
      BY <1>1, <2>2 DEF TaskInv, CallOf, ClearedOf
    <3> QED BY <3>1 DEF TaskInv, TaskTypeOK, Frames, ZeroFrame, Fields
  <2>3. Owned(ZeroFrame, None)
    BY DEF Owned, ZeroFrame, Fields
  <2> QED BY <1>1, <2>1, <2>2, <2>3 DEF TaskInv, TableOf, Owned, OneOwner
<1>7. HandOf'
  BY <1>1 DEF TaskInv, HandOf, Owned, Pending
<1>8. AstrayOf'
  BY <1>1 DEF TaskInv, AstrayOf, InTable, InHand
<1> QED BY <1>3, <1>4, <1>5, <1>6, <1>7, <1>8 DEF TaskParts

-----------------------------------------------------------------------------
LEMMA SeeStep == ASSUME TaskInv, NEW n \in Slots, WorkerSee(n) PROVE TaskTypeOK' /\ TaskParts'
<1>1. /\ at = None /\ n < storageIdx /\ slots[n].canid # ZeroFrame.canid
      /\ at' = n /\ toCopy' = Fields /\ disturbed' = DisturbedBy(n)
      /\ UNCHANGED <<phase, fd, late, slots, storageIdx, call, frameToSend, astray>>
  BY DEF WorkerSee, vars, objectVars, watched, tableVars
<1>2. TaskTypeOK'
  BY <1>1 DEF TaskInv, TaskTypeOK, DisturbedBy
<1>3. NumbersInTable' /\ CallOf' /\ TableOf' /\ AstrayOf'
  BY <1>1
  DEF TaskInv, NumbersInTable, OfOwner, CallOf, AddOf, ClearedOf, TableOf, Pending, Owned, OneOwner,
      Idle, AstrayOf, InTable, InHand
<1>4. HandOf'
  <2> SUFFICES ASSUME DisturbedBy(n) # "emptied"
               PROVE  /\ call.op # "removeAll"
                      /\ Pending(n) => call.op = "remove" /\ DisturbedBy(n) = "cleared"
                      /\ \E s \in Sockets \cup {None} : Owned(slots[n], s) /\ Owned(frameToSend, s)
    <3>1. at' # None /\ Fields \ toCopy' = {}
      BY <1>1, TableAssumption
    <3> QED BY <1>1, <3>1 DEF HandOf, Pending, Owned
  <2>1. call.op # "removeAll"
    BY <1>1 DEF TaskInv, CallOf, ClearedOf, DisturbedBy, Fields
  <2>2. call.op = "add" => ~Pending(n)
    <3> SUFFICES ASSUME call.op = "add", Pending(n) PROVE FALSE
      OBVIOUS
    <3>1. AddOf /\ n = call.idx - 1
      BY DEF TaskInv, CallOf, AddOf, Pending
    <3> QED BY <1>1, <3>1 DEF AddOf, Pending, Fields
  <2>3. call.op = "none" => ~Pending(n)
    BY DEF TaskInv, CallOf, Idle, Pending
  <2>4. Pending(n) => call.op = "remove" /\ DisturbedBy(n) = "cleared"
    BY <2>1, <2>2, <2>3 DEF TaskInv, TaskTypeOK, DisturbedBy, Pending
  <2>5. \A s : Owned(frameToSend, s)
    BY <1>1 DEF TaskInv, HandOf, Owned, ZeroFrame, Fields
  <2> QED BY <2>1, <2>4, <2>5 DEF TaskInv, TableOf
<1> QED BY <1>2, <1>3, <1>4 DEF TaskParts

LEMMA CopyStep ==
  ASSUME TaskInv, NEW field \in Fields, WorkerCopyField(field) PROVE TaskTypeOK' /\ TaskParts'
<1>1. /\ field \in toCopy /\ toCopy' = toCopy \ {field}
      /\ frameToSend' = [frameToSend EXCEPT ![field] = slots[at][field]]
      /\ UNCHANGED <<phase, fd, late, slots, storageIdx, call, at, disturbed, astray>>
  BY DEF WorkerCopyField, vars, objectVars, watched, tableVars
<1>2. at # None /\ at \in Slots /\ frameToSend \in Frames /\ slots[at] \in Frames
  BY <1>1 DEF TaskInv, HandOf, TaskTypeOK
<1>3. /\ frameToSend'[field] = slots[at][field] /\ frameToSend' \in Frames
      /\ \A g \in Fields : g # field => frameToSend'[g] = frameToSend[g]
  BY <1>1, <1>2 DEF Frames, Fields
<1>4. TaskTypeOK'
  BY <1>1, <1>3 DEF TaskInv, TaskTypeOK
<1>5. NumbersInTable'
  BY <1>1, <1>2, <1>3 DEF TaskInv, NumbersInTable, OfOwner, Fields
<1>6. CallOf' /\ TableOf'
  BY <1>1 DEF TaskInv, CallOf, AddOf, ClearedOf, TableOf, Pending, Owned, OneOwner, Idle
<1>7. HandOf'
  <2>1. \A s : Owned(slots[at], s) /\ Owned(frameToSend, s) => Owned(frameToSend', s)
    BY <1>3 DEF Owned
  <2>2. (\A g \in Fields \ toCopy : frameToSend[g] = slots[at][g]) =>
           \A g \in Fields \ toCopy' : frameToSend'[g] = slots[at][g]
    BY <1>1, <1>3
  <2> QED BY <1>1, <1>2, <2>1, <2>2 DEF TaskInv, HandOf, Pending, Owned
<1>8. AstrayOf'
  <2>1. \A s : ~InTable(s) /\ ~InHand(s) => ~InHand(s)'
    BY <1>2, <1>3 DEF InTable, InHand
  <2> QED BY <1>1, <2>1 DEF TaskInv, AstrayOf, InTable
<1> QED BY <1>4, <1>5, <1>6, <1>7, <1>8 DEF TaskParts

LEMMA SendStep == ASSUME TaskInv, WorkerSend \/ WorkerSendFails PROVE TaskTypeOK' /\ TaskParts'
<1>1. /\ at' = None /\ toCopy = {} /\ toCopy' = {} /\ frameToSend' = ZeroFrame /\ disturbed' = "no"
      /\ UNCHANGED <<phase, fd, late, slots, storageIdx, call>>
      /\ CountAstray \/ astray' = astray
  BY DEF WorkerSend, WorkerSendFails, Sendto, ReadyToSend, NextSlot, vars, objectVars, watched, tableVars
<1>2. ZeroFrame \in Frames
  BY SizesAssumption DEF ZeroFrame, Frames, Descriptors
<1>3. \A s \in Sockets :
        \/ astray'[s] = astray[s]
        \/ /\ phase[s] = "closed" /\ ~InTable(s) /\ InHand(s)
           /\ astray'[s] = IF astray[s] = 0 THEN 1 ELSE 2
  BY <1>1 DEF CountAstray, InHand
<1>4. TaskTypeOK'
  BY <1>1, <1>2 DEF TaskInv, TaskTypeOK, CountAstray
<1>5. NumbersInTable'
  BY <1>1 DEF TaskInv, NumbersInTable, OfOwner, ZeroFrame
<1>6. CallOf' /\ TableOf' /\ HandOf'
  BY <1>1 DEF TaskInv, CallOf, AddOf, ClearedOf, TableOf, Pending, Owned, OneOwner, Idle, HandOf
<1>7. AstrayOf'
  <2>1. \A s \in Sockets : ~InHand(s)'
    BY <1>1, TableAssumption DEF InHand, ZeroFrame, Fields
  <2> QED BY <1>1, <1>3, <2>1 DEF TaskInv, AstrayOf, InTable
<1> QED BY <1>4, <1>5, <1>6, <1>7 DEF TaskParts

LEMMA TaskStep == TaskInv /\ [TaskNext]_allVars => TaskInv'
<1> SUFFICES ASSUME TaskInv, [TaskNext]_allVars PROVE TaskInv'
  OBVIOUS
<1>1. CASE [Next]_vars /\ UNCHANGED taskVars
  <2>1. TypeOK' /\ Rest'
    BY <1>1, TypeStep, RestStep DEF TaskInv
  <2> QED BY <1>1, <2>1, NextObjectsStay, TaskKeptByObjects DEF TaskInv, TaskParts
<1>2. CASE (\E s \in Sockets : TaskCall(s)) \/ TaskStore \/ Worker
  <2>1. TypeOK' /\ Rest'
    BY <1>2, TaskIsQuiet, QuietStep DEF TaskInv
  <2>2. CASE \E s \in Sockets : TaskCall(s)
    BY <2>1, <2>2, AddStep, RemoveStep DEF TaskCall, TaskInv, TaskParts
  <2>3. CASE TaskStore
    BY <2>1, <2>3, StoreStep, StoreStorageIdxStep, StoresDoneStep DEF TaskStore, TaskInv, TaskParts
  <2>4. CASE Worker
    BY <2>1, <2>4, SeeStep, CopyStep, SendStep DEF Worker, TaskInv, TaskParts
  <2> QED BY <1>2, <2>2, <2>3, <2>4
<1> QED BY <1>1, <1>2 DEF TaskNext, allVars

LEMMA TaskInvariant == TaskSpec => []TaskInv
  BY TaskInitInv, TaskStep, PTL DEF TaskSpec

-----------------------------------------------------------------------------
(* A cyclic frame of an open object goes through that object's own file, or *)
(* through descriptor 0 when a remove of it met the copy, word by word      *)
(* (cyclical_send_task.cpp:166, 205-212).                                   *)
THEOREM FramesAlwaysGoHome == TaskSpec => []FramesGoHome
<1>1. TaskInv => FramesGoHome
  <2> DEFINE s == frameToSend.canid.by
  <2> SUFFICES ASSUME TaskInv, ReadyToSend, s # None, phase[s] = "open", Trusted(s),
                      disturbed # "emptied"
               PROVE  \/ descriptors[frameToSend.fd.value] = s
                      \/ disturbed = "cleared" /\ frameToSend.fd.value = 0
    BY DEF FramesGoHome
  <2>1. at # None /\ at \in Slots /\ toCopy = {} /\ s \in Sockets
    BY DEF ReadyToSend, TaskInv, TaskTypeOK, Frames
  <2>2. frameToSend.fd.by \in {s, None}
    BY <2>1 DEF TaskInv, HandOf, Owned, Fields
  <2>3. CASE frameToSend.fd.by = s
    BY <2>1, <2>3, TableAssumption DEF TaskInv, NumbersInTable, OfOwner, Rest, OwnDescriptor
  <2>4. CASE frameToSend.fd.by = None
    <3>1. disturbed # "no"
      <4> SUFFICES ASSUME disturbed = "no" PROVE FALSE
        OBVIOUS
      <4>1. /\ slots[at].fd.by = None /\ slots[at].canid.by = s /\ OneOwner(slots[at])
        BY <2>1, <2>4 DEF TaskInv, HandOf, TableOf, Fields
      <4> QED BY <4>1 DEF OneOwner
    <3> QED BY <2>4, <3>1 DEF TaskInv, TaskTypeOK, NumbersInTable, OfOwner
  <2> QED BY <2>2, <2>3, <2>4
<1> QED BY <1>1, TaskInvariant, PTL

(* And of a closed object whose frames are out of the table at most one     *)
(* more goes out (cyclical_send_task.cpp:209-212).                          *)
THEOREM NeverMoreThanOneAstray == TaskSpec => []AtMostOneAstray
<1>1. TaskInv => AtMostOneAstray
  BY DEF TaskInv, TaskTypeOK, AstrayOf, AtMostOneAstray
<1> QED BY <1>1, TaskInvariant, PTL
=============================================================================
