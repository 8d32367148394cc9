----------------------------- MODULE NativeCalls -----------------------------
(***************************************************************************)
(* The native methods as users of JNI: what each of them asks of the JVM   *)
(* and of the kernel, in order, what may fail in it, and what Java gets to *)
(* see of that; with CanInterface, which keeps what they answer.  They run *)
(* in a JVM whose class LibraryLoader has initialised.                     *)
(***************************************************************************)
EXTENDS LibraryLoader

CONSTANTS
  Threads, Jvm,      \* Java threads, and the JVM of each
  CanInterfaces, CAN_ALL_INTERFACES,   \* CanInterface objects
  Indexes, Names     \* indexes and names of network interfaces

Strings == Names \cup {"", "longer than IFNAMSIZ"}
Exceptions == {"Error", "OutOfMemoryError", "IOException", "IllegalArgumentException"}

ASSUME InterfacesAssumption ==
  /\ Jvm \in [Threads -> Jvms] /\ CAN_ALL_INTERFACES \in CanInterfaces
  /\ Indexes \subseteq Nat \ {0}
  /\ None \notin Nat \cup Strings \cup Exceptions \cup CanInterfaces
  /\ {"", "longer than IFNAMSIZ"} \cap Names = {}

(* A step: what it is and how it may fail.  "Error" is an exception that    *)
(* the JVM has raised, "answer" a NULL or -1 for Java; in any other case    *)
(* the native throws the exception that is named.                           *)
Step(kind, fails) == [kind |-> kind, fails |-> fails]

FindClass == Step("JNI", {"Error"})
GetMethodID == Step("JNI", {"Error"})
NewObject == Step("JNI", {"Error"})
NewStringUTF == Step("JNI", {"Error"})
GetStringUTFLength == Step("JNI", {})
GetStringUTFChars == Step("JNI", {"Error"})
GetStringUTFRegion == Step("JNI", {"Error"})
GetArrayLength == Step("JNI", {})
NewByteArray == Step("JNI", {"Error", "OutOfMemoryError"})
GetByteArrayRegion == Step("JNI", {"Error"})
SetByteArrayRegion == Step("JNI", {"Error"})
ExceptionCheck == Step("look", {})
isNULL == Step("look", {})
test == Step("test", {"IllegalArgumentException"})
systemCall == Step("outside", {"IOException"})
systemCallOrMinus1 == Step("outside", {"answer"})
recvfrom == Step("outside", {"IOException", "IllegalArgumentException"})
task == Step("outside", {"IOException"})
logthis == Step("outside", {})
statistics == Step("outside", {})

openSocket == <<systemCall>>
close == <<systemCall>>
(* As discoverInterfaceIndex, with an error of ioctl that nobody looks at.  *)
discoverInterfaceIndexUnchecked ==
  <<GetStringUTFLength, test, GetStringUTFRegion, ExceptionCheck, systemCallOrMinus1>>
discoverInterfaceIndex ==
  <<GetStringUTFLength, test, GetStringUTFRegion, ExceptionCheck, systemCall>>
discoverInterfaceName == <<systemCall, NewStringUTF>>
bindToSocket == <<systemCall>>
(* As sendFrame, with the second look forgotten.                            *)
sendFrameUnchecked ==
  <<GetArrayLength, ExceptionCheck, GetByteArrayRegion, systemCall>>
sendFrame ==
  <<GetArrayLength, ExceptionCheck, GetByteArrayRegion, ExceptionCheck, systemCall>>
recvFrame ==
  <<recvfrom, FindClass, isNULL, GetMethodID, isNULL, NewByteArray, isNULL,
    SetByteArrayRegion, ExceptionCheck, NewObject>>
fetchInterfaceMtu ==
  <<GetStringUTFLength, test, GetStringUTFRegion, ExceptionCheck, systemCall>>
setsockopt == <<systemCall>>
setreceivetimeout == <<systemCall>>
getsockopt == <<systemCall, test>>
getFilters ==
  <<logthis, systemCallOrMinus1, logthis, NewByteArray, isNULL, SetByteArrayRegion>>
setFilters == <<GetStringUTFChars, isNULL, logthis, systemCallOrMinus1, logthis>>
sendCyclicallyAdd ==
  <<GetArrayLength, ExceptionCheck, GetByteArrayRegion, ExceptionCheck, task>>
sendCyclicallyRemove == <<task>>
removeCyclicalAll == <<task>>
sendCyclicallyAdopt ==
  <<GetArrayLength, ExceptionCheck, GetByteArrayRegion, ExceptionCheck, task>>
enableCyclicallyAutoIncrement == <<task>>
(* Natives of the flags of an identifier, and getters of the statistics of  *)
(* sockets and of the cyclical send task.                                   *)
ofCanId == <<>>
statsGet == <<>>
statsGetOfTask == <<statistics>>

Body == [
  openSocket |-> openSocket, close |-> close, bindToSocket |-> bindToSocket,
  discoverInterfaceIndex |-> discoverInterfaceIndex,
  discoverInterfaceName |-> discoverInterfaceName, fetchInterfaceMtu |-> fetchInterfaceMtu,
  sendFrame |-> sendFrame, recvFrame |-> recvFrame, setsockopt |-> setsockopt,
  getsockopt |-> getsockopt, setreceivetimeout |-> setreceivetimeout,
  setFilters |-> setFilters, getFilters |-> getFilters,
  sendCyclicallyAdd |-> sendCyclicallyAdd, sendCyclicallyAdopt |-> sendCyclicallyAdopt,
  sendCyclicallyRemove |-> sendCyclicallyRemove, removeCyclicalAll |-> removeCyclicalAll,
  enableCyclicallyAutoIncrement |-> enableCyclicallyAutoIncrement,
  ofCanId |-> ofCanId, statsGet |-> statsGet, statsGetOfTask |-> statsGetOfTask]
Natives == DOMAIN Body

VARIABLES
  java,     \* per thread: "idle", in a "native", or about to "answer" a name
  call,     \* per thread: the native it is in
  ifIndex,  \* per CanInterface: _ifIndex, None before its constructor
  ifName,   \* per CanInterface: _ifName
  netdev,   \* the kernel's interfaces: a name per index
  known     \* pairs of index and name that the kernel has known so far

nativeVars == <<java, call, ifIndex, ifName, netdev, known>>
callVars == <<loaderVars, nativeVars>>

(* `at' counts steps, `throwing' is where throwException is, `exception'    *)
(* what it throws, `pending' what the JVM has pending, `value' what the     *)
(* system call gave; `failed' keeps that a step has failed.                 *)
NoCall == [native |-> None, this |-> None, name |-> None, at |-> 1, throwing |-> "no",
           exception |-> None, pending |-> None, value |-> None, failed |-> FALSE]

NativeInit ==
  /\ java = [t \in Threads |-> "idle"]
  /\ call = [t \in Threads |-> NoCall]
  /\ ifIndex = [o \in CanInterfaces |-> IF o = CAN_ALL_INTERFACES THEN 0 ELSE None]
  /\ ifName = [o \in CanInterfaces |-> None]
  /\ netdev = [i \in Indexes |-> None]
  /\ known = {}
CallInit == LoaderInit /\ NativeInit

(* The kernel: interfaces come, go and are renamed.                         *)
Rename(i, n) ==
  /\ n # netdev[i] /\ (n = None \/ \A k \in Indexes : netdev[k] # n)
  /\ netdev' = [netdev EXCEPT ![i] = n]
  /\ known' = IF n = None THEN known ELSE known \cup {<<i, n>>}
  /\ UNCHANGED <<java, call, ifIndex, ifName>>

-----------------------------------------------------------------------------
(* Java calls a native.                                                     *)
Initialized(t) == cls[Jvm[t]] = "initialized"
Enter(t, n, o, name) ==
  /\ java[t] = "idle" /\ Initialized(t)
  /\ java' = [java EXCEPT ![t] = "native"]
  /\ call' = [call EXCEPT ![t] = [NoCall EXCEPT !.native = n, !.this = o, !.name = name]]
  /\ UNCHANGED <<ifIndex, ifName, netdev, known>>

(* An object under construction is known to nobody else.                    *)
Made(o) == ifIndex[o] # None
Fresh(o) == ~Made(o) /\ \A t \in Threads : java[t] = "native" => call[t].this # o
NewCanInterface(t) == \E o \in CanInterfaces, name \in Strings :
  Fresh(o) /\ Enter(t, "discoverInterfaceIndex", o, name)
ResolveIfName(t) == \E o \in CanInterfaces :
  /\ Made(o)
  /\ \/ ifName[o] = None /\ Enter(t, "discoverInterfaceName", o, None)
     \/ /\ java[t] = "idle" /\ Initialized(t) /\ ifName[o] # None
        /\ java' = [java EXCEPT ![t] = "answer"]
        /\ call' = [call EXCEPT ![t] = [NoCall EXCEPT !.this = o]]
        /\ UNCHANGED <<ifIndex, ifName, netdev, known>>
Recv(t) == \E o \in CanInterfaces : Fresh(o) /\ Enter(t, "recvFrame", o, None)
GetMtu(t) == \E name \in Strings : Enter(t, "fetchInterfaceMtu", None, name)
OfInterfaces == {"discoverInterfaceIndex", "discoverInterfaceName", "recvFrame", "fetchInterfaceMtu"}
OtherCall(t) == \E n \in Natives \ OfInterfaces : Enter(t, n, None, None)
Clone(t) == \E o, p \in CanInterfaces :
  /\ java[t] = "idle" /\ Initialized(t) /\ Made(o) /\ Fresh(p)
  /\ ifIndex' = [ifIndex EXCEPT ![p] = ifIndex[o]]
  /\ ifName' = [ifName EXCEPT ![p] = ifName[o]]
  /\ UNCHANGED <<java, call, netdev, known>>

-----------------------------------------------------------------------------
(* In a native; throwException is two steps of JNI on top of its body.      *)
Done(n) == Len(Body[n]) + 1
Throwing(t) == java[t] = "native" /\ call[t].throwing # "no"
InBody(t) == java[t] = "native" /\ ~Throwing(t) /\ call[t].at < Done(call[t].native)
AtReturn(t) == java[t] = "native" /\ ~Throwing(t) /\ call[t].at = Done(call[t].native)
Now(t) == IF InBody(t) THEN Body[call[t].native][call[t].at] ELSE Step("return", {})
Takes(t, kinds) == Initialized(t) /\ Now(t).kind \in kinds
Others == <<java, ifIndex, ifName, netdev, known>>

Goes(t) == call' = [call EXCEPT ![t].at = @ + 1] /\ UNCHANGED Others
Throws(t, exception) ==
  /\ call' = [call EXCEPT ![t].throwing = "FindClass", ![t].exception = exception,
                          ![t].failed = TRUE]
  /\ UNCHANGED Others

JniFunction(t) == Takes(t, {"JNI"}) /\ Goes(t)
Fails(t) == \E f \in Now(t).fails :
  /\ Takes(t, {"JNI", "outside"})
  /\ \/ /\ f = "Error"
        /\ call' = [call EXCEPT ![t].pending = f, ![t].failed = TRUE, ![t].at = @ + 1]
        /\ UNCHANGED Others
     \/ /\ f = "answer"
        /\ call' = [call EXCEPT ![t].failed = TRUE, ![t].at = Done(call[t].native)]
        /\ UNCHANGED Others
     \/ f \notin {"Error", "answer"} /\ Throws(t, f)
Look(t) ==
  /\ Takes(t, {"look"})
  /\ call' = [call EXCEPT ![t].at = IF call[t].pending = None THEN @ + 1
                                    ELSE Done(call[t].native)]
  /\ UNCHANGED Others

(* The length of a name, or of an option, which a getsockopt that failed    *)
(* leaves as it was.                                                        *)
Illegal(c) ==
  \/ c.native = "discoverInterfaceIndex" /\ c.name \notin Names
  \/ c.native = "fetchInterfaceMtu" /\ c.name = "longer than IFNAMSIZ"
TestPasses(t) == Takes(t, {"test"}) /\ ~Illegal(call[t]) /\ Goes(t)
TestFails(t) ==
  /\ Takes(t, {"test"})
  /\ Illegal(call[t]) \/ (call[t].native = "getsockopt" /\ ~call[t].failed)
  /\ \E f \in Now(t).fails : Throws(t, f)

Answers(c) ==
  CASE c.native = "discoverInterfaceIndex" -> {i \in Indexes : netdev[i] = c.name}
    [] c.native = "discoverInterfaceName" ->
         {netdev[i] : i \in {i \in Indexes : i = ifIndex[c.this] /\ netdev[i] # None}}
    [] c.native = "recvFrame" -> {i \in Indexes : netdev[i] # None}
    [] c.native = "fetchInterfaceMtu" -> {None : i \in {i \in Indexes : netdev[i] = c.name}}
    [] OTHER -> {None}
CallOutside(t) == \E v \in Answers(call[t]) :
  /\ Takes(t, {"outside"})
  /\ call' = [call EXCEPT ![t].value = v, ![t].at = @ + 1]
  /\ UNCHANGED Others

(* throwException: FindClass, and ThrowNew unless that is NULL; only        *)
(* getsockopt goes on after it.                                             *)
InThrow(t, step) == Initialized(t) /\ Throwing(t) /\ call[t].throwing = step
Thrown(t, exception) ==
  /\ call' = [call EXCEPT ![t].throwing = "no", ![t].pending = exception,
       ![t].at = IF call[t].native = "getsockopt" THEN @ + 1 ELSE Done(call[t].native)]
  /\ UNCHANGED Others
ThrowFindsClass(t) ==
  /\ InThrow(t, "FindClass")
  /\ call' = [call EXCEPT ![t].throwing = "ThrowNew"]
  /\ UNCHANGED Others
ThrowFindsNoClass(t) == InThrow(t, "FindClass") /\ Thrown(t, "Error")
ThrowNew(t) == InThrow(t, "ThrowNew") /\ Thrown(t, call[t].exception)

-----------------------------------------------------------------------------
(* Back in Java, which assigns what the native returned, or has the         *)
(* exception; resolveIfName swallows an IOException.                        *)
Assigned(t, o, native) == call[t].native = native /\ call[t].this = o /\ call[t].pending = None
Index(t, o) ==
  IF Assigned(t, o, "discoverInterfaceIndex") \/ Assigned(t, o, "recvFrame")
  THEN call[t].value ELSE ifIndex[o]
Name(t, o) ==
  CASE Assigned(t, o, "discoverInterfaceIndex") -> call[t].name
    [] Assigned(t, o, "discoverInterfaceName") -> call[t].value
    [] OTHER -> ifName[o]

Resolves(c) == c.native = "discoverInterfaceName" /\ c.pending \in {None, "IOException"}

(* As Return, with a name that is null again when resolving it has failed.  *)
ReturnForgets(t) ==
  /\ Initialized(t) /\ AtReturn(t)
  /\ java' = [java EXCEPT ![t] = IF Resolves(call[t]) THEN "answer" ELSE "idle"]
  /\ call' = [call EXCEPT ![t] = IF Resolves(@) THEN @ ELSE NoCall]
  /\ ifIndex' = [o \in CanInterfaces |-> Index(t, o)]
  /\ ifName' = [o \in CanInterfaces |->
       IF o = call[t].this /\ call[t].pending # None THEN None ELSE Name(t, o)]
  /\ UNCHANGED <<netdev, known>>
Return(t) ==
  /\ Initialized(t) /\ AtReturn(t)
  /\ java' = [java EXCEPT ![t] = IF Resolves(call[t]) THEN "answer" ELSE "idle"]
  /\ call' = [call EXCEPT ![t] = IF Resolves(@) THEN @ ELSE NoCall]
  /\ ifIndex' = [o \in CanInterfaces |-> Index(t, o)]
  /\ ifName' = [o \in CanInterfaces |-> Name(t, o)]
  /\ UNCHANGED <<netdev, known>>

(* "return _ifName", read a second time.                                    *)
Answer(t) ==
  /\ java[t] = "answer" /\ Initialized(t)
  /\ java' = [java EXCEPT ![t] = "idle"]
  /\ call' = [call EXCEPT ![t] = NoCall]
  /\ UNCHANGED <<ifIndex, ifName, netdev, known>>

-----------------------------------------------------------------------------
JavaStep(t) ==
  \/ NewCanInterface(t) \/ ResolveIfName(t) \/ Recv(t) \/ GetMtu(t) \/ OtherCall(t)
  \/ Clone(t) \/ Return(t) \/ Answer(t)
NativeStep(t) ==
  \/ JniFunction(t) \/ CallOutside(t) \/ Fails(t) \/ Look(t)
  \/ TestPasses(t) \/ TestFails(t)
  \/ ThrowFindsClass(t) \/ ThrowFindsNoClass(t) \/ ThrowNew(t)
NativeNext ==
  \/ \E t \in Threads : JavaStep(t) \/ NativeStep(t)
  \/ \E i \in Indexes, n \in Names \cup {None} : Rename(i, n)
CallNext ==
  \/ LoaderNext /\ UNCHANGED nativeVars
  \/ NativeNext /\ UNCHANGED loaderVars
CallSpec == CallInit /\ [][CallNext]_callVars

-----------------------------------------------------------------------------
(* No native calls JNI, the kernel or the cyclical send task while it has   *)
(* an exception pending, not even to throw another one; getsockopt, which   *)
(* goes on after it has thrown, does not either (cansocket.cpp:271-279).    *)
NothingAfterException == \A t \in Threads :
  Throwing(t) \/ Now(t).kind \in {"JNI", "outside"} => call[t].pending = None

(* A native that returns without an exception has done all that it was      *)
(* called for: no failure on the way is lost, not that of throwing an       *)
(* exception either, except by the natives of the filters, which answer     *)
(* NULL and -1 (utils.cpp:45-52, cansocket.cpp:404-407).                    *)
NormalMeansDone == \A t \in Threads :
  AtReturn(t) /\ call[t].native \notin {"getFilters", "setFilters"} =>
    (call[t].pending = None <=> ~call[t].failed)

(* The name that a CanInterface carries has been the name of its index,     *)
(* though perhaps not any more: no object gets an index or a name from a    *)
(* call that failed, least of all the 0 of CAN_ALL_INTERFACES, and threads  *)
(* that resolve one object mix up nothing (CanSocket.java:624-661).         *)
NamesOnceTrue == \A o \in CanInterfaces :
  /\ ifName[o] # None => <<ifIndex[o], ifName[o]>> \in known
  /\ ifIndex[o] = None => ifName[o] = None

(* resolveIfName returns null only to a thread whose own discovery failed,  *)
(* whatever other threads find on the same object (CanSocket.java:651-659). *)
ResolvedUnlessFailed == \A t \in Threads :
  java[t] = "answer" /\ ifName[call[t].this] = None => call[t].failed
=============================================================================
