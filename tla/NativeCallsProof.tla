--------------------------- MODULE NativeCallsProof ---------------------------
(***************************************************************************)
(* The properties of the native calls for any number of threads, objects   *)
(* and interfaces.                                                         *)
(***************************************************************************)
EXTENDS NativeCalls, TLAPS

OfFilters == {"getFilters", "setFilters"}
Tests == {"discoverInterfaceIndex", "fetchInterfaceMtu", "getsockopt"}

(* What the body of a native must be like: an error of the JVM is looked at *)
(* before anything else happens, or is the last thing that happens.         *)
Careful(n, b) == \A k \in 1..Len(b) :
  /\ b[k].fails \subseteq Exceptions \cup {"answer"}
  /\ "Error" \in b[k].fails => k = Len(b) \/ b[k + 1].kind = "look"
  /\ "answer" \in b[k].fails => n \in OfFilters
  /\ b[k].kind = "test" => n \in Tests /\ b[k].fails \subseteq Exceptions

LEMMA StepFacts ==
  /\ \A s \in {FindClass, GetMethodID, NewObject, NewStringUTF, GetStringUTFChars,
               GetStringUTFRegion, GetByteArrayRegion, SetByteArrayRegion} :
       s.kind = "JNI" /\ s.fails = {"Error"}
  /\ \A s \in {GetStringUTFLength, GetArrayLength} : s.kind = "JNI" /\ s.fails = {}
  /\ NewByteArray.kind = "JNI" /\ NewByteArray.fails = {"Error", "OutOfMemoryError"}
  /\ \A s \in {ExceptionCheck, isNULL} : s.kind = "look" /\ s.fails = {}
  /\ test.kind = "test" /\ test.fails = {"IllegalArgumentException"}
  /\ \A s \in {systemCall, systemCallOrMinus1, recvfrom, task, logthis, statistics} :
       s.kind = "outside"
  /\ systemCall.fails = {"IOException"} /\ systemCallOrMinus1.fails = {"answer"}
  /\ recvfrom.fails = {"IOException", "IllegalArgumentException"}
  /\ task.fails = {"IOException"} /\ logthis.fails = {} /\ statistics.fails = {}
BY DEF Step, FindClass, GetMethodID, NewObject, NewStringUTF, GetStringUTFLength,
  GetStringUTFChars, GetStringUTFRegion, GetArrayLength, NewByteArray, GetByteArrayRegion,
  SetByteArrayRegion, ExceptionCheck, isNULL, test, systemCall, systemCallOrMinus1, recvfrom,
  task, logthis, statistics

LEMMA BodiesAreCareful == \A n \in Natives : Careful(n, Body[n])
<1> USE StepFacts DEF Careful, Exceptions, OfFilters, Tests
<1>1. \A n : Careful(n, <<>>) /\ Careful(n, <<systemCall>>) /\ Careful(n, <<task>>)
        /\ Careful(n, <<statistics>>)
  OBVIOUS
<1>2. Careful("discoverInterfaceIndex", discoverInterfaceIndex)
  BY DEF discoverInterfaceIndex
<1>3. Careful("discoverInterfaceName", discoverInterfaceName)
  BY DEF discoverInterfaceName
<1>4. Careful("fetchInterfaceMtu", fetchInterfaceMtu)
  BY DEF fetchInterfaceMtu
<1>5. Careful("sendFrame", sendFrame)
  BY DEF sendFrame
<1>6. Careful("recvFrame", recvFrame)
  BY DEF recvFrame
<1>7. Careful("getsockopt", getsockopt)
  BY DEF getsockopt
<1>8. Careful("getFilters", getFilters)
  BY DEF getFilters
<1>9. Careful("setFilters", setFilters)
  BY DEF setFilters
<1>10. Careful("sendCyclicallyAdd", sendCyclicallyAdd)
  BY DEF sendCyclicallyAdd
<1>11. Careful("sendCyclicallyAdopt", sendCyclicallyAdopt)
  BY DEF sendCyclicallyAdopt
<1> HIDE StepFacts DEF Careful
<1> QED
  BY <1>1, <1>2, <1>3, <1>4, <1>5, <1>6, <1>7, <1>8, <1>9, <1>10, <1>11
  DEF Natives, Body, openSocket, close, bindToSocket, setsockopt, setreceivetimeout,
    sendCyclicallyRemove, removeCyclicalAll, enableCyclicallyAutoIncrement, ofCanId, statsGet,
    statsGetOfTask

LEMMA BodyLengths == \A n \in Natives :
  /\ Len(Body[n]) \in Nat
  /\ n = "getsockopt" =>
       Len(Body[n]) = 2 /\ Body[n][1].kind = "outside" /\ Body[n][2].kind = "test"
<1>1. \A n \in Natives : n = "getsockopt" => Body[n] = <<systemCall, test>>
  BY DEF Natives, Body, getsockopt
<1>a. \A b : b = <<systemCall, test>> =>
        Len(b) = 2 /\ b[1].kind = "outside" /\ b[2].kind = "test"
  BY StepFacts
<1>2. \A n \in Natives : \E k \in 0..10 : Len(Body[n]) = k
  BY DEF Natives, Body, openSocket, close, bindToSocket, setsockopt, setreceivetimeout,
    sendCyclicallyRemove, removeCyclicalAll, enableCyclicallyAutoIncrement, ofCanId, statsGet,
    statsGetOfTask, discoverInterfaceIndex, discoverInterfaceName, fetchInterfaceMtu,
    sendFrame, recvFrame, getsockopt, getFilters, setFilters, sendCyclicallyAdd, sendCyclicallyAdopt
<1> QED
  <2> SUFFICES ASSUME NEW n \in Natives, n = "getsockopt"
               PROVE  Len(Body[n]) = 2 /\ Body[n][1].kind = "outside" /\ Body[n][2].kind = "test"
    BY <1>2
  <2> DEFINE b == Body[n]
  <2>1. b = <<systemCall, test>>
    BY <1>1
  <2> HIDE DEF b
  <2>2. Len(b) = 2 /\ b[1].kind = "outside" /\ b[2].kind = "test"
    BY <2>1, <1>a
  <2> QED BY <2>2 DEF b

-----------------------------------------------------------------------------
Values == Nat \cup Names \cup {None}
Records == [
  native : Natives \cup {None}, this : CanInterfaces \cup {None},
  name : Strings \cup {None}, at : Nat, throwing : {"no", "FindClass", "ThrowNew"},
  exception : Exceptions \cup {None}, pending : Exceptions \cup {None},
  value : Values, failed : BOOLEAN]
NativeTypeOK ==
  /\ java \in [Threads -> {"idle", "native", "answer"}]
  /\ call \in [Threads -> Records]
  /\ ifIndex \in [CanInterfaces -> Values]
  /\ ifName \in [CanInterfaces -> Strings \cup Values]
  /\ netdev \in [Indexes -> Names \cup {None}]

(* A call c in a native: an exception is pending only where nothing can     *)
(* happen before somebody looks, and a failure is never without a trace.    *)
AtLook(c) == c.at <= Len(Body[c.native]) /\ Body[c.native][c.at].kind = "look"
Sound(c) ==
  /\ c.native \in Natives /\ c.at \in 1..Done(c.native)
  /\ c.throwing # "no" =>
       c.pending = None /\ c.failed /\ c.exception \in Exceptions /\ c.at < Done(c.native)
  /\ c.pending # None =>
       /\ c.failed
       /\ c.at = Done(c.native) \/ AtLook(c) \/ (c.native = "getsockopt" /\ c.at = 2)
  /\ c.failed /\ c.throwing = "no" /\ c.pending = None =>
       c.native \in OfFilters /\ c.at = Done(c.native)
SoundInv ==
  /\ NativeTypeOK
  /\ \A t \in Threads : java[t] = "native" => Sound(call[t])

LEMMA SoundInitInv == CallInit => SoundInv
<1> SUFFICES ASSUME CallInit PROVE SoundInv
  OBVIOUS
<1>1. NativeTypeOK
  BY InterfacesAssumption DEF CallInit, NativeInit, NativeTypeOK, Records, NoCall, Strings, Values
<1> QED BY <1>1 DEF CallInit, NativeInit, SoundInv

(* What a step inside a native leaves alone.                                *)
Inside(t, c) == call' = [call EXCEPT ![t] = c] /\ UNCHANGED Others
LEMMA InsideInv ==
  ASSUME SoundInv, NEW t \in Threads, java[t] = "native",
         NEW c \in Records, Sound(c), Inside(t, c)
  PROVE  SoundInv'
<1>1. NativeTypeOK'
  BY DEF SoundInv, NativeTypeOK, Inside, Others
<1>2. \A u \in Threads : java'[u] = "native" => Sound(call'[u])
  BY DEF SoundInv, NativeTypeOK, Inside, Others
<1> QED BY <1>1, <1>2 DEF SoundInv, Sound, Done, AtLook

(* The steps inside a native, as changes of its call.                       *)
LEMMA NativeStepSound ==
  ASSUME SoundInv, NEW t \in Threads, NativeStep(t)
  PROVE  /\ java[t] = "native"
         /\ \E c \in Records : Sound(c) /\ Inside(t, c)
<1> DEFINE c == call[t]
           n == c.native
<1>0. java[t] = "native"
  <2>1. Now(t).kind \in {"JNI", "outside", "look", "test"} => java[t] = "native"
    BY DEF Now, Step, InBody
  <2> QED BY <2>1 DEF NativeStep, JniFunction, CallOutside, Fails, Look, TestPasses, TestFails,
           ThrowFindsClass, ThrowFindsNoClass, ThrowNew, Takes, InThrow, Throwing
<1>1. c \in Records /\ Sound(c) /\ Len(Body[n]) \in Nat /\ Careful(n, Body[n])
  BY <1>0, BodyLengths, BodiesAreCareful DEF SoundInv, NativeTypeOK, Sound
<1>2. Now(t).kind \in {"JNI", "outside", "look", "test"} =>
        /\ c.throwing = "no" /\ c.at \in 1..Len(Body[n]) /\ Now(t) = Body[n][c.at]
        /\ c.at # Done(n)
  BY <1>1 DEF Now, InBody, Step, Throwing, Sound, Done
<1>g. /\ Done(n) \in Nat /\ c.at \in Nat /\ c.at + 1 \in Nat
      /\ n = "getsockopt" => /\ Done(n) = 3 /\ Len(Body[n]) = 2
                            /\ Body[n][1].kind = "outside" /\ Body[n][2].kind = "test"
  <2>1. Done(n) \in Nat /\ c.at \in Nat /\ c.at + 1 \in Nat
    BY <1>1 DEF Done, Records
  <2>2. n \in Natives
    BY <1>1 DEF Sound
  <2> QED BY <2>1, <2>2, BodyLengths DEF Done
<1>3. CASE JniFunction(t)
  <2>1. Now(t).kind = "JNI"
    BY <1>3 DEF JniFunction, Takes
  <2>2. c.pending = None /\ ~c.failed
    BY <1>1, <1>2, <1>g, <2>1 DEF Sound, AtLook
  <2>3. Inside(t, [c EXCEPT !.at = c.at + 1])
    BY <1>3 DEF JniFunction, Goes, Inside
  <2>4. [c EXCEPT !.at = c.at + 1] \in Records
    BY <1>1 DEF Records
  <2>5. Sound([c EXCEPT !.at = c.at + 1])
    BY <1>1, <1>2, <2>1, <2>2 DEF Sound, Done, Records
  <2> QED BY <1>0, <2>3, <2>4, <2>5
<1>4. CASE CallOutside(t)
  <2>1. PICK v \in Answers(c) : Inside(t, [c EXCEPT !.value = v, !.at = c.at + 1])
    BY <1>4 DEF CallOutside, Inside
  <2>2. Now(t).kind = "outside"
    BY <1>4 DEF CallOutside, Takes
  <2>3. c.pending = None /\ ~c.failed
    BY <1>1, <1>2, <2>2, BodyLengths DEF Sound, Done, AtLook
  <2>4. v \in Values
    <3>1. \A i \in Indexes : i \in Nat /\ netdev[i] \in Names \cup {None}
      BY InterfacesAssumption DEF SoundInv, NativeTypeOK
    <3>2. v \in Indexes \/ v = None \/ \E i \in Indexes : v = netdev[i]
      <4>1. CASE n = "discoverInterfaceIndex"
        BY <2>1, <4>1 DEF Answers
      <4>2. CASE n = "discoverInterfaceName"
        BY <2>1, <4>2 DEF Answers
      <4>3. CASE n = "recvFrame"
        BY <2>1, <4>3 DEF Answers
      <4>4. CASE n = "fetchInterfaceMtu"
        BY <2>1, <4>4 DEF Answers
      <4>5. CASE n \notin OfInterfaces
        BY <2>1, <4>5 DEF Answers, OfInterfaces
      <4> QED BY <4>1, <4>2, <4>3, <4>4, <4>5 DEF OfInterfaces
    <3> QED BY <3>1, <3>2 DEF Values
  <2>5. [c EXCEPT !.value = v, !.at = c.at + 1] \in Records
    BY <1>1, <1>g, <2>4 DEF Records
  <2>6. Sound([c EXCEPT !.value = v, !.at = c.at + 1])
    BY <1>1, <1>2, <2>2, <2>3 DEF Sound, Done, Records
  <2> QED BY <1>0, <2>1, <2>5, <2>6
<1>5. CASE Fails(t)
  <2>1. PICK f \in Now(t).fails :
      /\ Takes(t, {"JNI", "outside"})
      /\ \/ f = "Error" /\ Inside(t, [c EXCEPT !.pending = f, !.failed = TRUE, !.at = c.at + 1])
         \/ f = "answer" /\ Inside(t, [c EXCEPT !.failed = TRUE, !.at = Done(n)])
         \/ /\ f \notin {"Error", "answer"}
            /\ Inside(t, [c EXCEPT !.throwing = "FindClass", !.exception = f, !.failed = TRUE])
    BY <1>5 DEF Fails, Throws, Inside
  <2>2. Now(t).kind \in {"JNI", "outside"}
    BY <2>1 DEF Takes
  <2>3. c.pending = None /\ ~c.failed
    BY <1>1, <1>2, <2>2, BodyLengths DEF Sound, Done, AtLook
  <2>4. /\ f \in Exceptions \cup {"answer"}
        /\ f = "Error" => c.at = Len(Body[n]) \/ Body[n][c.at + 1].kind = "look"
        /\ f = "answer" => n \in OfFilters
    BY <1>1, <1>2, <2>1, <2>2 DEF Careful
  <2>5. CASE f = "Error"
    <3> DEFINE d == [c EXCEPT !.pending = f, !.failed = TRUE, !.at = c.at + 1]
    <3>1. d \in Records
      BY <1>1, <1>g, <2>5 DEF Records, Exceptions
    <3>2. /\ d.native = n /\ d.at = c.at + 1 /\ d.throwing = "no" /\ d.pending = "Error"
          /\ d.failed
      BY <1>1, <1>2, <2>2, <2>5 DEF Records
    <3>3. d.at \in 1..Done(n) /\ (d.at = Done(n) \/ AtLook(d))
      BY <1>1, <1>2, <2>2, <2>4, <2>5, <3>2 DEF Done, AtLook
    <3> HIDE DEF d
    <3>4. Sound(d)
      BY <1>1, <3>2, <3>3, InterfacesAssumption DEF Sound, Exceptions
    <3> USE DEF d
    <3> QED BY <1>0, <2>1, <2>5, <3>1, <3>4
  <2>6. CASE f = "answer"
    <3> DEFINE d == [c EXCEPT !.failed = TRUE, !.at = Done(n)]
    <3>1. d \in Records
      BY <1>1, <1>g DEF Records
    <3>2. Sound(d)
      BY <1>1, <1>2, <2>2, <2>3, <2>4, <2>6 DEF Sound, Done, Records, AtLook
    <3> QED BY <1>0, <2>1, <2>6, <3>1, <3>2
  <2>7. CASE f \notin {"Error", "answer"}
    <3> DEFINE d == [c EXCEPT !.throwing = "FindClass", !.exception = f, !.failed = TRUE]
    <3>1. d \in Records
      BY <1>1, <2>4, <2>7 DEF Records
    <3>2. Sound(d)
      BY <1>1, <1>2, <2>2, <2>3, <2>4, <2>7 DEF Sound, Done, Records
    <3> QED BY <1>0, <2>1, <2>7, <3>1, <3>2
  <2> QED BY <2>5, <2>6, <2>7
<1>6. CASE Look(t)
  <2> DEFINE d == [c EXCEPT !.at = IF c.pending = None THEN c.at + 1 ELSE Done(n)]
  <2>1. Now(t).kind = "look" /\ Inside(t, d)
    BY <1>6 DEF Look, Takes, Inside
  <2>2. d \in Records
    BY <1>1 DEF Records, Done
  <2>3. c.pending = None => ~c.failed
    BY <1>1, <1>2, <2>1 DEF Sound, Done
  <2>4. Sound(d)
    BY <1>1, <1>2, <2>1, <2>3 DEF Sound, Done, Records
  <2> QED BY <1>0, <2>1, <2>2, <2>4
<1>7. CASE TestPasses(t)
  <2> DEFINE d == [c EXCEPT !.at = c.at + 1]
  <2>1. Now(t).kind = "test" /\ Inside(t, d)
    BY <1>7 DEF TestPasses, Takes, Goes, Inside
  <2>2. d \in Records
    BY <1>1 DEF Records
  <2>3. /\ c.pending = None => ~c.failed
        /\ c.pending # None => c.failed /\ c.at + 1 = Done(n)
    BY <1>1, <1>2, <1>g, <2>1 DEF Sound, AtLook
  <2>4. Sound(d)
    BY <1>1, <1>2, <2>1, <2>3 DEF Sound, Done, Records
  <2> QED BY <1>0, <2>1, <2>2, <2>4
<1>8. CASE TestFails(t)
  <2>1. PICK f \in Now(t).fails : 
          Inside(t, [c EXCEPT !.throwing = "FindClass", !.exception = f, !.failed = TRUE])
    BY <1>8 DEF TestFails, Throws, Inside
  <2> DEFINE d == [c EXCEPT !.throwing = "FindClass", !.exception = f, !.failed = TRUE]
  <2>2. Now(t).kind = "test" /\ (Illegal(c) \/ (n = "getsockopt" /\ ~c.failed))
    BY <1>8 DEF TestFails, Takes
  <2>3. c.pending = None
    BY <1>1, <1>2, <1>g, <2>2 DEF Sound, AtLook, Illegal
  <2>4. f \in Exceptions
    BY <1>1, <1>2, <2>1, <2>2 DEF Careful
  <2>5. d \in Records
    BY <1>1, <2>4 DEF Records
  <2>6. Sound(d)
    BY <1>1, <1>2, <2>2, <2>3, <2>4 DEF Sound, Done, Records
  <2> QED BY <1>0, <2>1, <2>5, <2>6
<1>9. CASE ThrowFindsClass(t)
  <2> DEFINE d == [c EXCEPT !.throwing = "ThrowNew"]
  <2>1. c.throwing = "FindClass" /\ Inside(t, d)
    BY <1>9 DEF ThrowFindsClass, InThrow, Inside
  <2>2. d \in Records
    BY <1>1 DEF Records
  <2>3. Sound(d)
    BY <1>1, <2>1 DEF Sound, Done, Records, AtLook
  <2> QED BY <1>0, <2>1, <2>2, <2>3
<1>10. CASE ThrowFindsNoClass(t) \/ ThrowNew(t)
  <2>1. c.throwing # "no" /\ c.exception \in Exceptions
    BY <1>1, <1>10 DEF ThrowFindsNoClass, ThrowNew, InThrow, Throwing, Sound
  <2>2. PICK e \in Exceptions : Inside(t, [c EXCEPT !.throwing = "no", !.pending = e,
            !.at = IF n = "getsockopt" THEN c.at + 1 ELSE Done(n)])
    BY <1>10, <2>1 DEF ThrowFindsNoClass, ThrowNew, Thrown, Inside, Exceptions
  <2> DEFINE d == [c EXCEPT !.throwing = "no", !.pending = e,
            !.at = IF n = "getsockopt" THEN c.at + 1 ELSE Done(n)]
  <2>3. d \in Records
    <3> HIDE DEF d
    <3>1. (IF n = "getsockopt" THEN c.at + 1 ELSE Done(n)) \in Nat
      BY <1>g
    <3> QED BY <1>1, <3>1 DEF Records, d
  <2>4. c.failed /\ c.at \in 1..Len(Body[n])
    BY <1>1, <2>1 DEF Sound, Done
  <2>5. Sound(d)
    <3>1. ASSUME n = "getsockopt" PROVE c.at + 1 \in {2, Done(n)}
      <4>1. Done(n) = 3 /\ Len(Body[n]) = 2
        BY <1>g, <3>1
      <4>2. c.at \in 1..2
        BY <2>4, <4>1
      <4> QED BY <4>1, <4>2
    <3>2. e # None
      BY <2>2, InterfacesAssumption
    <3> QED BY <1>1, <2>4, <3>1, <3>2 DEF Sound, Done, Records
  <2> QED BY <1>0, <2>2, <2>3, <2>5
<1> QED BY <1>3, <1>4, <1>5, <1>6, <1>7, <1>8, <1>9, <1>10 DEF NativeStep

LEMMA SoundNextInv == SoundInv /\ [CallNext]_callVars => SoundInv'
<1> SUFFICES ASSUME SoundInv, [CallNext]_callVars PROVE SoundInv'
  OBVIOUS
<1>1. CASE UNCHANGED nativeVars
  BY <1>1 DEF nativeVars, SoundInv, NativeTypeOK, Sound, AtLook, Done
<1>2. ASSUME NEW t \in Threads, NativeStep(t) PROVE SoundInv'
  BY <1>2, NativeStepSound, InsideInv
<1>3. ASSUME NEW t \in Threads, JavaStep(t) PROVE SoundInv'
  <2>1. ASSUME NEW n \in Natives, NEW o \in CanInterfaces \cup {None},
               NEW name \in Strings \cup {None}, Enter(t, n, o, name)
        PROVE  SoundInv'
    <3> DEFINE c == [NoCall EXCEPT !.native = n, !.this = o, !.name = name]
    <3>1. c \in Records
      BY DEF Records, NoCall, Values
    <3>2. Sound(c)
      BY BodyLengths DEF Sound, NoCall, Done
    <3> HIDE DEF c
    <3>3. call' = [call EXCEPT ![t] = c] /\ java' = [java EXCEPT ![t] = "native"]
          /\ UNCHANGED <<ifIndex, ifName, netdev>>
      BY <2>1 DEF Enter, c
    <3>4. NativeTypeOK'
      BY <3>1, <3>3 DEF SoundInv, NativeTypeOK
    <3>5. \A u \in Threads : java'[u] = "native" => Sound(call'[u])
      BY <3>2, <3>3 DEF SoundInv, NativeTypeOK
    <3> QED BY <3>4, <3>5 DEF SoundInv, Sound, AtLook, Done
  <2>2. ASSUME NEW c \in Records, call' = [call EXCEPT ![t] = c],
               NEW j \in {"idle", "answer"}, java' = [java EXCEPT ![t] = j],
               ifIndex' \in [CanInterfaces -> Values],
               ifName' \in [CanInterfaces -> Strings \cup Values], UNCHANGED netdev
        PROVE  SoundInv'
    <3>1. NativeTypeOK'
      BY <2>2 DEF SoundInv, NativeTypeOK
    <3>2. \A u \in Threads : java'[u] = "native" => Sound(call'[u])
      BY <2>2 DEF SoundInv, NativeTypeOK
    <3> QED BY <3>1, <3>2 DEF SoundInv, Sound, AtLook, Done
  <2>3. NoCall \in Records /\ call[t] \in Records
    BY DEF NoCall, Records, Values, SoundInv, NativeTypeOK
  <2>4. {"discoverInterfaceIndex", "discoverInterfaceName", "recvFrame", "fetchInterfaceMtu"}
          \subseteq Natives
    BY DEF Natives, Body
  <2>5. CASE NewCanInterface(t) \/ Recv(t) \/ GetMtu(t) \/ OtherCall(t)
    BY <2>1, <2>4, <2>5 DEF NewCanInterface, Recv, GetMtu, OtherCall
  <2>6. CASE ResolveIfName(t)
    <3>1. PICK o \in CanInterfaces :
        \/ Enter(t, "discoverInterfaceName", o, None)
        \/ /\ java' = [java EXCEPT ![t] = "answer"]
           /\ call' = [call EXCEPT ![t] = [NoCall EXCEPT !.this = o]]
           /\ UNCHANGED <<ifIndex, ifName, netdev>>
      BY <2>6 DEF ResolveIfName
    <3>2. [NoCall EXCEPT !.this = o] \in Records
      BY DEF NoCall, Records, Values
    <3> QED BY <2>1, <2>2, <2>4, <3>1, <3>2 DEF SoundInv, NativeTypeOK
  <2>7. CASE Clone(t)
    <3>1. PICK o \in CanInterfaces, p \in CanInterfaces :
        /\ ifIndex' = [ifIndex EXCEPT ![p] = ifIndex[o]]
        /\ ifName' = [ifName EXCEPT ![p] = ifName[o]]
        /\ UNCHANGED <<java, call, netdev, known>>
      BY <2>7 DEF Clone
    <3> QED BY <3>1 DEF SoundInv, NativeTypeOK, Sound, AtLook, Done
  <2>8. CASE Answer(t)
    BY <2>2, <2>3, <2>8 DEF Answer, SoundInv, NativeTypeOK
  <2>9. CASE Return(t)
    <3>1. \A o \in CanInterfaces :
            Index(t, o) \in Values /\ Name(t, o) \in Strings \cup Values
      BY <2>3 DEF Index, Name, Records, Values, SoundInv, NativeTypeOK
    <3>2. PICK c \in Records, j \in {"idle", "answer"} :
            call' = [call EXCEPT ![t] = c] /\ java' = [java EXCEPT ![t] = j]
      BY <2>3, <2>9 DEF Return
    <3> QED BY <2>2, <2>9, <3>1, <3>2 DEF Return
  <2> QED BY <2>5, <2>6, <2>7, <2>8, <2>9, <1>3 DEF JavaStep
<1>4. ASSUME NEW i \in Indexes, NEW n \in Names \cup {None}, Rename(i, n) PROVE SoundInv'
  BY <1>4 DEF Rename, SoundInv, NativeTypeOK, Sound, AtLook, Done
<1> QED BY <1>1, <1>2, <1>3, <1>4 DEF CallNext, NativeNext, callVars

(* NothingAfterException, whatever the threads do                           *)
(* (cansocket.cpp:271-279).                                                 *)
THEOREM NothingEverAfterException == CallSpec => []NothingAfterException
<1>1. SoundInv => NothingAfterException
  <2> SUFFICES ASSUME SoundInv, NEW t \in Threads,
                      Throwing(t) \/ Now(t).kind \in {"JNI", "outside"}
               PROVE  call[t].pending = None
    BY DEF NothingAfterException
  <2>1. java[t] = "native"
    BY DEF Throwing, Now, InBody, Step
  <2>2. Sound(call[t])
    BY <2>1 DEF SoundInv
  <2>3. CASE Throwing(t)
    BY <2>2, <2>3 DEF Sound, Throwing
  <2>4. CASE Now(t).kind \in {"JNI", "outside"}
    <3>1. InBody(t) /\ Now(t) = Body[call[t].native][call[t].at]
      BY <2>4 DEF Now, Step
    <3>2. call[t].native \in Natives /\ call[t].at < Done(call[t].native)
      BY <2>2, <3>1 DEF Sound, InBody
    <3> QED BY <2>2, <2>4, <3>1, <3>2, BodyLengths DEF Sound, AtLook, Done
  <2> QED BY <2>3, <2>4
<1> QED BY <1>1, SoundInitInv, SoundNextInv, PTL DEF CallSpec

(* NormalMeansDone, likewise (utils.cpp:47-54).                             *)
THEOREM NormalAlwaysMeansDone == CallSpec => []NormalMeansDone
<1>1. SoundInv => NormalMeansDone
  <2> SUFFICES ASSUME SoundInv, NEW t \in Threads, AtReturn(t), call[t].native \notin OfFilters
               PROVE  call[t].pending = None <=> ~call[t].failed
    BY DEF NormalMeansDone, OfFilters
  <2>1. Sound(call[t]) /\ call[t].throwing = "no"
    BY DEF SoundInv, AtReturn, Throwing
  <2> QED BY <2>1 DEF Sound
<1> QED BY <1>1, SoundInitInv, SoundNextInv, PTL DEF CallSpec

-----------------------------------------------------------------------------
(* The natives whose answer an object keeps, and the step that asks.        *)
Asking == {"discoverInterfaceIndex", "discoverInterfaceName", "recvFrame"}
Asked(n) == IF n = "discoverInterfaceIndex" THEN 5 ELSE 1
Constructing == {"discoverInterfaceIndex", "recvFrame"}

(* The target of a call, and what its answer is worth.                      *)
Target(t) == LET c == call[t] IN
  /\ c.native \in Constructing =>
       /\ c.this \in CanInterfaces /\ ~Made(c.this)
       /\ \A u \in Threads \ {t} : java[u] = "native" => call[u].this # c.this
  /\ c.native = "discoverInterfaceName" => c.this \in CanInterfaces /\ Made(c.this)
  /\ c.native \notin Asking => c.this = None
  /\ c.native = "discoverInterfaceIndex" => c.name \in Strings
Answered(c) ==
  /\ c.native \in Asking /\ c.at > Asked(c.native) => c.failed \/ c.value # None
  /\ c.value # None =>
       /\ c.native = "discoverInterfaceIndex" => c.value \in Nat /\ <<c.value, c.name>> \in known
       /\ c.native = "discoverInterfaceName" =>
            c.value \in Names /\ <<ifIndex[c.this], c.value>> \in known
       /\ c.native = "recvFrame" => c.value \in Nat

NameInv ==
  /\ SoundInv /\ NamesOnceTrue /\ ResolvedUnlessFailed
  /\ \A i \in Indexes : netdev[i] # None => <<i, netdev[i]>> \in known
  /\ \A t \in Threads : java[t] = "native" => Target(t) /\ Answered(call[t])
  /\ \A t \in Threads : java[t] = "answer" =>
       call[t].this \in CanInterfaces /\ Made(call[t].this)

LEMMA AskFacts == \A n \in Natives : n \in Asking =>
  /\ Asked(n) \in 1..Len(Body[n])
  /\ Body[n][Asked(n)].kind = "outside"
<1>1. /\ Len(discoverInterfaceIndex) = 5 /\ discoverInterfaceIndex[5].kind = "outside"
      /\ Len(discoverInterfaceName) = 2 /\ discoverInterfaceName[1].kind = "outside"
      /\ Len(recvFrame) = 10 /\ recvFrame[1].kind = "outside"
  BY StepFacts DEF discoverInterfaceIndex, discoverInterfaceName, recvFrame
<1>2. /\ Body["discoverInterfaceIndex"] = discoverInterfaceIndex
      /\ Body["discoverInterfaceName"] = discoverInterfaceName
      /\ Body["recvFrame"] = recvFrame
  BY DEF Body
<1> QED BY <1>1, <1>2 DEF Asking, Asked

LEMMA NameInitInv == CallInit => NameInv
<1> SUFFICES ASSUME CallInit PROVE NameInv
  OBVIOUS
<1>1. NamesOnceTrue /\ ResolvedUnlessFailed
  BY InterfacesAssumption DEF CallInit, NativeInit, NamesOnceTrue, ResolvedUnlessFailed
<1> QED BY <1>1, SoundInitInv DEF CallInit, NativeInit, NameInv

(* What a step inside a native may do to its call.                          *)
Advances(c, d) ==
  /\ d.native = c.native /\ d.this = c.this /\ d.name = c.name
  /\ d.value = c.value \/ d.value \in Answers(c)
  /\ c.failed => d.failed
  /\ c.native \in Asking /\ c.at <= Asked(c.native) /\ d.at > Asked(c.native) =>
       d.failed \/ d.value \in Answers(c)

LEMMA NativeStepAdvances ==
  ASSUME SoundInv, NEW t \in Threads, NativeStep(t)
  PROVE  Advances(call[t], call'[t])
<1> DEFINE c == call[t]
           n == c.native
<1>0. java[t] = "native" /\ c \in Records /\ Sound(c) /\ call \in [Threads -> Records]
  BY NativeStepSound DEF SoundInv, NativeTypeOK
<1>1. Asked(n) \in Nat /\ c.at \in Nat
  BY <1>0 DEF Asked, Records
<1>2. Now(t).kind \in {"JNI", "look", "test"} /\ n \in Asking => c.at # Asked(n)
  BY <1>0, AskFacts DEF Now, Step, InBody, Sound
<1>3. CASE JniFunction(t) \/ TestPasses(t)
  <2>1. Now(t).kind \in {"JNI", "test"} /\ call'[t] = [c EXCEPT !.at = c.at + 1]
    BY <1>0, <1>3 DEF JniFunction, TestPasses, Takes, Goes
  <2> QED BY <1>0, <1>1, <1>2, <2>1 DEF Advances, Records
<1>4. CASE CallOutside(t)
  <2>1. PICK v \in Answers(c) : call'[t] = [c EXCEPT !.value = v, !.at = c.at + 1]
    BY <1>0, <1>4 DEF CallOutside
  <2> QED BY <1>0, <1>1, <2>1 DEF Advances, Records
<1>5. CASE Fails(t)
  BY <1>0, <1>5 DEF Fails, Throws, Advances, Records
<1>6. CASE Look(t)
  <2>1. Now(t).kind = "look"
        /\ call'[t] = [c EXCEPT !.at = IF c.pending = None THEN c.at + 1 ELSE Done(n)]
    BY <1>0, <1>6 DEF Look, Takes
  <2>2. c.pending # None => c.failed
    BY <1>0 DEF Sound
  <2> QED BY <1>0, <1>1, <1>2, <2>1, <2>2 DEF Advances, Records
<1>7. CASE TestFails(t)
  BY <1>0, <1>1, <1>7 DEF TestFails, Throws, Advances, Records
<1>8. CASE ThrowFindsClass(t)
  BY <1>0, <1>1, <1>8 DEF ThrowFindsClass, Advances, Records
<1>9. CASE ThrowFindsNoClass(t) \/ ThrowNew(t)
  <2>1. c.failed
    BY <1>0, <1>9 DEF ThrowFindsNoClass, ThrowNew, InThrow, Throwing, Sound
  <2> DEFINE a == IF n = "getsockopt" THEN c.at + 1 ELSE Done(n)
  <2>2. \/ call'[t] = [c EXCEPT !.throwing = "no", !.pending = "Error", !.at = a]
        \/ call'[t] = [c EXCEPT !.throwing = "no", !.pending = c.exception, !.at = a]
    BY <1>0, <1>9 DEF ThrowFindsNoClass, ThrowNew, Thrown
  <2> QED BY <1>0, <2>1, <2>2 DEF Advances, Records
<1> QED BY <1>3, <1>4, <1>5, <1>6, <1>7, <1>8, <1>9 DEF NativeStep

(* What an answer of the kernel is worth.                                   *)
LEMMA AnswerFacts ==
  ASSUME NameInv, NEW t \in Threads, java[t] = "native", call[t].native \in Asking,
         NEW v \in Answers(call[t])
  PROVE  /\ v # None
         /\ call[t].native = "discoverInterfaceIndex" => v \in Nat /\ <<v, call[t].name>> \in known
         /\ call[t].native = "discoverInterfaceName" =>
              v \in Names /\ <<ifIndex[call[t].this], v>> \in known
         /\ call[t].native = "recvFrame" => v \in Nat
<1> DEFINE c == call[t]
<1>0. /\ \A i \in Indexes : i \in Nat /\ i # None /\ netdev[i] \in Names \cup {None}
      /\ \A i \in Indexes : netdev[i] # None => <<i, netdev[i]>> \in known
      /\ \A s \in Strings : s # None
  BY InterfacesAssumption DEF NameInv, SoundInv, NativeTypeOK
<1>1. CASE c.native = "discoverInterfaceIndex"
  <2>1. PICK i \in Indexes : v = i /\ netdev[i] = c.name
    BY <1>1 DEF Answers
  <2>2. c.name \in Strings
    BY <1>1 DEF NameInv, Target
  <2> QED BY <1>0, <1>1, <2>1, <2>2
<1>2. CASE c.native = "discoverInterfaceName"
  <2>1. PICK i \in Indexes : v = netdev[i] /\ i = ifIndex[c.this] /\ netdev[i] # None
    BY <1>2 DEF Answers
  <2> QED BY <1>0, <1>2, <2>1
<1>3. CASE c.native = "recvFrame"
  BY <1>0, <1>3 DEF Answers
<1> QED BY <1>1, <1>2, <1>3 DEF Asking

LEMMA NameNativeStep ==
  ASSUME NameInv, NEW t \in Threads, NativeStep(t)
  PROVE  NameInv'
<1> DEFINE c == call[t]
           d == call'[t]
<1>1. /\ java[t] = "native" /\ UNCHANGED Others /\ SoundInv'
      /\ \A u \in Threads \ {t} : call'[u] = call[u]
  BY NativeStepSound, InsideInv DEF NameInv, SoundInv, NativeTypeOK, Inside
<1>2. Advances(c, d)
  BY NativeStepAdvances DEF NameInv
<1>3. \A u \in Threads : call'[u].native = call[u].native /\ call'[u].this = call[u].this
        /\ call'[u].name = call[u].name
  BY <1>1, <1>2 DEF Advances
<1>4. NamesOnceTrue' /\ ResolvedUnlessFailed'
  BY <1>1 DEF NameInv, NamesOnceTrue, ResolvedUnlessFailed, Others
<1>5. \A u \in Threads : java'[u] = "native" => Target(u)'
  BY <1>1, <1>3 DEF NameInv, Target, Others, Made
<1>6. Answered(c) /\ Sound(c) /\ c.native \in Natives /\ c.at \in Nat /\ d.at \in Nat
  BY <1>1 DEF NameInv, SoundInv, NativeTypeOK, Records, Sound
<1>7. Answered(call[t])'
  <2>1. ASSUME d.native \in Asking, d.at > Asked(d.native) PROVE d.failed \/ d.value # None
    <3>1. CASE c.at > Asked(c.native)
      BY <1>1, <1>2, <1>6, <2>1, <3>1, AnswerFacts DEF Advances, Answered
    <3>2. CASE c.at <= Asked(c.native)
      BY <1>1, <1>2, <2>1, <3>2, AnswerFacts DEF Advances
    <3> QED BY <1>6, <3>1, <3>2 DEF Asked
  <2>2. CASE d.value = c.value
    BY <1>1, <1>2, <1>6, <2>1, <2>2 DEF Answered, Advances, Others
  <2>3. CASE d.value \in Answers(c)
    <3>1. CASE c.native \in Asking
      BY <1>1, <1>2, <2>1, <2>3, <3>1, AnswerFacts DEF Answered, Advances, Others
    <3>2. CASE c.native \notin Asking
      BY <1>2, <3>2 DEF Answered, Advances, Asking
    <3> QED BY <3>1, <3>2
  <2> QED BY <1>2, <2>2, <2>3 DEF Advances
<1>8. \A u \in Threads : java'[u] = "native" => Answered(call[u])'
  <2>1. \A u \in Threads \ {t} : java'[u] = "native" => Answered(call[u])'
    BY <1>1 DEF NameInv, Answered, Others
  <2> QED BY <1>7, <2>1
<1> QED BY <1>1, <1>4, <1>5, <1>8 DEF NameInv, Others, Made

(* A call of a native.                                                      *)
LEMMA NameEnter ==
  ASSUME NameInv, SoundInv', NEW t \in Threads, NEW n \in Natives, NEW o, NEW name,
         Enter(t, n, o, name),
         n \in Constructing => o \in CanInterfaces /\ Fresh(o),
         n = "discoverInterfaceName" => o \in CanInterfaces /\ Made(o),
         n \notin Asking => o = None,
         n = "discoverInterfaceIndex" => name \in Strings
  PROVE  NameInv'
<1>1. /\ java' = [java EXCEPT ![t] = "native"] /\ java[t] = "idle"
      /\ UNCHANGED <<ifIndex, ifName, netdev, known>>
      /\ \A u \in Threads \ {t} : call'[u] = call[u] /\ java'[u] = java[u]
      /\ java'[t] = "native"
  BY DEF Enter, NameInv, SoundInv, NativeTypeOK
<1>2. /\ call'[t].native = n /\ call'[t].this = o /\ call'[t].name = name
      /\ call'[t].at = 1 /\ call'[t].value = None
  BY DEF Enter, NameInv, SoundInv, NativeTypeOK, NoCall
<1>3. NamesOnceTrue' /\ ResolvedUnlessFailed'
  BY <1>1 DEF NameInv, NamesOnceTrue, ResolvedUnlessFailed
<1>4. \A u \in Threads : java'[u] = "native" => Target(u)'
  <2> SUFFICES ASSUME NEW u \in Threads, java'[u] = "native" PROVE Target(u)'
    OBVIOUS
  <2>1. CASE u = t
    BY <1>1, <1>2, <2>1 DEF Target, Made, Fresh, Constructing, Asking
  <2>2. CASE u # t
    <3>1. Target(u)
      BY <1>1, <2>2 DEF NameInv
    <3>2. call[u].native \in Constructing => o # call[u].this
      BY <1>1, <2>2, <3>1, InterfacesAssumption DEF Target, Made, Fresh, Constructing, Asking
    <3>3. call[u].native \in Constructing =>
            \A v \in Threads \ {u} : java'[v] = "native" => call'[v].this # call[u].this
      BY <1>1, <1>2, <2>2, <3>1, <3>2 DEF Target
    <3> QED BY <1>1, <2>2, <3>1, <3>3 DEF Target, Made
  <2> QED BY <2>1, <2>2
<1>5. \A u \in Threads : java'[u] = "native" => Answered(call[u])'
  BY <1>1, <1>2 DEF NameInv, Answered, Asked
<1>6. \A u \in Threads : java'[u] = "answer" =>
        call'[u].this \in CanInterfaces /\ Made(call[u].this)'
  BY <1>1 DEF NameInv, Made
<1> QED BY <1>1, <1>3, <1>4, <1>5, <1>6 DEF NameInv

(* What Java makes of an answer.                                            *)
LEMMA ReturnFacts ==
  ASSUME NameInv, NEW t \in Threads, Return(t)
  PROVE  /\ \A o \in CanInterfaces : ifIndex'[o] # ifIndex[o] =>
              call[t].native \in Constructing /\ o = call[t].this
         /\ \A o \in CanInterfaces : ifName[o] # None => ifName'[o] # None
         /\ NamesOnceTrue'
         /\ Resolves(call[t]) =>
              /\ call[t].this \in CanInterfaces /\ Made(call[t].this)
              /\ ifName'[call[t].this] = None => call[t].failed
<1> DEFINE c == call[t]
<1>1. /\ java[t] = "native" /\ Target(t) /\ Answered(c) /\ Sound(c)
      /\ c.throwing = "no" /\ c.at = Done(c.native)
  BY DEF Return, AtReturn, Throwing, NameInv, SoundInv
<1>2. c.pending = None /\ c.native \in Asking => c.value # None
  <2>1. c.native \in Asking => c.native \in Natives /\ c.native \notin OfFilters
    BY <1>1 DEF Sound, Asking, OfFilters
  <2>2. c.native \in Asking => c.at > Asked(c.native)
    BY <1>1, <2>1, AskFacts, BodyLengths DEF Done
  <2> QED BY <1>1, <2>1, <2>2 DEF Answered, Sound
<1>3. c.pending # None => c.failed
  BY <1>1 DEF Sound
<1>4. \A o \in CanInterfaces : ifIndex'[o] = Index(t, o) /\ ifName'[o] = Name(t, o)
  BY DEF Return
<1>5. known' = known
  BY DEF Return
<1>6. \A o \in CanInterfaces : ifIndex'[o] # ifIndex[o] =>
        c.native \in Constructing /\ o = c.this
  BY <1>4 DEF Index, Assigned, Constructing
<1>7. \A o \in CanInterfaces : ifName[o] # None => ifName'[o] # None
  BY <1>1, <1>2, <1>4 DEF Name, Assigned, Target, NameInv, NamesOnceTrue, Made, Constructing,
    Asking
<1>8. NamesOnceTrue'
  <2> SUFFICES ASSUME NEW o \in CanInterfaces
               PROVE  /\ ifName'[o] # None => <<ifIndex'[o], ifName'[o]>> \in known
                      /\ ifIndex'[o] = None => ifName'[o] = None
    BY <1>5 DEF NamesOnceTrue
  <2>1. CASE Assigned(t, o, "discoverInterfaceIndex")
    <3>1. ifIndex'[o] = c.value /\ ifName'[o] = c.name /\ c.value # None
          /\ <<c.value, c.name>> \in known
      BY <1>1, <1>2, <1>4, <2>1 DEF Index, Name, Assigned, Answered, Asking
    <3> QED BY <3>1
  <2>2. CASE Assigned(t, o, "discoverInterfaceName")
    <3>1. ifIndex'[o] = ifIndex[o] /\ ifName'[o] = c.value /\ c.value # None
          /\ <<ifIndex[o], c.value>> \in known /\ ifIndex[o] # None
      BY <1>1, <1>2, <1>4, <2>2 DEF Index, Name, Assigned, Answered, Target, Made, Asking
    <3> QED BY <3>1
  <2>3. CASE Assigned(t, o, "recvFrame")
    <3>1. ifName'[o] = ifName[o] /\ ~Made(o)
      BY <1>1, <1>4, <2>3 DEF Name, Assigned, Target, Constructing
    <3> QED BY <3>1 DEF NameInv, NamesOnceTrue, Made
  <2>4. CASE /\ ~Assigned(t, o, "discoverInterfaceIndex") /\ ~Assigned(t, o, "recvFrame")
             /\ ~Assigned(t, o, "discoverInterfaceName")
    BY <1>4, <2>4 DEF Index, Name, NameInv, NamesOnceTrue
  <2> QED BY <2>1, <2>2, <2>3, <2>4
<1>9. Resolves(c) =>
        /\ c.this \in CanInterfaces /\ Made(c.this)
        /\ ifName'[c.this] = None => c.failed
  BY <1>1, <1>2, <1>3, <1>4 DEF Resolves, Target, Name, Assigned, Asking
<1> QED BY <1>6, <1>7, <1>8, <1>9

LEMMA NameReturn ==
  ASSUME NameInv, SoundInv', NEW t \in Threads, Return(t)
  PROVE  NameInv'
<1>1. /\ java[t] = "native" /\ UNCHANGED <<netdev, known>> /\ Target(t)
      /\ \A u \in Threads \ {t} : call'[u] = call[u] /\ java'[u] = java[u]
      /\ java'[t] = (IF Resolves(call[t]) THEN "answer" ELSE "idle")
      /\ java'[t] = "answer" => Resolves(call[t]) /\ call'[t] = call[t]
  BY DEF Return, AtReturn, NameInv, SoundInv, NativeTypeOK
<1>2. \A o \in CanInterfaces : ifIndex'[o] # ifIndex[o] =>
        call[t].native \in Constructing /\ o = call[t].this
  BY ReturnFacts
<1>3. \A o \in CanInterfaces : Made(o) => Made(o)' /\ ifIndex'[o] = ifIndex[o]
  BY <1>1, <1>2 DEF Made, Target
<1>4. NamesOnceTrue'
  BY ReturnFacts
<1>5. \A u \in Threads : java'[u] = "answer" =>
        call'[u].this \in CanInterfaces /\ Made(call[u].this)'
  <2> SUFFICES ASSUME NEW u \in Threads, java'[u] = "answer"
               PROVE  call'[u].this \in CanInterfaces /\ Made(call[u].this)'
    OBVIOUS
  <2>1. call[u].this \in CanInterfaces /\ Made(call[u].this) /\ call'[u] = call[u]
    BY <1>1, ReturnFacts DEF NameInv
  <2> QED BY <1>3, <2>1 DEF Made
<1>6. ResolvedUnlessFailed'
  <2> SUFFICES ASSUME NEW u \in Threads, java'[u] = "answer", ifName'[call'[u].this] = None
               PROVE  call'[u].failed
    BY DEF ResolvedUnlessFailed
  <2>1. CASE u = t
    BY <1>1, <2>1, ReturnFacts
  <2>2. CASE u # t
    BY <1>1, <2>2, ReturnFacts DEF NameInv, ResolvedUnlessFailed
  <2> QED BY <2>1, <2>2
<1>7. \A u \in Threads : java'[u] = "native" => Target(u)' /\ Answered(call[u])'
  <2> SUFFICES ASSUME NEW u \in Threads, java'[u] = "native"
               PROVE  Target(u)' /\ Answered(call[u])'
    OBVIOUS
  <2>1. u # t /\ java[u] = "native" /\ call'[u] = call[u] /\ Target(u) /\ Answered(call[u])
    BY <1>1 DEF NameInv
  <2>2. call[u].native \in Constructing =>
          /\ ~Made(call[u].this)'
          /\ \A v \in Threads \ {u} : java'[v] = "native" => call'[v].this # call[u].this
    BY <1>1, <1>2, <2>1 DEF Target, Made
  <2>3. call[u].native = "discoverInterfaceName" =>
          Made(call[u].this)' /\ ifIndex'[call[u].this] = ifIndex[call[u].this]
    BY <1>3, <2>1 DEF Target, Made
  <2>4. Target(u)'
    BY <2>1, <2>2, <2>3 DEF Target, Made
  <2>5. Answered(call[u])'
    BY <1>1, <2>1, <2>3 DEF Answered
  <2> QED BY <2>4, <2>5
<1> QED BY <1>1, <1>4, <1>5, <1>6, <1>7 DEF NameInv

LEMMA NameJavaStep ==
  ASSUME NameInv, SoundInv', NEW t \in Threads, JavaStep(t)
  PROVE  NameInv'
<1>1. CASE NewCanInterface(t) \/ Recv(t) \/ GetMtu(t) \/ OtherCall(t)
  <2>1. OfInterfaces \subseteq Natives
    BY DEF OfInterfaces, Natives, Body
  <2> QED BY <1>1, <2>1, NameEnter DEF NewCanInterface, Recv, GetMtu, OtherCall, OfInterfaces,
    Asking, Constructing
<1>2. CASE ResolveIfName(t)
  <2>1. PICK o \in CanInterfaces :
      /\ Made(o)
      /\ \/ Enter(t, "discoverInterfaceName", o, None)
         \/ /\ java[t] = "idle" /\ ifName[o] # None
            /\ java' = [java EXCEPT ![t] = "answer"]
            /\ call' = [call EXCEPT ![t] = [NoCall EXCEPT !.this = o]]
            /\ UNCHANGED <<ifIndex, ifName, netdev, known>>
    BY <1>2 DEF ResolveIfName
  <2>2. CASE Enter(t, "discoverInterfaceName", o, None)
    <3>1. "discoverInterfaceName" \in Natives
      BY DEF Natives, Body
    <3> QED BY <2>1, <2>2, <3>1, NameEnter DEF Asking, Constructing
  <2>3. CASE ~Enter(t, "discoverInterfaceName", o, None)
    <3>1. /\ call'[t].this = o /\ java'[t] = "answer"
          /\ \A u \in Threads \ {t} : call'[u] = call[u] /\ java'[u] = java[u]
      BY <2>1, <2>3 DEF NameInv, SoundInv, NativeTypeOK, NoCall
    <3>2. NamesOnceTrue' /\ ResolvedUnlessFailed'
      BY <2>1, <2>3, <3>1 DEF NameInv, NamesOnceTrue, ResolvedUnlessFailed
    <3> QED BY <2>1, <2>3, <3>1, <3>2 DEF NameInv, Target, Answered, Made
  <2> QED BY <2>2, <2>3
<1>3. CASE Clone(t)
  <2>1. PICK o \in CanInterfaces, p \in CanInterfaces :
      /\ Made(o) /\ Fresh(p)
      /\ ifIndex' = [ifIndex EXCEPT ![p] = ifIndex[o]]
      /\ ifName' = [ifName EXCEPT ![p] = ifName[o]]
      /\ UNCHANGED <<java, call, netdev, known>>
    BY <1>3 DEF Clone
  <2>2. /\ \A q \in CanInterfaces \ {p} : ifIndex'[q] = ifIndex[q] /\ ifName'[q] = ifName[q]
        /\ ifIndex'[p] = ifIndex[o] /\ ifName'[p] = ifName[o]
    BY <2>1 DEF NameInv, SoundInv, NativeTypeOK
  <2>3. NamesOnceTrue'
    BY <2>1, <2>2 DEF NameInv, NamesOnceTrue
  <2>4. ResolvedUnlessFailed'
    BY <2>1, <2>2 DEF NameInv, ResolvedUnlessFailed, Made, Fresh
  <2>5. \A u \in Threads : java'[u] = "native" => Target(u)' /\ Answered(call[u])'
    <3> SUFFICES ASSUME NEW u \in Threads, java'[u] = "native"
                 PROVE  Target(u)' /\ Answered(call[u])'
      OBVIOUS
    <3>1. Target(u) /\ Answered(call[u]) /\ call[u].this # p
      BY <2>1 DEF NameInv, Fresh
    <3>2. Target(u)'
      BY <2>1, <2>2, <3>1 DEF Target, Made
    <3>3. Answered(call[u])'
      BY <2>1, <2>2, <3>1 DEF Target, Answered
    <3> QED BY <3>2, <3>3
  <2>6. \A u \in Threads : java'[u] = "answer" =>
          call'[u].this \in CanInterfaces /\ Made(call[u].this)'
    BY <2>1, <2>2 DEF NameInv, Made, Fresh
  <2> QED BY <2>1, <2>3, <2>4, <2>5, <2>6 DEF NameInv
<1>4. CASE Return(t)
  BY <1>4, NameReturn
<1>5. CASE Answer(t)
  <2>1. /\ java'[t] = "idle" /\ UNCHANGED <<ifIndex, ifName, netdev, known>>
        /\ \A u \in Threads \ {t} : call'[u] = call[u] /\ java'[u] = java[u]
    BY <1>5 DEF Answer, NameInv, SoundInv, NativeTypeOK
  <2>2. NamesOnceTrue' /\ ResolvedUnlessFailed'
    BY <2>1 DEF NameInv, NamesOnceTrue, ResolvedUnlessFailed
  <2> QED BY <2>1, <2>2 DEF NameInv, Target, Answered, Made
<1> QED BY <1>1, <1>2, <1>3, <1>4, <1>5 DEF JavaStep

LEMMA NameNextInv == NameInv /\ [CallNext]_callVars => NameInv'
<1> SUFFICES ASSUME NameInv, [CallNext]_callVars PROVE NameInv'
  OBVIOUS
<1>1. SoundInv'
  BY SoundNextInv DEF NameInv
<1>2. CASE UNCHANGED nativeVars
  BY <1>1, <1>2 DEF nativeVars, NameInv, NamesOnceTrue, ResolvedUnlessFailed, Target, Answered,
    Made
<1>3. ASSUME NEW t \in Threads, JavaStep(t) PROVE NameInv'
  BY <1>1, <1>3, NameJavaStep
<1>4. ASSUME NEW t \in Threads, NativeStep(t) PROVE NameInv'
  BY <1>4, NameNativeStep
<1>5. ASSUME NEW i \in Indexes, NEW n \in Names \cup {None}, Rename(i, n) PROVE NameInv'
  <2>1. /\ known \subseteq known' /\ UNCHANGED <<java, call, ifIndex, ifName>>
        /\ netdev' = [netdev EXCEPT ![i] = n]
        /\ n # None => <<i, n>> \in known'
    BY <1>5 DEF Rename
  <2>2. /\ netdev \in [Indexes -> Names \cup {None}]
        /\ \A k \in Indexes : netdev[k] # None => <<k, netdev[k]>> \in known
    BY DEF NameInv, SoundInv, NativeTypeOK
  <2>3. \A k \in Indexes : netdev'[k] # None => <<k, netdev'[k]>> \in known'
    <3>1. netdev'[i] = n /\ \A k \in Indexes \ {i} : netdev'[k] = netdev[k]
      BY <2>1, <2>2
    <3> QED BY <2>1, <2>2, <3>1
  <2>4. NamesOnceTrue' /\ ResolvedUnlessFailed'
    BY <2>1 DEF NameInv, NamesOnceTrue, ResolvedUnlessFailed
  <2>5. \A u \in Threads : java'[u] = "native" => Target(u)' /\ Answered(call[u])'
    BY <2>1 DEF NameInv, Target, Answered, Made
  <2> QED BY <1>1, <2>1, <2>3, <2>4, <2>5 DEF NameInv, Made
<1> QED BY <1>2, <1>3, <1>4, <1>5 DEF CallNext, NativeNext, callVars

(* NamesOnceTrue, whatever the threads and the kernel do                    *)
(* (CanSocket.java:624-661).                                                *)
THEOREM NamesAlwaysOnceTrue == CallSpec => []NamesOnceTrue
<1>1. NameInv => NamesOnceTrue
  BY DEF NameInv
<1> QED BY <1>1, NameInitInv, NameNextInv, PTL DEF CallSpec

(* ResolvedUnlessFailed, likewise (CanSocket.java:651-659).                 *)
THEOREM AlwaysResolvedUnlessFailed == CallSpec => []ResolvedUnlessFailed
<1>1. NameInv => ResolvedUnlessFailed
  BY DEF NameInv
<1> QED BY <1>1, NameInitInv, NameNextInv, PTL DEF CallSpec

(* The calls leave the loader alone: what LibraryLoaderProof shows of       *)
(* LoaderSpec holds in CallSpec too (StaticLibLoaderUtils.java:55-141).     *)
LEMMA CallsLeaveTheLoaderAlone == CallSpec => LoaderSpec
<1>1. CallInit => LoaderInit
  BY DEF CallInit
<1>2. [CallNext]_callVars => [LoaderNext]_loaderVars
  BY DEF CallNext, callVars
<1> QED BY <1>1, <1>2, PTL DEF CallSpec, LoaderSpec
=============================================================================
