---------------------------- MODULE MCNativeCalls ----------------------------
(* The threads are those of one JVM.  Followed with any disk are only JVMs  *)
(* that initialise the class; natives that have nothing to do with          *)
(* interfaces one at a time, before there are any; and the others after an  *)
(* initialisation without trouble, with the other JVM left alone.           *)
EXTENDS NativeCalls, TLC

CONSTANT j1
JvmOfThreads == [t \in Threads |-> j1]
Symmetry ==
  Permutations(Threads) \cup Permutations(Dirs) \cup Permutations(Names)
    \cup Permutations(CanInterfaces \ {CAN_ALL_INTERFACES})

Calling == \E t \in Threads : java[t] # "idle"
AnyMade == \E o \in CanInterfaces \ {CAN_ALL_INTERFACES} : Made(o)
Elsewhere(t) == java[t] = "native" /\ call[t].native \notin OfInterfaces \ {"fetchInterfaceMtu"}
NativesAlone ==
  /\ Calling \/ AnyMade \/ known # {} =>
       /\ posix /\ cls[j1] = "initialized" /\ trouble[j1] = {}
       /\ \A j \in Jvms \ {j1} : cls[j] = "try" /\ candidate[j] = 1 /\ temporaryDir[j] = None
  /\ \A t \in Threads : Elsewhere(t) =>
       ~AnyMade /\ \A u \in Threads \ {t} : java[u] = "idle"
=============================================================================
