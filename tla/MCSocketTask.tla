----------------------------- MODULE MCSocketTask -----------------------------
(* Objects are interchangeable, and so are threads.  Not followed: what     *)
(* comes after an error that was counted, after a bind race, after a second *)
(* number was used late, after more than two different binds, with frames   *)
(* in both queues and with two receives at a time; while a number is used   *)
(* late, receives; and while the cyclical send task has work, files that    *)
(* are bound, limited or called.                                            *)
EXTENDS SocketTask, FiniteSets, TLC

Symmetry == Permutations(Sockets) \cup Permutations(Threads)
Receiving == {t \in Threads : pc[t] \in {"recvfrom", "received"}}
Waiting == {s \in Sockets : queue[s] # <<>>}
Binds == {<<s, i>> \in Sockets \X (Interfaces \cup {ALL}) : i \in asked[s]}
Limited == {s \in Sockets : timeout[s] = "limited"}
Broadcast == {s \in Sockets : mode[s] = "BCM"}
Counting == {t \in Threads : pc[t] \in {"count", "counted"}}
TaskHasWork == ~Idle \/ at # None \/ storageIdx # 0 \/ \E s \in Sockets : astray[s] # 0
InTime ==
  /\ stats["Send"] + stats["Receive"] = 0
  /\ raced = {}
  /\ Cardinality(late) <= 1 /\ Cardinality(Binds) <= 2
  /\ Cardinality(Waiting) <= 1 /\ Cardinality(Receiving) <= 1
  /\ Cardinality(Limited) <= 1 /\ Cardinality(Broadcast) <= 1
  /\ TaskHasWork \/ late # {} =>
       Receiving = {} /\ Waiting = {} /\ \A s \in Sockets : timeout[s] = "forever"
  /\ TaskHasWork \/ Counting # {} => late = {} /\ Binds = {}
  /\ TaskHasWork => /\ Counting = {} /\ \A s \in Sockets : mode[s] = "RAW"
                    /\ \A d \in Descriptors : d # 0 => descriptors[d] # Foreign
=============================================================================
