------------------------------ MODULE CanFilter ------------------------------
(***************************************************************************)
(* CanId, CanFilter, setFilters and getFilters of CanSocket.java with the  *)
(* natives of cansocket.cpp behind them, on one socket and some CanIds     *)
(* that several threads share.  An identifier is the set of its bits that  *)
(* are 1.  setFilters makes two native calls, one to reset the filters and *)
(* one to install the new ones; the kernel's side is external.             *)
(***************************************************************************)
EXTENDS Naturals, Sequences

CONSTANTS
  Threads,    \* Java threads that share the socket
  SffBits,    \* bits of CAN_SFF_MASK
  HighBits,   \* the other bits of CAN_EFF_MASK
  EFF, RTR, ERR,    \* CAN_EFF_FLAG, CAN_RTR_FLAG, CAN_ERR_FLAG
  CanIds, Address,  \* CanId objects, and the number each was constructed with
  Marked,     \* those whose flags the program changes
  Requests,   \* the arrays of filters that setFilters is called with
  CAN_RAW_FILTER_MAX

EffBits == SffBits \cup HighBits
Flags == {EFF, RTR, ERR}
Bits == EffBits \cup Flags
Identifier == SUBSET Bits
CanFilter == [id : CanIds, mask : Identifier]
Filter == [id : Identifier, mask : Identifier]

ASSUME BitsAssumption ==
  /\ SffBits \cap HighBits = {}
  /\ EffBits \cap Flags = {}
  /\ EFF # RTR /\ RTR # ERR /\ EFF # ERR
ASSUME CanIdsAssumption == Address \in [CanIds -> Identifier] /\ Marked \subseteq CanIds
ASSUME RequestsAssumption == Requests \subseteq Seq(CanFilter)

-----------------------------------------------------------------------------
(* The natives of CanId.                                                    *)
getCANID_EFF(canid) == canid \cap EffBits

(* As setFlag, with CAN_ERR_MASK, all 29 identifier bits, for CAN_ERR_FLAG. *)
setFlagByMask(canid, flag) == IF flag = ERR THEN canid \cup EffBits ELSE canid \cup {flag}
setFlag(canid, flag) == canid \cup {flag}
clearFlag(canid, flag) == canid \ {flag}

(* Masks of CanFilter.                                                      *)
EXACT == Bits \ {ERR}
ALL == {}

-----------------------------------------------------------------------------
(* The kernel: a list of filters, each of 8 bytes; a list of another size   *)
(* is refused and changes nothing.  A frame is delivered when one of them   *)
(* matches, or with the inversion bit, which is ERR, when it does not.      *)
FilterSize == 8
Everything == [id |-> {}, mask |-> {}]
Default == <<Everything>>
setsockopt(old, list, bytes) ==
  IF bytes % FilterSize # 0 \/ bytes > CAN_RAW_FILTER_MAX * FilterSize
  THEN old ELSE list
KernelMatches(f, canid) ==
  (canid \cap f.mask = f.id \cap f.mask) # (ERR \in f.id)
Accepts(list, canid) == \E n \in DOMAIN list : KernelMatches(list[n], canid)

(* Data frames and remote frames; error frames take another way.            *)
OnBus == SUBSET (Bits \ {ERR})

VARIABLES
  filters,  \* the kernel's list for the socket
  ids,      \* per CanId: _canId
  pc,       \* per thread: "idle", or where it is in its call
  data,     \* per thread: the array that setFilters was called with
  text,     \* per thread: the filters of its filterString, or those it got
  mark      \* per thread: a CanId and the value that it is about to store

vars == <<filters, ids, pc, data, text, mark>>
NoMark == {}

(* As setFilterEntry, with the caller's mask lost to `=' in place of `|='.  *)
setFilterEntryLosesMask(f) ==
  [id |-> f.id \cup {EFF}, mask |-> {EFF, RTR} \cup SffBits]

(* One entry as the native side hands it to the kernel, "I want it all".    *)
setFilterEntry(f) ==
  [id |-> f.id \cup {EFF}, mask |-> f.mask \cup {EFF, RTR} \cup SffBits]

(* "Number of filters is zero": an empty string, or the one that stands for *)
(* none; sizeof(0) is the 4 bytes of an int.                                *)
IsNoFilter(fs) == fs = <<>> \/ fs = <<Everything>>
nativeSetFilters(old, fs) ==
  IF IsNoFilter(fs) THEN setsockopt(old, <<>>, 4)
  ELSE setsockopt(old, [n \in DOMAIN fs |-> setFilterEntry(fs[n])], Len(fs) * FilterSize)

Init ==
  /\ filters = Default
  /\ ids = Address
  /\ pc = [t \in Threads |-> "idle"]
  /\ data = [t \in Threads |-> <<>>]
  /\ text = [t \in Threads |-> <<>>]
  /\ mark = [t \in Threads |-> NoMark]

-----------------------------------------------------------------------------
(* setFEFF and the other five: a load of _canId, the native, a store.       *)
LoadCanId(t) == \E c \in Marked, flag \in Flags, native \in {"set", "clear"} :
  /\ pc[t] = "idle"
  /\ pc' = [pc EXCEPT ![t] = "mark"]
  /\ mark' = [mark EXCEPT ![t] = [canid |-> c,
       value |-> IF native = "set" THEN setFlag(ids[c], flag) ELSE clearFlag(ids[c], flag)]]
  /\ UNCHANGED <<filters, ids, data, text>>
StoreCanId(t) ==
  /\ pc[t] = "mark"
  /\ ids' = [ids EXCEPT ![mark[t].canid] = mark[t].value]
  /\ pc' = [pc EXCEPT ![t] = "idle"]
  /\ mark' = [mark EXCEPT ![t] = NoMark]
  /\ UNCHANGED <<filters, data, text>>

-----------------------------------------------------------------------------
SetFilters(t) == \E fs \in Requests :
  /\ pc[t] = "idle"
  /\ pc' = [pc EXCEPT ![t] = "reset"]
  /\ data' = [data EXCEPT ![t] = fs]
  /\ UNCHANGED <<filters, ids, text, mark>>

(* "First, let's reset the filters": a string of zeros.                     *)
ResetFilters(t) ==
  /\ pc[t] = "reset"
  /\ pc' = [pc EXCEPT ![t] = "print"]
  /\ filters' = nativeSetFilters(filters, <<Everything>>)
  /\ UNCHANGED <<ids, data, text, mark>>

(* The loop that writes filterString.  It reads the CanIds one by one, but  *)
(* only bits of them that no method changes.                                *)
PrintFilters(t) ==
  /\ pc[t] = "print"
  /\ pc' = [pc EXCEPT ![t] = "install"]
  /\ text' = [text EXCEPT ![t] = [n \in DOMAIN data[t] |->
       [id |-> getCANID_EFF(ids[data[t][n].id]), mask |-> data[t][n].mask]]]
  /\ UNCHANGED <<filters, ids, data, mark>>
InstallFilters(t) ==
  /\ pc[t] = "install"
  /\ pc' = [pc EXCEPT ![t] = "idle"]
  /\ filters' = nativeSetFilters(filters, text[t])
  /\ data' = [data EXCEPT ![t] = <<>>]
  /\ text' = [text EXCEPT ![t] = <<>>]
  /\ UNCHANGED <<ids, mark>>

(* setSocketOptions hands one int over as the filters: refused as well.     *)
SetSocketOptions(t) ==
  /\ pc[t] = "idle"
  /\ filters' = setsockopt(filters, <<>>, 4)
  /\ pc' = [pc EXCEPT ![t] = "IOException"]
  /\ UNCHANGED <<ids, data, text, mark>>

-----------------------------------------------------------------------------
(* As bitExtract, of the bits of a standard identifier only.                *)
bitExtractStandard(number) == number \cap SffBits
(* bitExtract(cannumber, 29, 1).                                            *)
bitExtract(number) == number \cap EffBits

(* What getFilters prints of one entry: the mask is complemented.           *)
ShownEntry(f) == [id |-> bitExtract(f.id), mask |-> Bits \ f.mask]

(* The native reads into 40 bytes.  A kernel with more to say copies what   *)
(* fits, or, a newer one, refuses: NULL, which Java runs into.              *)
ReadSize == 40
Fits(list) == SubSeq(list, 1, IF Len(list) * FilterSize <= ReadSize THEN Len(list)
                              ELSE ReadSize \div FilterSize)
GetFilters(t) ==
  /\ pc[t] = "idle"
  /\ pc' = [pc EXCEPT ![t] = "shown"]
  /\ text' = [text EXCEPT ![t] =
       [n \in DOMAIN Fits(filters) |-> ShownEntry(Fits(filters)[n])]]
  /\ UNCHANGED <<filters, ids, data, mark>>
GetFiltersFails(t) ==
  /\ pc[t] = "idle" /\ Len(filters) * FilterSize > ReadSize
  /\ pc' = [pc EXCEPT ![t] = "NullPointerException"]
  /\ UNCHANGED <<filters, ids, data, text, mark>>

Ends == {"shown", "IOException", "NullPointerException"}
Return(t) ==
  /\ pc[t] \in Ends
  /\ pc' = [pc EXCEPT ![t] = "idle"]
  /\ text' = [text EXCEPT ![t] = <<>>]
  /\ UNCHANGED <<filters, ids, data, mark>>

Next == \E t \in Threads :
  \/ LoadCanId(t) \/ StoreCanId(t)
  \/ SetFilters(t) \/ ResetFilters(t) \/ PrintFilters(t) \/ InstallFilters(t)
  \/ SetSocketOptions(t) \/ GetFilters(t) \/ GetFiltersFails(t) \/ Return(t)
Spec == Init /\ [][Next]_vars

-----------------------------------------------------------------------------
TypeOK ==
  /\ filters \in Seq(Filter)
  /\ ids \in [CanIds -> Identifier]
  /\ pc \in [Threads -> {"idle", "mark", "reset", "print", "install"} \cup Ends]
  /\ data \in [Threads -> Seq(CanFilter)]
  /\ text \in [Threads -> Seq(Filter)]
  /\ \A t \in Threads : mark[t] = NoMark \/ mark[t] \in [canid : CanIds, value : Identifier]

(* What a filter asks for once it is on a socket: extended data frames      *)
(* whose identifier agrees with the one the filter's CanId was made with,   *)
(* in the mask and in the 11 standard bits.                                 *)
Wanted(f, canid) ==
  /\ EFF \in canid /\ RTR \notin canid
  /\ \A b \in (f.mask \cap EffBits) \cup SffBits : b \in canid <=> b \in Address[f.id]
AcceptsWanted(list, fs) == \A canid \in OnBus :
  Accepts(list, canid) <=> \E n \in DOMAIN fs : Wanted(fs[n], canid)

(* CanFilter.matchId.                                                       *)
matchId(f, canid) == getCANID_EFF(ids[f.id]) \cap f.mask = canid \cap f.mask
Installs(t) == pc[t] = "install" /\ pc'[t] = "idle" /\ filters' # filters

(* An array that is installed lets through what matchId says, both ways:    *)
(* the extended data frames whose identifier, as getCanId gives it, matches *)
(* one of its filters, and nothing else.  It holds whatever other threads   *)
(* install and show meanwhile, and while they set, clear and lose flags of  *)
(* the CanIds in the array (CanSocket.java:339-367, 587-596,                *)
(* cansocket.cpp:494-503).  It takes masks that have all 11 standard bits,  *)
(* EXACT among them: the bits that the native side adds to every mask.      *)
FiltersAsMatchId == [][\A t \in Threads :
  Installs(t) /\ (\A n \in DOMAIN data[t] : SffBits \subseteq data[t][n].mask) =>
  \A canid \in OnBus : Accepts(filters', canid) <=>
    /\ EFF \in canid /\ RTR \notin canid
    /\ \E n \in DOMAIN data[t] : matchId(data[t][n], getCANID_EFF(canid))]_vars

(* What getFilters prints, in the middle of other threads' setFilters too,  *)
(* is the array that decides what the socket receives: the addresses of its *)
(* first filters, and the masks they were widened to, complemented          *)
(* (CanSocket.java:236-268, cansocket.cpp:388-444).                         *)
Shown(fs) == [n \in 1..(IF Len(fs) <= 5 THEN Len(fs) ELSE 5) |->
  [id |-> Address[fs[n].id] \cap EffBits,
   mask |-> Bits \ (fs[n].mask \cup {EFF, RTR} \cup SffBits)]]
ShowsWhatFilters == [][\A t \in Threads : pc[t] = "idle" /\ pc'[t] = "shown" =>
  \/ filters = Default /\ text'[t] = <<[id |-> {}, mask |-> Bits]>>
  \/ \E fs \in Requests : AcceptsWanted(filters, fs) /\ text'[t] = Shown(fs)]_vars

(* A call that installs CanFilter.ANY and nothing else leaves a socket that *)
(* "accepts any CAN ID" (CanSocket.java:486).                               *)
IsANY(f) == Address[f.id] = {} /\ f.mask = ALL
AnyAcceptsAll == [][\A t \in Threads :
  pc[t] = "install" /\ pc'[t] = "idle" /\ Len(data[t]) = 1 /\ IsANY(data[t][1]) =>
    \A canid \in OnBus : Accepts(filters', canid)]_vars

(* Each filter of an array that is installed does what its comment says:    *)
(* ANY "accepts any CAN ID", NONE "accepts no CAN ID at all", and matchId   *)
(* of any other is "implemented exactly like the kernel implements the      *)
(* filtering" (CanSocket.java:486, 491, 587-591).                           *)
IsNONE(f) == Address[f.id] = {} /\ f.mask = EXACT
Documented(f, canid) == IsANY(f) \/ (~IsNONE(f) /\ matchId(f, canid))
FiltersAsDocumented == [][\A t \in Threads : Installs(t) =>
  \A n \in DOMAIN data[t], canid \in OnBus :
    KernelMatches(filters'[n], canid) <=> Documented(data[t][n], canid)]_vars
=============================================================================
