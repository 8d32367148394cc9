--------------------------- MODULE CanFilterProof ---------------------------
(***************************************************************************)
(* What TLAPS proves of CanFilter: for every width of the identifiers, all  *)
(* CanIds, arrays of filters and numbers of threads that share the socket.  *)
(***************************************************************************)
EXTENDS CanFilter, TLAPS

(* What a filter prints as, from the number its CanId was constructed with. *)
Printed(f) == [id |-> getCANID_EFF(Address[f.id]), mask |-> f.mask]
Entry(f) == setFilterEntry(Printed(f))
Entries(fs) == [n \in DOMAIN fs |-> Entry(fs[n])]

-----------------------------------------------------------------------------
(* One filter.                                                              *)

LEMMA PrintedIsFilter == ASSUME NEW f \in CanFilter PROVE Printed(f) \in Filter
<1>1. Address[f.id] \in Identifier /\ f.mask \in Identifier
  BY CanIdsAssumption DEF CanIdsAssumption, CanFilter
<1> QED BY <1>1 DEF Printed, getCANID_EFF, Filter, Identifier, EffBits, Bits

(* The kernel's test of the entry that the native side makes of a filter is *)
(* Wanted: bit by bit, whatever the mask (cansocket.cpp:494-503).           *)
LEMMA EntryMeansWanted ==
  ASSUME NEW f \in CanFilter, NEW canid \in OnBus
  PROVE  KernelMatches(Entry(f), canid) <=> Wanted(f, canid)
<1> DEFINE e == Entry(f)
<1>1. /\ \A b : b \in e.id <=> (b \in Address[f.id] /\ b \in EffBits) \/ b = EFF
      /\ \A b : b \in e.mask <=> b \in f.mask \/ b = EFF \/ b = RTR \/ b \in SffBits
  BY DEF Entry, Printed, setFilterEntry, getCANID_EFF
<1>2. /\ EFF \notin EffBits /\ RTR \notin EffBits /\ ERR \notin EffBits
      /\ EFF # RTR /\ EFF # ERR /\ RTR # ERR
  BY BitsAssumption DEF BitsAssumption, Flags
<1>3. ERR \notin e.id /\ ERR \notin canid
  BY <1>1, <1>2 DEF OnBus
<1>4. \A b : b \in f.mask => b \in EffBits \/ b = EFF \/ b = RTR \/ b = ERR
  BY DEF CanFilter, Identifier, Bits, Flags
<1>5. SffBits \subseteq EffBits
  BY DEF EffBits
<1>6. KernelMatches(e, canid) <=> \A b \in e.mask : b \in canid <=> b \in e.id
  <2> HIDE DEF e
  <2>1. (canid \cap e.mask = e.id \cap e.mask) <=> \A b \in e.mask : b \in canid <=> b \in e.id
    OBVIOUS
  <2> QED BY <1>3, <2>1 DEF KernelMatches
<1>7. ASSUME KernelMatches(e, canid) PROVE Wanted(f, canid)
  <2>1. \A b \in e.mask : b \in canid <=> b \in e.id
    BY <1>6, <1>7
  <2>2. EFF \in canid /\ RTR \notin canid
    BY <1>1, <1>2, <2>1
  <2>3. \A b \in (f.mask \cap EffBits) \cup SffBits : b \in canid <=> b \in Address[f.id]
    BY <1>1, <1>2, <1>5, <2>1
  <2> QED BY <2>2, <2>3 DEF Wanted
<1>8. ASSUME Wanted(f, canid) PROVE KernelMatches(e, canid)
  <2>1. \A b \in (f.mask \cap EffBits) \cup SffBits : b \in canid <=> b \in Address[f.id]
    BY <1>8 DEF Wanted
  <2>2. EFF \in canid /\ RTR \notin canid
    BY <1>8 DEF Wanted
  <2>3. ASSUME NEW b \in e.mask PROVE b \in canid <=> b \in e.id
    <3>1. CASE b \in EffBits
      BY <1>1, <1>2, <2>1, <2>3, <3>1
    <3>2. CASE b \notin EffBits
      BY <1>1, <1>2, <1>3, <1>4, <1>5, <2>2, <2>3, <3>2
    <3> QED BY <3>1, <3>2
  <2> QED BY <1>6, <2>3
<1> QED BY <1>7, <1>8

LEMMA EntriesAcceptWanted ==
  ASSUME NEW fs \in Seq(CanFilter) PROVE AcceptsWanted(Entries(fs), fs)
<1>1. \A n \in DOMAIN fs : fs[n] \in CanFilter
  OBVIOUS
<1> QED BY <1>1, EntryMeansWanted DEF AcceptsWanted, Accepts, Entries

(* What getFilters prints of an entry: the 29 bits of the identifier and    *)
(* the complement of the widened mask (CanSocket.java:256-264).             *)
LEMMA ShownOfEntry == ASSUME NEW f \in CanFilter
  PROVE ShownEntry(Entry(f)) = [id |-> Address[f.id] \cap EffBits,
                                mask |-> Bits \ (f.mask \cup {EFF, RTR} \cup SffBits)]
<1>1. EFF \notin EffBits
  BY BitsAssumption DEF BitsAssumption, Flags
<1>2. ((Address[f.id] \cap EffBits) \cup {EFF}) \cap EffBits = Address[f.id] \cap EffBits
  BY <1>1
<1> QED BY <1>2 DEF ShownEntry, Entry, Printed, setFilterEntry, getCANID_EFF, bitExtract

-----------------------------------------------------------------------------
(* The calls.                                                               *)

(* The reset that setFilters begins with is refused by the kernel: it hands *)
(* over the 4 bytes of an int (cansocket.cpp:475).                          *)
LEMMA ResetIsRefused == ASSUME NEW old PROVE nativeSetFilters(old, <<Everything>>) = old
BY DEF nativeSetFilters, IsNoFilter, setsockopt, FilterSize

(* An array is refused, or installed entry by entry.                        *)
LEMMA InstallIsWhole == ASSUME NEW old, NEW fs \in Seq(Filter)
  PROVE \/ nativeSetFilters(old, fs) = old
        \/ nativeSetFilters(old, fs) = [n \in DOMAIN fs |-> setFilterEntry(fs[n])]
BY DEF nativeSetFilters, setsockopt, FilterSize

(* A CanId keeps the identifier bits it was made with, whatever flags are   *)
(* set and cleared, and lost, meanwhile.                                    *)
SameAddress(canid, c) == canid \in Identifier /\ canid \cap EffBits = Address[c] \cap EffBits
IdsOK ==
  /\ ids \in [CanIds -> Identifier]
  /\ \A c \in CanIds : SameAddress(ids[c], c)

(* What each thread carries where it is.                                    *)
MarkOf(t) == pc[t] = "mark" => mark[t].canid \in CanIds /\ SameAddress(mark[t].value, mark[t].canid)
TextOf(t) == pc[t] = "install" => text[t] = [n \in DOMAIN data[t] |-> Printed(data[t][n])]
Control ==
  /\ pc \in [Threads -> {"idle", "mark", "reset", "print", "install"} \cup Ends]
  /\ data \in [Threads -> Seq(CanFilter)] /\ DOMAIN text = Threads /\ DOMAIN mark = Threads
  /\ \A t \in Threads : /\ MarkOf(t) /\ TextOf(t)
                        /\ pc[t] \in {"reset", "print", "install"} => data[t] \in Requests

(* The socket has the default filter, or the entries of one whole array.    *)
FiltersOK == filters = Default \/ \E fs \in Requests : filters = Entries(fs)

FilterInv == IdsOK /\ Control /\ FiltersOK

LEMMA FilterInit == Init => FilterInv
BY CanIdsAssumption
DEF Init, FilterInv, IdsOK, SameAddress, CanIdsAssumption, Control, MarkOf, TextOf, FiltersOK

(* The natives behind setERR and its like leave the identifier alone.       *)
LEMMA FlagKeepsAddress ==
  ASSUME NEW c \in CanIds, NEW canid, SameAddress(canid, c), NEW flag \in Flags
  PROVE  SameAddress(setFlag(canid, flag), c) /\ SameAddress(clearFlag(canid, flag), c)
<1>1. flag \notin EffBits /\ flag \in Bits
  BY BitsAssumption DEF BitsAssumption, Bits
<1>2. (canid \cup {flag}) \cap EffBits = canid \cap EffBits
      /\ (canid \ {flag}) \cap EffBits = canid \cap EffBits
  BY <1>1
<1>3. (canid \cup {flag}) \in Identifier /\ (canid \ {flag}) \in Identifier
  BY <1>1 DEF SameAddress, Identifier
<1> QED BY <1>2, <1>3 DEF SameAddress, setFlag, clearFlag

LEMMA MarkStep ==
  ASSUME FilterInv, NEW t \in Threads, LoadCanId(t) \/ StoreCanId(t) PROVE FilterInv'
<1> USE DEF FilterInv
<1>1. CASE LoadCanId(t)
  <2>1. PICK c \in Marked, flag \in Flags, native \in {"set", "clear"} :
          /\ pc' = [pc EXCEPT ![t] = "mark"]
          /\ mark' = [mark EXCEPT ![t] = [canid |-> c,
               value |-> IF native = "set" THEN setFlag(ids[c], flag) ELSE clearFlag(ids[c], flag)]]
          /\ UNCHANGED <<filters, ids, data, text>>
    BY <1>1 DEF LoadCanId
  <2>2. c \in CanIds /\ SameAddress(ids[c], c)
    BY CanIdsAssumption DEF CanIdsAssumption, IdsOK
  <2>3. mark'[t].canid = c /\ SameAddress(mark'[t].value, c)
    BY <2>1, <2>2, FlagKeepsAddress DEF Control
  <2>4. Control'
    BY <1>1, <2>1, <2>2, <2>3 DEF Control, MarkOf, TextOf, LoadCanId, SameAddress, Printed
  <2> QED BY <2>1, <2>4 DEF IdsOK, SameAddress, FiltersOK
<1>2. CASE StoreCanId(t)
  <2>1. IdsOK'
    BY <1>2 DEF StoreCanId, IdsOK, Control, MarkOf, SameAddress
  <2>2. Control'
    BY <1>2 DEF StoreCanId, Control, MarkOf, TextOf, SameAddress
  <2> QED BY <1>2, <2>1, <2>2 DEF StoreCanId, FiltersOK
<1> QED BY <1>1, <1>2

LEMMA PrintStep ==
  ASSUME FilterInv, NEW t \in Threads, PrintFilters(t) PROVE FilterInv'
<1>1. \A n \in DOMAIN data[t] : data[t][n].id \in CanIds
  <2>1. data[t] \in Seq(CanFilter)
    BY DEF FilterInv, Control
  <2>2. \A n \in DOMAIN data[t] : data[t][n] \in CanFilter
    BY <2>1
  <2> QED BY <2>2 DEF CanFilter
<1>2. \A n \in DOMAIN data[t] :
        [id |-> getCANID_EFF(ids[data[t][n].id]), mask |-> data[t][n].mask] = Printed(data[t][n])
  BY <1>1 DEF FilterInv, IdsOK, SameAddress, getCANID_EFF, Printed
<1>3. text'[t] = [n \in DOMAIN data[t] |-> Printed(data[t][n])]
  BY <1>2 DEF PrintFilters, FilterInv, Control
<1> QED BY <1>3 DEF PrintFilters, FilterInv, IdsOK, SameAddress, Control, MarkOf, TextOf, FiltersOK

(* An install leaves the filters alone or puts the caller's entries there.  *)
LEMMA InstallPutsEntries ==
  ASSUME FilterInv, NEW t \in Threads, InstallFilters(t)
  PROVE  /\ data[t] \in Requests /\ data[t] \in Seq(CanFilter)
         /\ filters' = filters \/ filters' = Entries(data[t])
<1>1. pc[t] = "install" /\ filters' = nativeSetFilters(filters, text[t])
  BY DEF InstallFilters
<1>2. data[t] \in Requests /\ data[t] \in Seq(CanFilter)
  BY <1>1, RequestsAssumption DEF RequestsAssumption, FilterInv, Control
<1>3. text[t] = [n \in DOMAIN data[t] |-> Printed(data[t][n])]
  BY <1>1 DEF FilterInv, Control, TextOf
<1>4. text[t] \in Seq(Filter)
  <2>1. \A n \in DOMAIN data[t] : Printed(data[t][n]) \in Filter
    BY <1>2, PrintedIsFilter
  <2> QED BY <1>2, <1>3, <2>1
<1>5. [n \in DOMAIN text[t] |-> setFilterEntry(text[t][n])] = Entries(data[t])
  BY <1>3 DEF Entries, Entry
<1> QED BY <1>1, <1>2, <1>4, <1>5, InstallIsWhole

LEMMA CallStep ==
  ASSUME FilterInv, NEW t \in Threads,
         SetFilters(t) \/ ResetFilters(t) \/ InstallFilters(t) \/ SetSocketOptions(t)
           \/ GetFilters(t) \/ GetFiltersFails(t) \/ Return(t)
  PROVE  FilterInv'
<1>1. CASE SetFilters(t)
  <2>1. PICK fs \in Requests : /\ pc[t] = "idle" /\ pc' = [pc EXCEPT ![t] = "reset"]
                               /\ data' = [data EXCEPT ![t] = fs]
    BY <1>1 DEF SetFilters
  <2>2. fs \in Seq(CanFilter)
    BY RequestsAssumption DEF RequestsAssumption
  <2>3. data' \in [Threads -> Seq(CanFilter)]
    BY <2>1, <2>2, Zenon DEF FilterInv, Control
  <2>4. Control'
    BY <1>1, <2>1, <2>3 DEF SetFilters, FilterInv, Control, MarkOf, TextOf, SameAddress, Ends
  <2> QED BY <1>1, <2>4 DEF SetFilters, FilterInv, IdsOK, SameAddress, FiltersOK
<1>2. CASE InstallFilters(t)
  <2>1. <<>> \in Seq(CanFilter)
    OBVIOUS
  <2>2. data' \in [Threads -> Seq(CanFilter)]
    BY <1>2, <2>1, Zenon DEF InstallFilters, FilterInv, Control
  <2>3. Control'
    BY <1>2, <2>2 DEF InstallFilters, FilterInv, Control, MarkOf, TextOf, SameAddress
  <2>4. FiltersOK'
    BY <1>2, InstallPutsEntries DEF FilterInv, FiltersOK
  <2> QED BY <1>2, <2>3, <2>4 DEF InstallFilters, FilterInv, IdsOK, SameAddress
<1>3. CASE ResetFilters(t) \/ SetSocketOptions(t) \/ GetFilters(t) \/ GetFiltersFails(t) \/ Return(t)
  <2>1. filters' = filters
    BY <1>3, ResetIsRefused
    DEF ResetFilters, SetSocketOptions, GetFilters, GetFiltersFails, Return, setsockopt, FilterSize
  <2>2. UNCHANGED <<ids, data, mark>> /\ DOMAIN text' = DOMAIN text
        /\ \E p \in {"idle", "print"} \cup Ends :
             pc' = [pc EXCEPT ![t] = p] /\ (p = "print" => pc[t] = "reset")
        /\ \A u \in Threads \ {t} : text'[u] = text[u]
    BY <1>3 DEF ResetFilters, SetSocketOptions, GetFilters, GetFiltersFails, Return, Ends,
                FilterInv, Control
  <2>3. Control'
    BY <2>2 DEF FilterInv, Control, MarkOf, TextOf, SameAddress, Ends
  <2> QED BY <2>1, <2>2, <2>3 DEF FilterInv, IdsOK, SameAddress, FiltersOK
<1> QED BY <1>1, <1>2, <1>3

LEMMA FilterStep == FilterInv /\ [Next]_vars => FilterInv'
<1>1. FilterInv /\ UNCHANGED vars => FilterInv'
  BY DEF vars, FilterInv, IdsOK, SameAddress, Control, MarkOf, TextOf, FiltersOK
<1> QED BY <1>1, MarkStep, PrintStep, CallStep DEF Next

(* A step that changes the socket's filters is the second native call of a  *)
(* setFilters, and accepts what the array of that call wants.               *)
LEMMA ChangeIsInstall ==
  ASSUME FilterInv, [Next]_vars, filters' # filters
  PROVE  \E t \in Threads :
           /\ pc[t] = "install" /\ pc'[t] = "idle"
           /\ \A u \in Threads : u # t => pc'[u] = pc[u]
           /\ AcceptsWanted(filters', data[t])
<1>1. \E t \in Threads : InstallFilters(t)
  BY ResetIsRefused
  DEF Next, LoadCanId, StoreCanId, SetFilters, ResetFilters, PrintFilters, SetSocketOptions,
      GetFilters, GetFiltersFails, Return, setsockopt, FilterSize, vars
<1>2. PICK t \in Threads : InstallFilters(t)
  BY <1>1
<1>3. pc[t] = "install" /\ pc'[t] = "idle" /\ \A u \in Threads : u # t => pc'[u] = pc[u]
  BY <1>2 DEF InstallFilters, FilterInv, Control
<1>4. data[t] \in Seq(CanFilter) /\ filters' = Entries(data[t])
  BY <1>2, InstallPutsEntries
<1>5. AcceptsWanted(Entries(data[t]), data[t])
  BY <1>4, EntriesAcceptWanted
<1> QED BY <1>3, <1>4, <1>5

(* A filter wants the extended data frames that matchId agrees with, when   *)
(* its mask has all the standard bits (CanSocket.java:593-596).             *)
LEMMA WantedIsMatched ==
  ASSUME FilterInv, NEW f \in CanFilter, NEW canid \in OnBus, SffBits \subseteq f.mask
  PROVE  Wanted(f, canid) <=>
           EFF \in canid /\ RTR \notin canid /\ matchId(f, getCANID_EFF(canid))
<1>1. SffBits \subseteq EffBits
  BY DEF EffBits
<1>2. (f.mask \cap EffBits) \cup SffBits = f.mask \cap EffBits
  BY <1>1
<1>3. getCANID_EFF(ids[f.id]) = Address[f.id] \cap EffBits
  BY DEF getCANID_EFF, FilterInv, IdsOK, SameAddress, CanFilter
<1>4. matchId(f, getCANID_EFF(canid)) <=>
        (Address[f.id] \cap EffBits) \cap f.mask = (canid \cap EffBits) \cap f.mask
  BY <1>3 DEF matchId, getCANID_EFF
<1>5. @ <=> \A b \in f.mask \cap EffBits : b \in canid <=> b \in Address[f.id]
  OBVIOUS
<1> QED BY <1>2, <1>4, <1>5 DEF Wanted

-----------------------------------------------------------------------------
(* An array that is installed lets through exactly what matchId of its      *)
(* filters says, whatever flags other threads set, clear and lose           *)
(* meanwhile, for masks with all standard bits (CanSocket.java:587-596).    *)
THEOREM FiltersAlwaysAsMatchId == Spec => FiltersAsMatchId
<1>1. FilterInv /\ [Next]_vars => [\A t \in Threads :
        Installs(t) /\ (\A n \in DOMAIN data[t] : SffBits \subseteq data[t][n].mask) =>
        \A canid \in OnBus : Accepts(filters', canid) <=>
          /\ EFF \in canid /\ RTR \notin canid
          /\ \E n \in DOMAIN data[t] : matchId(data[t][n], getCANID_EFF(canid))]_vars
  <2> SUFFICES ASSUME FilterInv, [Next]_vars, NEW t \in Threads, Installs(t),
                      \A n \in DOMAIN data[t] : SffBits \subseteq data[t][n].mask,
                      NEW canid \in OnBus
               PROVE  Accepts(filters', canid) <=>
                        /\ EFF \in canid /\ RTR \notin canid
                        /\ \E n \in DOMAIN data[t] : matchId(data[t][n], getCANID_EFF(canid))
    OBVIOUS
  <2>1. AcceptsWanted(filters', data[t])
    BY ChangeIsInstall DEF Installs
  <2>2. \A n \in DOMAIN data[t] : data[t][n] \in CanFilter
    BY DEF FilterInv, Control
  <2>3. \A n \in DOMAIN data[t] : Wanted(data[t][n], canid) <=>
          EFF \in canid /\ RTR \notin canid /\ matchId(data[t][n], getCANID_EFF(canid))
    BY <2>2, WantedIsMatched
  <2> QED BY <2>1, <2>3 DEF AcceptsWanted
<1> QED BY <1>1, FilterInit, FilterStep, PTL DEF Spec, FiltersAsMatchId

(* What getFilters prints is the array that decides what the socket         *)
(* receives, or the first five filters of it (CanSocket.java:236-268).      *)
THEOREM AlwaysShowsWhatFilters == Spec => ShowsWhatFilters
<1>1. ASSUME FilterInv, NEW t \in Threads, GetFilters(t)
      PROVE  \/ filters = Default /\ text'[t] = <<[id |-> {}, mask |-> Bits]>>
             \/ \E fs \in Requests : AcceptsWanted(filters, fs) /\ text'[t] = Shown(fs)
  <2>1. text'[t] = [n \in DOMAIN Fits(filters) |-> ShownEntry(Fits(filters)[n])]
    BY <1>1 DEF GetFilters, FilterInv, Control
  <2>2. CASE filters = Default
    <3>1. ShownEntry(Everything) = [id |-> {}, mask |-> Bits]
      BY DEF ShownEntry, bitExtract, Everything
    <3>2. Fits(filters) = <<Everything>>
      <4>1. ASSUME NEW e PROVE Len(<<e>>) = 1 /\ SubSeq(<<e>>, 1, 1) = <<e>>
        <5>1. Len(<<e>>) = 1 /\ <<e>> \in Seq({e})
          OBVIOUS
        <5>2. SubSeq(<<e>>, 1, 1) = [n \in 1..1 |-> <<e>>[n]]
          BY <5>1, SMT
        <5>3. DOMAIN <<e>> = 1..1 /\ [n \in DOMAIN <<e>> |-> <<e>>[n]] = <<e>>
          OBVIOUS
        <5> QED BY <5>1, <5>2, <5>3
      <4> QED BY <2>2, <4>1 DEF Default, Fits, FilterSize, ReadSize
    <3>3. text'[t] = <<ShownEntry(Everything)>>
      BY <2>1, <3>2
    <3> QED BY <2>2, <3>1, <3>3
  <2>3. ASSUME NEW fs \in Requests, filters = Entries(fs)
        PROVE  AcceptsWanted(filters, fs) /\ text'[t] = Shown(fs)
    <3>1. fs \in Seq(CanFilter)
      BY RequestsAssumption DEF RequestsAssumption
    <3> DEFINE last == IF Len(fs) <= 5 THEN Len(fs) ELSE 5
    <3>2. Len(filters) = Len(fs) /\ last \in 0..Len(fs)
      BY <2>3, <3>1 DEF Entries
    <3>3. Fits(filters) = [n \in 1..last |-> Entry(fs[n])]
      BY <2>3, <3>1, <3>2 DEF Fits, FilterSize, ReadSize, Entries
    <3>4. \A n \in 1..last : fs[n] \in CanFilter
      BY <3>1, <3>2
    <3>5. text'[t] = [n \in 1..last |-> ShownEntry(Entry(fs[n]))]
      BY <2>1, <3>3
    <3>6. text'[t] = Shown(fs)
      BY <3>4, <3>5, ShownOfEntry DEF Shown
    <3> QED BY <2>3, <3>1, <3>6, EntriesAcceptWanted
  <2> QED BY <1>1, <2>2, <2>3 DEF FilterInv, FiltersOK
<1>2. ASSUME FilterInv, [Next]_vars, NEW t \in Threads, pc[t] = "idle", pc'[t] = "shown"
      PROVE  GetFilters(t)
  BY <1>2
  DEF Next, LoadCanId, StoreCanId, SetFilters, ResetFilters, PrintFilters, InstallFilters,
      SetSocketOptions, GetFilters, GetFiltersFails, Return, vars, FilterInv, Control
<1>3. FilterInv /\ [Next]_vars => [\A t \in Threads : pc[t] = "idle" /\ pc'[t] = "shown" =>
        \/ filters = Default /\ text'[t] = <<[id |-> {}, mask |-> Bits]>>
        \/ \E fs \in Requests : AcceptsWanted(filters, fs) /\ text'[t] = Shown(fs)]_vars
  BY <1>1, <1>2
<1> QED BY <1>3, FilterInit, FilterStep, PTL DEF Spec, ShowsWhatFilters
=============================================================================
