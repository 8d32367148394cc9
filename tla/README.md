# A TLA+ model of libsocket-can-java

libsocket-can-java gives Java programs raw CAN sockets through JNI and adds a
*cyclical send task*: a table of frames in native memory that a thread of the
library sends once per cycle. This directory models the parts of it that keep
state and are reached by more than one thread, checks them with TLC and proves
the central facts with TLAPS.

Paths below are relative to the repository; `C` is `jni/cyclical_send_task.cpp`,
`N` is `jni/cansocket.cpp`, `U` is `jni/utils.cpp`, `J` is
`src/io/openems/edge/socketcan/driver/CanSocket.java` and `L` is
`StaticLibLoaderUtils.java` beside it.

## 1. Inventory

| Part | State | Operations | Interacts with | What makes it correct |
|---|---|---|---|---|
| Cyclical send task (`C`) | `canStorage[90]`, `storageIdx`, `canAutoIncrement[90]`, `autoIncrementIdx`, `syncAdjust`, `theOneCycleTime`, two statistics | init, add, remove, remove all, adopt, enable auto increment; the worker's cycle | called by any Java thread, read by one worker thread, no lock | table consistent under concurrent calls; worker sends current frames, torn only where a call writes to their slot; counters advance by one; every frame gets its turn |
| Native and Java methods of the task (`N` 530-624, `J` 829-916) | `jbyte buffer[8]` on the stack | copy the array, turn 1, 2, -1 into an `IOException` | the task | answers are true |
| Receive filters (`J` 180-268, 477-618, `N` 388-526) | the kernel's filter list of a socket | `setFilters` (reset, then install), `getFilters`, `setSocketOptions`, `matchId` | `setsockopt`; the `CanId`s in the filters | what is installed agrees with `matchId`; what is shown is what filters |
| Identifier flags (`CanId`, `J` 295-475) | one int | set, clear, test a bit; mask | pure native functions; shared with filters | flags never change what a filter asks for |
| Socket lifecycle (`J` 745-824, `N` 43-280) | `_fd`, `_boundTo`, receive timeout | open, bind, send, recv, timeout, options, close | kernel; the table keeps copies of `_fd` | no use after close, no use of a descriptor that was never opened; cyclic frames leave through their own socket |
| Library loader (`L`, `J` 24-31) | `temporaryDir`, the class's initialisation | create a directory, extract, load, delete, try the next library | the file system, other JVMs; must call `initCanLibrary` | what is loaded is the JVM's own copy; the right library is found; nothing stays behind |
| Interfaces, MTU (`J` 620-693, 806, `N` 80-117, 221-241) | `_ifIndex`, `_ifName` | construct, resolve, clone, receive, `getMtu` | one `ioctl` each | index and name belong together |
| Natives as users of JNI (`N`, `U`) | the pending exception | every native; `throwException` | JVM, kernel, the task | no call with an exception pending; no failure without an exception |

Hard to test, and the reason for the models: the interleaving of Java threads
and the worker in unprotected memory; the freedom of compiler and processor over
the order of those accesses; a table whose slots are never reused; a cycle time
that only the first caller should set; counters of one byte that wrap; two
native calls behind one `setFilters`; descriptors that outlive their socket in the table;
JVMs that meet in one directory and are killed there; natives in which every step may
fail, in threads that fill in one object. Every hazard is listed with its line in
`PROJECT.json`.

## 2. Modules

| Module | Models |
|---|---|
| `FrameTable` | the abstract promise of the task: a set of frames, one per identifier, changed in atomic steps |
| `CyclicSendTask` | all of `C`, the natives and the Java methods that call it |
| `CyclicSendHistory` | the same with a record of the frames sent, for properties over several of them |
| `CanFilter` | `CanId`, `CanFilter`, `setFilters`, `getFilters` with their natives; the kernel's side as external operators |
| `SocketLifecycle` | constructor, `bind`, `send`, `recv`, `setReceiveTimeout`, `close` with their natives; the kernel's descriptors and the rest of the process as external actions |
| `SocketTask` | `SocketLifecycle` composed with what `FrameTable` promises of the task: the frames of the sockets in the table, and the worker |
| `LibraryLoader` | the class initialiser with `StaticLibLoaderUtils`, in several JVMs |
| `NativeCalls` | `LibraryLoader` composed with every native method as a user of JNI, and with `CanInterface` |
| `MCCyclicSendTask`, `MCCyclicSendHistory`, `MCCanFilter`, `MCSocketTask`, `MCNativeCalls` | values for the runs |
| `CyclicSendTaskProof`, `CyclicTableProof`, `CyclicWorkerProof`, `CyclicHistoryProof`, `CanFilterProof`, `SocketTaskProof`, `LibraryLoaderProof`, `NativeCallsProof` | theorems |

### CyclicSendTask

*State.* The statics have their names. `wpc`, `wi`, `wj`, `frameToSend`,
`toCopy` and `framesCnt` are where the worker is and its locals. Every Java thread
has `pc`, `op` (the function it is in), `arg`, `i`, `slot`, the stores it has
still to do (`toStore`, `toPublish`) and the `result` of its last call.

*Steps.* Every access to shared memory that another thread can observe between
two others is a step. A search is one step per slot (`ScanNext`), the test of
the cycle time and its store are two (`TestCycleTime`, `SetCycleTime`), a
`memset` or `memcpy` is one step per field (`StoreField`, `WorkerCopyField`).
A step that only touches locals is merged with its neighbour. A caller's exits
are `AddExists` (1), `AddNoRoom` (2), `NotFound` (1), `EnableNoRoom` (-1) and
`StoresDone` (0).

*The build.* The races are undefined behaviour in C++, so the outcome depends
on the build, and three constants say which one:

* `AccessOrder` gives per function the pairs of accesses to one slot whose order is
  kept. `AnyOrder` keeps none, `CanidLast` keeps "should be the last" (`C` 156)
  of an added frame, `UpwardsOrder` is a `memcpy` that goes upwards, `SourceOrder`
  has everything where the source has it. A build at `-O2`, as in the `Makefile`,
  moves `storageIdx++` before the stores of the slot, and still stores the
  identifier last: `CanidLast` covers it.
* `FlagStoreKept`: `syncAdjust = 1` (`C` 188) is overwritten before anything
  reads it in that thread, and at `-O2` it is gone. `TRUE` is an unoptimised build.
* `LoaderCallsInit`: whether class initialisation reaches `initCanLibrary`. It does
  not in this repository (section 4); with `FALSE` there is nothing else to
  check, so the other runs take `TRUE`, as the callers of the library intend.

An index that a call reads twice may come from memory or from a register the
second time: `AddClaim`, `StoreStorageIdx` and `StoreAutoIncrementIdx` take either.
The bounds of the loops are read from memory at each turn. A build that keeps them
in a register behaves as one that sees the index change later, except for the
callers' loops in a shrinking table; `-O2` reads them each turn.
`theOneCycleTime` is loaded once per cycle, also as in that build.

*Data.* A frame is `head` (descriptor, interface and length, which nobody
compares), `canid`, and the two machine words of its data, `lo` and `hi`, each
standing for one byte of it: tearing happens between words, and at most one
counter per word and identifier is among `Counters` (`FramesAssumption`; enabling
that one twice is explored). The lengths are
0, 4 and 8, which fill whole words; what a shorter array leaves in `buffer[8]` is
`Junk`. Bit 31 of an identifier is `EffFlag`, so that `& 0x7fffffff` is a
remainder. `cycleTime` of a slot is stored and never read, and left out.

### CanFilter

An identifier is the set of its bits; a filter refers to a `CanId` object, whose value
other threads change. `LoadCanId` and `StoreCanId` are the two halves of the six
methods that set or clear a flag. `SetFilters`, `ResetFilters`, `PrintFilters` and
`InstallFilters` are the Java method with its two native calls and the loop between them;
`setFilterEntry` is what `sscanf` and the two `|=` make of an entry, and
`IsNoFilter` is the comparison with the string `0x00000000:0x00000000`. The text
between Java and C is not modelled, only the two numbers in it. `GetFilters` reads 40
bytes at most and prints per entry the 29 bits and the complement of the mask;
`GetFiltersFails` is a kernel that refuses to cut its answer, after which Java meets
`NULL`. `SetSocketOptions` hands one int over as the list of filters. The kernel
(`setsockopt`, `Fits`, `KernelMatches`) is external: lists whose size is no multiple
of 8 or above `CAN_RAW_FILTER_MAX` are refused. Masks with the error bit, which ask for
error frames, are not among the arrays of the runs.

### SocketLifecycle

An object opens at most one file, so that the file has the object's name, and
`descriptors` says whose file a number leads to. `fd` is `_fd`: assigned once, never
reset by `close`, and 0 in an object whose constructor swallowed the exception of a
failed open. Every call goes to `File(s)`, whatever that is by now. A system call is one
step; `bind` has a second one for `_boundTo`, `recv` waits between two (`Recv`,
then `RecvFrame` or `RecvTimesOut`) on the file that its number led to at the
start, and `statsErrorCntr...++` is a load and a store. A frame is the interface
it came from.

`illegalAddress` is the test that `_recvFrame` makes before it looks at the -1 of
`recvfrom`. With the headers of the newer kernel (`CAN_NPROTO` 8, an address
of 24 bytes) every timeout ends there, as an `IllegalArgumentException` that is
counted; with those of the older one it is an `IOException` that is not. A frame that has been
taken from the queue is lost when its size is wrong (`complete` in `RecvReturns`, counted) or when the JVM
fails while it is turned into a `CanFrame` (`ToJava`); otherwise the thread is at `received`
with the interface of the frame until `RecvIsOver`.

Three history variables serve the properties: `late`, the numbers that calls have used after the
close of their objects; `raced`, the objects that two threads have bound at the same time; `asked`, the
interfaces that an object was ever told to bind to.

The kernel is external: lowest free descriptor first, frames to every raw file bound to
the interface or to all, a frame dropped when `QueueMax` wait. A descriptor of
somebody else (`Foreign`, standard input first of all) refuses CAN calls but can
be closed by them. Loopback and own messages keep their defaults, and `send` and `recv` are
never interrupted by a signal.

### SocketTask

The table here is two words per slot, `fd` and `canid` (which stands for all the rest), with
the object that stored each, which the code does not know. A call (`SendCyclicallyAdd`,
`SendCyclicallyRemove`, `RemoveCyclicalAll`) has stores outstanding (`StoreField`, `StoreStorageIdx`), in any order but
for the identifier of an added frame, and one call is under way at a time. The worker tests the identifier (`WorkerSee`),
copies word by word (`WorkerCopyField`) and sends through whatever the number leads to by
then (`WorkerSend`), so that a remove between these steps leaves it with a zeroed or half-zeroed frame.
`disturbed` is a history variable, whether a remove or a removeAll was writing to the slot since the worker looked
at it; `astray` counts the frames sent for an object since it was closed and had none in the table, up to 2. An
adopt stores neither word and is left to `CyclicSendTask`, as are refused calls.

### LibraryLoader

One action per thing that others can see on the disk: the directory is made
(`CreateTempDirectory`, or `CreateTempDirectoryFails` when the name is taken or `mkdir`
fails), the copy begins and ends (`StartCopy`, `EndCopy`, `CopyFails`), the library is mapped
and the file deleted (`Load`, `LoadFails`, `Delete`). `System.load` maps only a whole library
for this `Machine`. `posix` decides whether the file is deleted at once or by `deleteOnExit`.
`FetchConstants` is the rest of the static initialiser, `FetchWithoutLibrary` the
`UnsatisfiedLinkError` that ends it. `Kill` and `Exit`, external, may come at any
point; `Exit` runs the deletions in reverse, and a directory with something in it stays.
`trouble` is a history variable: libraries that met an error of input or output.

### NativeCalls

A native is a tuple of steps in the order of the source, one tuple per native (`sendFrame`,
`recvFrame`, ...), and a step says how it may fail: with an exception of the JVM, with an
exception that the native throws, or with a NULL or -1 as the answer. `JniFunction`,
`CallOutside`, `Fails`, `Look` and the two tests execute them. `throwException` is two steps of
JNI on top, of which the first may find no class (`ThrowFindsNoClass`, after
which the JVM has an exception of its own pending).

`CanInterface` objects get index and name from what natives answer. `NewCanInterface`,
`Recv`, `Clone`, `ResolveIfName` and `GetMtu` are the Java methods that call, `Return` is the
assignment or the exception, `Answer` the second read of `_ifName` in `resolveIfName`.
`Rename` is the kernel, in which interfaces come, go and change their names, and `known`
remembers every name that an index has had. Java's accesses to `_ifName` are taken
in program order; its memory model would let the second read of a racing thread give
null. `isNULL` is an `ExceptionCheck` as far as the model goes: JNI answers NULL exactly
with an exception pending, and the out-of-memory branch of `NewByteArray` is there as a
step that throws.

## 3. Runs that pass

| Run | Question | Bounds |
|---|---|---|
| `CyclicTable` | Do the calls of one thread implement `FrameTable`, and is every answer true? | 1 caller, 3 frames of 2 identifiers and one with the identifier 0, 3 slots, `AnyOrder` |
| `CyclicWorker` | Do the index and the identifiers stay right store by store, does the worker keep time, does it send at most one frame that is out of date, and are frames whole unless a call writes to their slot? | 1 caller with all table calls, 2 slots, 2 frames of one identifier that differ in every field, one with a short array, a cycle time just above a full table, `CanidLast` |
| `CyclicCounters` | Does an enabled byte advance by one per frame? | 2 callers: one enables, one adds, removes and adopts; 2 slots and 2 entries for one counter; bytes of 2 values |
| `CyclicFlow` | Does every frame get its turn? | 1 caller, 2 frames, 2 slots, 1 counter, a cycle time below a full table, so that the worker may spin, fairness |
| `FilterMatch` | Does an installed array let through what `matchId` says, and does `getFilters` show what filters? | 2 threads, 10 arrays of up to 7 filters (the native shows 5, the kernel takes 6), 3 identifier bits, 1 `CanId` whose flags change |
| `SocketDescriptors` | Do objects keep their own files, bindings, receives and cyclic frames while numbers are closed, called late and reused? | 2 objects, 2 threads, 3 descriptors, 1 interface and `CAN_ALL_INTERFACES`, 2 slots, 1 frame waiting, 1 error counted |
| `NativeCalls` | Does each JVM load its own copy of its own library? Is no native continued with an exception pending, no failure lost, and no wrong name kept? | 2 JVMs, 2 names of directories, 2 libraries; 2 threads, 3 `CanInterface`s, 2 indexes, 2 names |

Why these bounds. A table of two or three slots fills, is emptied, holds
removed slots before, between and after used ones, and has a next identifier to
collide with. Two identifiers are one that is searched for and one that is not;
a third frame gives new data to an old identifier. Bytes of two values wrap with every second
frame, and a counter that stands still or advances twice shows. A second caller is enough for every race of two; what needs three
threads is what the proofs are for. `MaxErrors` only bounds counters that
nobody reads; the worker's sends fail in `SocketDescriptors`, where they do not count, and in the theorems.

`CyclicTable` runs the caller without the worker (`CallersSpec`). Callers read nothing
that the worker writes but a counter's value, which this run has none of, so that it
sees every behaviour of the table.

`CyclicCounters`, with two callers, lets only one of them add or clear (`OneShaper`).
Two threads that add at the same time break `IndexBound` and `UniqueIds`: the
library has no lock and its documentation neither allows nor forbids it. `CyclicWorker`
checks these two with one caller; one thread that adds and clears next to any number of
others that remove and adopt is what their theorems are about (section 5).

In `SocketDescriptors` objects and threads are symmetric, and a state constraint (`InTime`) keeps apart what does not
touch: it stops after an error that was counted and after a bind race, of which nothing is claimed; it follows one number
that is used after a close, two different binds, one receive, one limited and one broadcast socket and one
queue with a frame at a time; and with work in the table or in the worker's hand it leaves out receives, binds and late calls, as the
table reads none of what they change. Opening, failing to open, closing and giving away of numbers always go on.
The theorems are without all this. Three descriptors are standard input and one for
each object, so that a number is reused by the other object, by the rest of the process, and by an object that comes
to stand on descriptor 0.

`FramesGoHome` says where a frame of an open object may go: through its own file; through descriptor 0 when a remove
was writing to the slot (`C` 166 against 205-210: the identifier is copied, the number is already 0); anywhere only after a
removeAll, behind which an add may refill the slot for another object. What leaves a frame in the table
after its object is closed goes on to whoever has the number: `AtMostOneAstray` is about frames that were taken out.

In `NativeCalls` the threads are those of one JVM, and a state constraint
(`NativesAlone`) keeps three things apart that do not touch each other: JVMs initialise the
class with any disk and any failure; natives that have nothing to do with interfaces run one
at a time, as they share nothing; the natives of interfaces run in both threads, after
an initialisation without trouble. The theorems are without it. Two names of
directories are one that is taken and one that is not, by a live JVM or by one
that was killed; two libraries are the machine's own and one that `System.load`
refuses before it. Three objects are `CAN_ALL_INTERFACES`, one under construction and one
to be resolved by both threads. The run may stop, when every JVM has ended.

`ImplementsTable` maps a slot with stores outstanding to what it will hold
(`Settled`), so that a call takes effect at the step that decides its answer, and
`added`, the room used, to the index that will be stored: a removed slot gives
no room back (`C` 145). A frame with the identifier 0, which the code cannot tell
from an empty slot, takes room and is no frame of the table (`AddNoFrame`); it is not sent, and a search
for it finds the first removed slot, so that `AnswersTruthful` is about the other identifiers.

`AtMostOneStaleFrame` counts frames sent since the last step of any call that no
slot holds: the one that was in the worker's hands. Words that a counter in place keeps for
itself (`Counted`) are not compared. `CounterAdvances` starts to
compare with the second frame after the counter is in place, because the
first may have been copied before.

`TornOnlyByOverwriting` says what may be torn. `overwritten` records which functions were storing into the slot
while the worker copied it, and removes and removeAlls also between the test of its identifier and the copy. With
none of them the frame is one that a caller handed over, in every word; with an adopt only, each
word was handed over for this identifier; with a remove or a removeAll nothing is said, and a half-cleared frame does go out.
An add is never among the reasons: that is what "should be the last" (`C` 156) buys, even when
`storageIdx` is stored first. Bytes behind a short array are the stack's (`Junk`) and count as handed over.

`FiltersAsMatchId` is about the identifier as `getCANID_EFF` gives it and masks with the 11 standard bits, `EXACT`
among them: there an installed filter and `matchId` agree in both directions for extended data frames, and no other frame
is delivered. Outside of that they differ (`FilterDocs`, section 4). It holds for every array that reaches the kernel, so that two
threads' arrays never mix, whatever flags of the `CanId`s change meanwhile.

*Fairness* (`FairSpec`): weak fairness of the worker, which the library creates
and never stops, and of each caller inside a call, which is all that a scheduler
owes a thread. No caller is made to call. The worker in its 10 us sleeps has no
step while the flag is up, so weak fairness gives it nothing if adopts always
raise the flag again: `FramesKeepFlowing` has that as its second disjunct,
`[]<>(syncAdjust = 1)`. The fairness is on the disjunction of the worker's actions,
as one thread runs them all. `FramesKeepFlowing` uses no state
constraint. That every call returns is not stated: with the one caller of
the run nothing moves the bound of a search while it runs, so that it could not fail.

Each property is also run against a mutated definition, listed in
`PROJECT.json`: a search one slot short, a full-table test off by one, a missing
test for an empty slot, a counter that is not reset, and so on. These operators
stand in front of the definition they vary, beginning "As ...".

## 4. Where the code and its comments disagree

| Run | What it shows |
|---|---|
| `CyclicTornAdopt` | An adopt that begins while the worker copies is sent half old, half new, even if the flag's store is kept. `C` 61 calls the flag a "simulation" of thread synchronisation. |
| `CyclicNeverInit` | Nothing calls `initCanLibrary`: the class initialiser goes through `StaticLibLoaderUtils`, and `loadLibFromJar` (`J` 61) is dead. The first add stores at `canStorage[-1]`, and no worker sends it. |
| `CyclicCycleTime` | A first cycle time of exactly 100 ms is replaced by the next one, against `C` 136. |
| `FilterDocs` | Of an array with `ANY`, `NONE`, an exact filter and one without standard bits none does what its comment says (`J` 486, 491, 587): the natives widen mask and identifier (`N` 502-503). `NONE` accepts the extended identifier 0, `ANY` next to others only identifiers whose standard bits are 0, and `matchId` disagrees with the kernel about the other two. |
| `FilterAny` | `setFilters(ANY)` leaves the old filter in place: the length handed to `setsockopt` is `sizeof(0)`. |

## 5. Proofs

`tlapm` checks these for every value of the constants that satisfies the
`ASSUME`s of the modules: any number of threads, JVMs, objects and descriptors, any table size, any
frames, any `AccessOrder`.

| Theorem | From |
|---|---|
| `TypeCorrect`: `Spec => []TypeOK` | nothing else; also for many adding threads and an uninitialised library |
| `IndexAlwaysBound`: `Spec => []IndexBound` | `OneShaper`, `LoaderCallsInit` |
| `IdsAlwaysUnique`: `Spec => []UniqueIds` | `OneShaper`, `LoaderCallsInit` |
| `WorkerAlwaysSleeps`: `Spec => []WorkerSleeps` | `OneShaper`, `LoaderCallsInit` |
| `CallsImplementTable`: `Spec => ImplementsTable` | `OneWriter`, `LoaderCallsInit` |
| `AnswersAlwaysTruthful`: `Spec => AnswersTruthful` | `OneWriter`, `LoaderCallsInit` |
| `AlwaysTornOnlyByOverwriting`: `HSpec => []TornOnlyByOverwriting` | `OneWriter`, `LoaderCallsInit`, `CanidStoredLast`, no counters |
| `NeverMoreThanOneStaleFrame`: `HSpec => []AtMostOneStaleFrame` | - |
| `CountersAlwaysAdvance`: `HSpec => []CounterAdvances` | one thread that enables, `LoaderCallsInit`, `HalfEnabledDriveNoOther` |
| `OpenObjectsOwnTheirDescriptor`: `Spec => []OwnDescriptor` | - |
| `ReceivesOnlyWhatItBound`: `Spec => []ReceivesWhatItBound` | - |
| `BoundToIsTrue`: `Spec => []BoundAsRecorded` | - |
| `FiltersAlwaysAsMatchId`: `Spec => FiltersAsMatchId` | - |
| `AlwaysShowsWhatFilters`: `Spec => ShowsWhatFilters` | - |
| `FramesAlwaysGoHome`: `TaskSpec => []FramesGoHome` | - |
| `NeverMoreThanOneAstray`: `TaskSpec => []AtMostOneAstray` | - |
| `AlwaysLoadsItsOwnCopy`: `LoaderSpec => []LoadsItsOwnCopy` | - |
| `AlwaysFindsItsLibrary`: `LoaderSpec => []FindsItsLibrary` | - |
| `NothingIsEverLeft`: `LoaderSpec => NothingIsLeft` | - |
| `NothingEverAfterException`: `CallSpec => []NothingAfterException` | - |
| `NormalAlwaysMeansDone`: `CallSpec => []NormalMeansDone` | - |
| `NamesAlwaysOnceTrue`: `CallSpec => []NamesOnceTrue` | - |
| `AlwaysResolvedUnlessFailed`: `CallSpec => []ResolvedUnlessFailed` | - |

*The table.* `IndexBound` and `UniqueIds` are not inductive: that the slot an
add fills is free of duplicates depends on what its search saw many steps
ago, and that nobody has changed it since. `TableInv` says so:

* `ControlOf`: where a thread is tells its function and its outstanding stores;
* `IndexOf`: the slot an add has claimed is `storageIdx` until it publishes;
* `StoresOf`: only an add stores an identifier, in its own slot; a remove or a
  removeAll stores zeros, and a removeAll has every remaining identifier still to clear;
* `SearchOf`: what the search has passed does not carry the new identifier;
* a slot behind `storageIdx` is empty, or is just being filled or cleared.

With at most one shaper, other threads can only turn identifiers into 0, which
keeps all of this. The proof has one lemma per action of the thread that steps,
one for the threads that do not (`OthersStay`, `ThreadStays`) and one each for
the two steps that change the table (`StorageIdxStep`, `FieldStep`).

*The worker.* `CycleInv`: `wi` counts passed slots, `framesCnt` at most as many, and
a slot is passed only below a `storageIdx` that `IndexBound` bounds. Hence a
cycle has at most as many frames as slots, even when callers move the index under it.

*The refinement.* With one writer, `OneWriter`, the `CHOOSE` in `Settled` has nobody else to choose
(`SettledOf`), and the table that `FrameTable` sees is `Rows(w)`: what the slots hold once the
stores of `w` are done. `WriterInv` is `TableInv` with what `w` knows of its own call (`WriterOf`): which of its stores are
left where, that the slot it has found carries the identifier it looked for, that what it
adds is a frame the abstract table may hold. Then every step is either `Silent`, so that `Rows` stays
what it is (each single store is: it moves a field from what is to come to what is there), or
one of the four that take effect (`Decides`) and is a step of `FrameTable`: one lemma each
(`ClearsRows`, `ClaimAddsRow`, `RemoveTakesRow`, `AdoptChangesRow`). The same lemmas give `AnswersTruthful`. With two threads that
remove or adopt, the refinement is false: both find the slot, and each stores half of it.

*Torn frames.* `TornInv` builds on `WriterInv`. `Row(w, s)` is what a slot holds once the stores of `w` are done, and `RowsInv` says that it is
then empty or whole; `FillOf` is about the meantime: a slot that an add fills has no identifier before the rest is there (by `CanidStoredLast`), and one
that an adopt writes to holds words of its own identifier. `HandInv` relates what the worker has copied to its slot as long as `overwritten` has no clearing
call: the same in every field, or, with an adopt, the same head and words of that identifier. The lemmas go one
by one through what the writer may store (`FillStep`, `RowsStep`), what that does to the hand (`WriterHand`) and what the worker takes into it (`WorkerHand`).
Counters are left out because they write into the hand and into the data of the slots, and other writers because two calls
may store into one slot and none of them what it meant.

*Stale frames.* `HandCurrent`: what the worker has copied of its slot is what the slot holds, except
for counted words. While no caller takes a step, a frame copied from the start is current; only the
one that was in hand may not be, and once it is gone `HandCurrent` holds until a caller moves (`StaleInv`). Nothing
is assumed of callers, initialisation or build.

*Counters.* `EnableInv` describes the entries: those below `Finished` are counters, at most one above is
half stored, a mixture of zeros and the counter being enabled (`HalfEnabled`), the rest is zero. A
counter that was enabled several times has several entries, and the last one, `Top`, has the last
word in every frame. `LastInv` compares it with the record: its value is the byte that was sent
last, or the next one once the worker has passed it with a frame that it drives (`Agrees`). No other entry
touches that byte (`DriversAreOwn`). The half-stored entry is the reason for the assumption
`HalfEnabledDriveNoOther`: `-O2` stores `autoIncrementIdx` before the entry (`C` 93-96), so that the worker may see
the identifier with byte position 0, or a position with the identifier 0, and count there. A counter
at byte 0 of the same identifier could skip a value at that moment. Callers that enable their counters before they add frames do not meet it.

*The sockets.* `OwnDescriptor` needs to know that an object has the number 0
until it opens (`NumbersOf`), so that a failed object can only close descriptor 0. The
others need the converse as well: a file is never behind another number than
its own object's (`FilesOf`), hence a call through a number that nobody has used too late (`Trusted`) reaches the
caller's file or none (`FileOfCaller`), and a receive waits on it until it ends (`WaitsOnOwnFile`). What such a file
has in its queue, and what it is bound to, its object was asked for (`AskedOf`). `BindsOf` carries a binding from the
system call to the assignment. Steps that open, close, bind or start to receive nothing
are `Quiet` and are dealt with by one lemma.

*The filters.* `EntryMeansWanted` shows bit by bit that the entry for the
kernel accepts exactly the extended data frames that agree with the filter in
its mask and in the 11 standard bits; `ResetIsRefused` that the first native
call never changes anything. `FilterInv` ties every number on its way to the kernel to the 29 bits that its `CanId` was constructed
with, which no flag is among (`IdsOK`, `MarkOf`, `TextOf`), and the kernel's list to the entries
of one whole array or to the default (`FiltersOK`): that is what `getFilters` shows. `WantedIsMatched` says for masks with
all standard bits that what a filter wants is what `matchId` agrees with.

*Sockets and the task.* On top of the invariant of the sockets, each word in the table, in the frame of the call or in
the worker's hand is a number of the object that stored it, which was opened, or the zero of a cleared slot
(`NumbersInTable`). `CallOf` says what a call has left to store and where, `TableOf` that a slot has words of one object
only and its identifier none without its number, unless a call is at it. `HandOf` is the core: as long as nothing has
emptied the table, what the worker has copied belongs to the same object as its slot, and is what the slot holds unless
a remove was there; so the number it sends through is that object's, and `OwnDescriptor` sends the frame home, or it is the
0 of a cleared slot. For `AtMostOneAstray`, an object that has had its one frame more is closed for good and has no frame
in the table or in the hand (`AstrayOf`); only a call on the closed object, which `late` records, could add one.

*The loader.* `LoaderInv` says who owns what: a directory that a live JVM uses was made by it
(`OwnDirectory`, which `mkdir` gives), and nobody else writes into it, so that the file in it is the one
that its owner's position says (`OwnFile`); between two libraries there is none, unless
deletion is left to the exit (`Tidy`), and libraries that were tried in vain were for other
machines or met an error (`Tried`).

*The natives.* `BodiesAreCareful` is about the tuples alone: after a step that may leave an
exception pending comes a look, or the end; it is shown native by native. `SoundInv` carries that
through the steps: an exception is pending only at a look or at the end, and a failure has left
an exception except in the natives of the filters. `NameInv` adds that an object under
construction belongs to one call (`Target`), and that a call past its question has failed or holds an
answer that the kernel gave (`Answered`).

Every safety property of the passing runs is stated by one of these theorems. The runs check them
on instances that satisfy the assumptions: `CyclicTable` and `CyclicWorker` have one writer, and `CyclicWorker` stores the
identifier of an added frame last and has no counters; `CyclicCounters` has one thread that enables, and its one counter is at
byte 0, which a half-stored entry drives as well.

Only model-checked: `FramesKeepFlowing`. Liveness, like `ENABLED`, is out of
the prover's reach, as is what a recursive definition computes (there is none here).

## 6. Not modelled

* What the options loopback, own messages and error filter do in the kernel; their calls are in
  `NativeCalls`.
* `equals`, `hashCode` and `toString`. Those of `CanInterface` include a name that
  `resolveIfName` fills in later, so that an object in a hash set may not be found any more.
* Memory: `_setFilters` never releases the copy of its string (`N` 455).
* `loadLibFromJar` and `initCanLibrary`, which nobody calls (section 4); `CyclicSendTask` has the
  initialisation for callers that would.
* `jni.h`, which is the JVM's: two thirds of the lines of C in the repository. The 14 functions of it
  that are called are modelled by how they may fail.
* Exits in the middle of the initialiser are modelled but nothing is claimed of them: like a kill they
  may leave a directory.
* Arrays longer than 8 bytes, cycle times that overflow (`MaxMs`), and what a
  store outside the table destroys: the model reads a zeroed frame there and
  drops the store.
* A failing `pthread_create`, which ends the process.

## 7. Plan

Done: all modules and runs above, and their theorems. Left, in this order:

1. The table of `SocketTask` refines `FrameTable` as well, so that the two halves of the model
   meet in one abstract specification; today it is the same by reading.
2. The options loopback and own messages in the kernel of `SocketLifecycle`.
3. The overflow of cycle times in `CyclicSendTask`.
