-------------------------- MODULE LibraryLoaderProof --------------------------
(***************************************************************************)
(* The loader's properties for any number of JVMs and directories.         *)
(***************************************************************************)
EXTENDS LibraryLoader, TLAPS

Jar == 1..Len(listResources)
InLibrary == {"copy", "load", "finally"}

(* A running JVM is the maker of its directory, and of no other one; what   *)
(* is no directory holds no file.                                           *)
OwnDirectory ==
  /\ \A j \in Jvms : Running(j) =>
       /\ temporaryDir[j] # None => maker[temporaryDir[j]] = j
       /\ \A d \in Dirs : maker[d] = j \/ file[d].by = j => d = temporaryDir[j]
  /\ \A d \in Dirs : maker[d] = None => file[d] = NoCopy

(* What its file holds and what it has loaded, step by step.                *)
OwnFile == \A j \in Jvms :
  /\ cls[j] \in InLibrary => candidate[j] \in Jar /\ temporaryDir[j] # None
  /\ cls[j] = "load" => file[temporaryDir[j]] = Copy(j, Library(j), TRUE)
  /\ cls[j] = "copy" => file[temporaryDir[j]] = Copy(j, Library(j), FALSE)
  /\ loaded[j] # NoCopy => loaded[j] = Copy(j, Machine, TRUE)

(* Between two libraries and after the last one no file is left that is not *)
(* to be deleted.                                                           *)
Tidy == \A j \in Jvms :
  Running(j) /\ cls[j] \notin InLibrary /\ temporaryDir[j] # None =>
    file[temporaryDir[j]] = NoCopy \/ onExit[j] = <<"directory", "file">>

(* The machine's library is among the libraries tried only with trouble.    *)
PassedBy(j, n) == listResources[n] # Machine \/ Machine \in trouble[j]
Tried == \A j \in Jvms :
  /\ cls[j] \in {"try", "erroneous"} \cup InLibrary =>
       \A n \in Jar : n < candidate[j] => PassedBy(j, n)
  /\ cls[j] = "finally" /\ loaded[j] = NoCopy => PassedBy(j, candidate[j])
  /\ cls[j] = "erroneous" => candidate[j] > Len(listResources)

LoaderInv == LoaderTypeOK /\ OwnDirectory /\ OwnFile /\ Tidy /\ Tried

(* The JAR holds two libraries.                                             *)
LEMMA JarFacts ==
  /\ Jar = 1..2 /\ DOMAIN listResources = Jar /\ Len(listResources) = 2
  /\ Libraries = {"armv7a", "x86_64"}
  /\ \A n \in Jar : listResources[n] \in Libraries
<1>1. Len(listResources) = 2 /\ DOMAIN listResources = 1..2
  BY DEF listResources
<1>2. listResources[1] = "armv7a" /\ listResources[2] = "x86_64"
  BY DEF listResources
<1> QED BY <1>1, <1>2 DEF Jar, Libraries

LEMMA JarSteps ==
  /\ DOMAIN listResources = Jar
  /\ 1 \in 1..Len(listResources) + 1
  /\ \A n \in Jar : ~(n < 1) /\ listResources[n] \in Libraries
  /\ \A n, c \in Jar : n < c + 1 => n < c \/ n = c
  /\ \A c \in Jar : c + 1 \in 1..Len(listResources) + 1
BY JarFacts

LEMMA NoneFacts ==
  /\ \A j \in Jvms : j # None
  /\ \A d \in Dirs : d # None
  /\ NoCopy \in Copies /\ NoCopy.by = None
  /\ \A j \in Jvms : \A lib, whole : Copy(j, lib, whole) # NoCopy
BY LoaderAssumption DEF NoCopy, Copy, Copies

LEMMA CopyFacts ==
  ASSUME NEW j \in Jvms, NEW lib \in Libraries
  PROVE  /\ \A whole \in BOOLEAN : Copy(j, lib, whole) \in Copies
         /\ \A whole \in BOOLEAN : Copy(j, lib, whole).by = j
         /\ Copy(j, lib, TRUE).whole /\ Copy(j, lib, TRUE).library = lib
         /\ [Copy(j, lib, FALSE) EXCEPT !.whole = TRUE] = Copy(j, lib, TRUE)
<1>1. \A whole \in BOOLEAN : Copy(j, lib, whole) \in Copies /\ Copy(j, lib, whole).by = j
  BY DEF Copy, Copies
<1>2. Copy(j, lib, TRUE).whole /\ Copy(j, lib, TRUE).library = lib
  BY DEF Copy
<1>3. [Copy(j, lib, FALSE) EXCEPT !.whole = TRUE] = Copy(j, lib, TRUE)
  <2> DEFINE c == Copy(j, lib, FALSE)
             e == [c EXCEPT !.whole = TRUE]
  <2>1. c \in Copies /\ c.by = j /\ c.library = lib
    BY DEF Copy, Copies
  <2> HIDE DEF c
  <2>2. e \in Copies /\ e.by = j /\ e.library = lib /\ e.whole = TRUE
    BY <2>1 DEF Copies
  <2> HIDE DEF e
  <2>3. e = [by |-> e.by, library |-> e.library, whole |-> e.whole]
    BY <2>2 DEF Copies
  <2>4. e = Copy(j, lib, TRUE)
    BY <2>2, <2>3 DEF Copy
  <2> QED BY <2>4 DEF c, e
<1> QED BY <1>1, <1>2, <1>3

(* Running JVMs with directories have different ones.                       *)
LEMMA Apart ==
  ASSUME OwnDirectory, NEW j \in Jvms, Running(j), NEW k \in Jvms \ {j}, Running(k),
         temporaryDir[j] # None, temporaryDir[k] # None
  PROVE  temporaryDir[k] # temporaryDir[j]
BY DEF OwnDirectory

LEMMA LoaderInitInv == LoaderInit => LoaderInv
<1> SUFFICES ASSUME LoaderInit PROVE LoaderInv
  OBVIOUS
<1> USE JarSteps, NoneFacts DEF LoaderInit
<1>1. LoaderTypeOK
  BY DEF LoaderTypeOK, States, Jar
<1>2. OwnDirectory
  BY DEF OwnDirectory
<1>3. OwnFile
  BY DEF OwnFile, InLibrary
<1>4. Tidy
  BY DEF Tidy
<1>5. Tried
  BY DEF Tried, InLibrary
<1> QED BY <1>1, <1>2, <1>3, <1>4, <1>5 DEF LoaderInv

(* Steps of JVM j alone leave what the others own as it is.                 *)
LEMMA LoaderStepInv ==
  ASSUME LoaderInv, NEW j \in Jvms, Initialise(j)
  PROVE  LoaderInv'
<1> USE JarSteps, NoneFacts DEF LoaderInv, jvmVars, diskVars, Running
<1> DEFINE dir == temporaryDir[j]
<1>a. \A k \in Jvms \ {j} : Running(k) /\ dir # None => temporaryDir[k] # dir
  <2>1. Running(j)
    BY DEF Initialise, CreateTempDirectory, CreateTempDirectoryFails, StartCopy, EndCopy,
           CopyFails, Load, LoadFails, Delete, FetchConstants, FetchWithoutLibrary, Tries
  <2> QED BY <2>1, Apart DEF Running
<1>b. \A k \in Jvms \ {j} : cls[k] \in InLibrary /\ dir # None => temporaryDir[k] # dir
  BY <1>a DEF InLibrary
<1>1. CASE CreateTempDirectory(j)
  <2>1. PICK d \in Dirs :
      /\ Tries(j) /\ temporaryDir[j] = None /\ maker[d] = None
      /\ maker' = [maker EXCEPT ![d] = j]
      /\ temporaryDir' = [temporaryDir EXCEPT ![j] = d]
      /\ onExit' = [onExit EXCEPT ![j] = <<"directory">>]
      /\ UNCHANGED <<posix, cls, candidate, file, loaded, trouble>>
    BY <1>1 DEF CreateTempDirectory
  <2>2. LoaderTypeOK'
    BY <2>1 DEF LoaderTypeOK
  <2>3. OwnDirectory'
    BY <2>1 DEF OwnDirectory, LoaderTypeOK
  <2>4. OwnFile'
    BY <2>1 DEF OwnFile, LoaderTypeOK, InLibrary, Tries, Library
  <2>5. Tidy'
    BY <2>1 DEF Tidy, OwnDirectory, LoaderTypeOK
  <2>6. Tried'
    BY <2>1 DEF Tried, PassedBy
  <2> QED BY <2>2, <2>3, <2>4, <2>5, <2>6
<1>2. CASE CreateTempDirectoryFails(j)
  <2> USE <1>2 DEF CreateTempDirectoryFails, Tries, NextLibrary, Trouble
  <2>1. LoaderTypeOK'
    BY DEF LoaderTypeOK, Library, States
  <2>2. OwnDirectory'
    BY DEF OwnDirectory, LoaderTypeOK
  <2>3. OwnFile'
    BY DEF OwnFile, LoaderTypeOK, InLibrary, Library
  <2>4. Tidy'
    BY DEF Tidy, LoaderTypeOK, InLibrary
  <2>5. Tried'
    BY DEF Tried, PassedBy, LoaderTypeOK, InLibrary, Library
  <2> QED BY <2>1, <2>2, <2>3, <2>4, <2>5
<1>3. CASE StartCopy(j)
  <2> USE <1>3 DEF StartCopy, Tries
  <2>1. LoaderTypeOK'
    BY DEF LoaderTypeOK, Library, States, Copies, Copy
  <2>2. OwnDirectory'
    BY DEF OwnDirectory, LoaderTypeOK, Copy
  <2>3. OwnFile'
    BY <1>b DEF OwnFile, LoaderTypeOK, InLibrary, Library
  <2>4. Tidy'
    BY <1>a DEF Tidy, LoaderTypeOK, InLibrary
  <2>5. Tried'
    BY DEF Tried, PassedBy, LoaderTypeOK, InLibrary
  <2> QED BY <2>1, <2>2, <2>3, <2>4, <2>5
<1>4. CASE EndCopy(j)
  <2> USE <1>4 DEF EndCopy
  <2>0. /\ dir \in Dirs /\ file[dir] = Copy(j, Library(j), FALSE)
        /\ candidate[j] \in Jar /\ Library(j) \in Libraries
    BY DEF OwnFile, InLibrary, LoaderTypeOK, Library
  <2>1. file' = [file EXCEPT ![dir] = Copy(j, Library(j), TRUE)]
    <3>1. [Copy(j, Library(j), FALSE) EXCEPT !.whole = TRUE] = Copy(j, Library(j), TRUE)
      <4> HIDE JarSteps, NoneFacts
      <4> QED BY <2>0, CopyFacts
    <3> QED BY <2>0, <3>1
  <2>2. LoaderTypeOK'
    <3>1. Copy(j, Library(j), TRUE) \in Copies
      <4> HIDE JarSteps, NoneFacts
      <4> QED BY <2>0, CopyFacts
    <3>2. file' \in [Dirs -> Copies]
      <4> HIDE <1>4
      <4> QED BY <2>0, <2>1, <3>1 DEF LoaderTypeOK
    <3>3. cls' \in [Jvms -> States]
      BY DEF LoaderTypeOK, States
    <3> QED BY <3>2, <3>3 DEF LoaderTypeOK
  <2>3. OwnDirectory'
    BY <2>0, <2>1 DEF OwnDirectory, LoaderTypeOK, Copy
  <2>4. OwnFile'
    <3>1. ASSUME NEW k \in Jvms \ {j}, cls[k] \in InLibrary
          PROVE  file'[temporaryDir[k]] = file[temporaryDir[k]]
      BY <2>0, <2>1, <3>1, <1>b DEF OwnFile, LoaderTypeOK
    <3>2. file'[dir] = Copy(j, Library(j), TRUE)
      BY <2>0, <2>1 DEF LoaderTypeOK
    <3> QED BY <2>0, <3>1, <3>2 DEF OwnFile, LoaderTypeOK, InLibrary, Library
  <2>5. Tidy'
    BY <2>0, <2>1, <1>a DEF Tidy, LoaderTypeOK, InLibrary
  <2>6. Tried'
    BY DEF Tried, PassedBy, LoaderTypeOK, InLibrary
  <2> QED BY <2>2, <2>3, <2>4, <2>5, <2>6
<1>5. CASE CopyFails(j)
  <2>0. /\ dir \in Dirs /\ candidate[j] \in Jar /\ cls[j] \in {"try", "copy"}
        /\ file' = [file EXCEPT ![dir] = NoCopy]
        /\ cls' = [cls EXCEPT ![j] = "try"]
        /\ candidate' = [candidate EXCEPT ![j] = candidate[j] + 1]
        /\ trouble' = [trouble EXCEPT ![j] = trouble[j] \cup {Library(j)}]
        /\ UNCHANGED <<posix, temporaryDir, onExit, maker, loaded>>
    BY <1>5 DEF CopyFails, Tries, NextLibrary, Trouble, OwnFile, InLibrary, LoaderTypeOK
  <2>1. LoaderTypeOK'
    BY <2>0 DEF LoaderTypeOK, Library, States
  <2>2. OwnDirectory'
    BY <2>0 DEF OwnDirectory, LoaderTypeOK
  <2>3. OwnFile'
    BY <2>0, <1>b DEF OwnFile, LoaderTypeOK, InLibrary, Library
  <2>4. Tidy'
    BY <2>0, <1>a DEF Tidy, LoaderTypeOK, InLibrary
  <2>5. Tried'
    BY <2>0 DEF Tried, PassedBy, LoaderTypeOK, InLibrary, Library
  <2> QED BY <2>1, <2>2, <2>3, <2>4, <2>5
<1>6. CASE Load(j)
  <2>0. /\ dir \in Dirs /\ file[dir] = Copy(j, Library(j), TRUE)
        /\ candidate[j] \in Jar /\ Library(j) \in Libraries
    BY <1>6 DEF OwnFile, InLibrary, LoaderTypeOK, Load, Library
  <2>1. /\ cls[j] = "load" /\ cls' = [cls EXCEPT ![j] = "finally"]
        /\ loaded' = [loaded EXCEPT ![j] =
             IF Library(j) = Machine THEN Copy(j, Machine, TRUE) ELSE NoCopy]
        /\ UNCHANGED <<posix, candidate, temporaryDir, onExit, maker, file, trouble>>
    <3>1. Copy(j, Library(j), TRUE).whole /\ Copy(j, Library(j), TRUE).library = Library(j)
      <4> HIDE JarSteps, NoneFacts
      <4> QED BY <2>0, CopyFacts
    <3> QED BY <1>6, <2>0, <3>1 DEF Load
  <2>2. LoaderTypeOK'
    BY <2>0, <2>1 DEF LoaderTypeOK, Library, States, Copies, Copy
  <2>3. OwnDirectory'
    BY <2>1 DEF OwnDirectory, LoaderTypeOK
  <2>4. OwnFile'
    BY <2>0, <2>1 DEF OwnFile, LoaderTypeOK, InLibrary, Library
  <2>5. Tidy'
    BY <2>1 DEF Tidy, LoaderTypeOK, InLibrary
  <2>6. Tried'
    <3>1. loaded'[j] = NoCopy => listResources[candidate[j]] # Machine
      BY <2>1 DEF LoaderTypeOK, Library
    <3> QED BY <2>0, <2>1, <3>1 DEF Tried, PassedBy, LoaderTypeOK, InLibrary
  <2> QED BY <2>2, <2>3, <2>4, <2>5, <2>6
<1>7. CASE LoadFails(j)
  <2>0. dir \in Dirs /\ candidate[j] \in Jar
    BY <1>7 DEF OwnFile, InLibrary, LoaderTypeOK, LoadFails
  <2> USE <1>7 DEF LoadFails, Trouble
  <2>1. LoaderTypeOK'
    BY <2>0 DEF LoaderTypeOK, Library, States
  <2>2. OwnDirectory'
    BY DEF OwnDirectory, LoaderTypeOK
  <2>3. OwnFile'
    BY <2>0 DEF OwnFile, LoaderTypeOK, InLibrary, Library
  <2>4. Tidy'
    BY DEF Tidy, LoaderTypeOK, InLibrary
  <2>5. Tried'
    BY <2>0 DEF Tried, PassedBy, LoaderTypeOK, InLibrary, Library
  <2> QED BY <2>1, <2>2, <2>3, <2>4, <2>5
<1>8. CASE Delete(j)
  <2>0. /\ dir \in Dirs /\ candidate[j] \in Jar /\ cls[j] = "finally"
        /\ \/ /\ loaded[j] # NoCopy
              /\ cls' = [cls EXCEPT ![j] = "constants"] /\ candidate' = candidate
           \/ /\ loaded[j] = NoCopy
              /\ cls' = [cls EXCEPT ![j] = "try"]
              /\ candidate' = [candidate EXCEPT ![j] = candidate[j] + 1]
        /\ \/ file' = [file EXCEPT ![dir] = NoCopy] /\ onExit' = onExit
           \/ file' = file /\ onExit' = [onExit EXCEPT ![j] = <<"directory", "file">>]
        /\ UNCHANGED <<posix, temporaryDir, maker, loaded, trouble>>
    BY <1>8 DEF Delete, AfterLoad, NextLibrary, OwnFile, InLibrary, LoaderTypeOK
  <2>1. LoaderTypeOK'
    <3>1. candidate' \in [Jvms -> 1..Len(listResources) + 1]
      <4>1. candidate[j] + 1 \in 1..Len(listResources) + 1
        BY <2>0
      <4> HIDE JarSteps
      <4> QED BY <2>0, <4>1 DEF LoaderTypeOK
    <3>a. cls' \in [Jvms -> States]
      BY <2>0 DEF LoaderTypeOK, States
    <3>2. file' \in [Dirs -> Copies]
      BY <2>0 DEF LoaderTypeOK
    <3>3. onExit' \in [Jvms -> {<<>>, <<"directory">>, <<"directory", "file">>}]
      BY <2>0 DEF LoaderTypeOK
    <3> QED BY <2>0, <3>1, <3>a, <3>2, <3>3 DEF LoaderTypeOK
  <2>2. OwnDirectory'
    <3>1. CASE file' = file
      BY <2>0, <3>1 DEF OwnDirectory, LoaderTypeOK
    <3>2. CASE file' = [file EXCEPT ![dir] = NoCopy]
      BY <2>0, <3>2 DEF OwnDirectory, LoaderTypeOK
    <3> QED BY <2>0, <3>1, <3>2
  <2>3. OwnFile'
    BY <2>0, <1>b DEF OwnFile, LoaderTypeOK, InLibrary, Library
  <2>4. Tidy'
    BY <2>0, <1>a DEF Tidy, LoaderTypeOK, InLibrary
  <2>5. Tried'
    BY <2>0 DEF Tried, PassedBy, LoaderTypeOK, InLibrary
  <2> QED BY <2>1, <2>2, <2>3, <2>4, <2>5
<1>9. CASE FetchConstants(j) \/ FetchWithoutLibrary(j)
  <2> USE <1>9 DEF FetchConstants, FetchWithoutLibrary
  <2>1. LoaderTypeOK'
    BY DEF LoaderTypeOK, States
  <2>2. OwnDirectory'
    BY DEF OwnDirectory, LoaderTypeOK
  <2>3. OwnFile'
    BY DEF OwnFile, LoaderTypeOK, InLibrary, Library
  <2>4. Tidy'
    BY DEF Tidy, LoaderTypeOK, InLibrary
  <2>5. Tried'
    BY DEF Tried, PassedBy, LoaderTypeOK, InLibrary
  <2> QED BY <2>1, <2>2, <2>3, <2>4, <2>5
<1> QED BY <1>1, <1>2, <1>3, <1>4, <1>5, <1>6, <1>7, <1>8, <1>9 DEF Initialise

(* The end of a JVM takes away only what it has made.                       *)
LEMMA LoaderEndInv ==
  ASSUME LoaderInv, NEW j \in Jvms, Exit(j) \/ Kill(j)
  PROVE  LoaderInv'
<1> USE JarSteps, NoneFacts DEF LoaderInv, diskVars, Running
<1>1. CASE Kill(j)
  <2> USE <1>1 DEF Kill
  <2>1. LoaderTypeOK'
    BY DEF LoaderTypeOK, States
  <2>2. OwnDirectory'
    BY DEF OwnDirectory, LoaderTypeOK
  <2>3. OwnFile'
    BY DEF OwnFile, LoaderTypeOK, InLibrary, Library
  <2>4. Tidy'
    BY DEF Tidy, LoaderTypeOK, InLibrary
  <2>5. Tried'
    BY DEF Tried, PassedBy, LoaderTypeOK, InLibrary
  <2> QED BY <2>1, <2>2, <2>3, <2>4, <2>5
<1>2. CASE Exit(j)
  <2> USE <1>2 DEF Exit
  <2>a. \A k \in Jvms \ {j} :
          Running(k) /\ temporaryDir[j] # None => temporaryDir[k] # temporaryDir[j]
    BY Apart
  <2>b. \A k \in Jvms : k # j /\ Running(k) /\ temporaryDir[k] # None =>
          file'[temporaryDir[k]] = file[temporaryDir[k]]
    BY <2>a DEF LoaderTypeOK
  <2>1. LoaderTypeOK'
    BY DEF LoaderTypeOK, States
  <2>2. OwnDirectory'
    BY DEF OwnDirectory, LoaderTypeOK
  <2>3. OwnFile'
    BY <2>b DEF OwnFile, LoaderTypeOK, InLibrary, Library
  <2>4. Tidy'
    BY <2>b DEF Tidy, LoaderTypeOK, InLibrary
  <2>5. Tried'
    BY DEF Tried, PassedBy, LoaderTypeOK, InLibrary
  <2> QED BY <2>1, <2>2, <2>3, <2>4, <2>5
<1> QED BY <1>1, <1>2

LEMMA LoaderStutterInv == LoaderInv /\ UNCHANGED loaderVars => LoaderInv'
<1> SUFFICES ASSUME LoaderInv, UNCHANGED loaderVars PROVE LoaderInv'
  OBVIOUS
<1> USE DEF LoaderInv, loaderVars, jvmVars, diskVars
<1>1. LoaderTypeOK'
  BY DEF LoaderTypeOK
<1>2. OwnDirectory'
  BY DEF OwnDirectory, Running
<1>3. OwnFile'
  BY DEF OwnFile, Library
<1>4. Tidy'
  BY DEF Tidy, Running
<1>5. Tried'
  BY DEF Tried, PassedBy
<1> QED BY <1>1, <1>2, <1>3, <1>4, <1>5

LEMMA LoaderNextInv == LoaderInv /\ [LoaderNext]_loaderVars => LoaderInv'
BY LoaderStepInv, LoaderEndInv, LoaderStutterInv DEF LoaderNext

-----------------------------------------------------------------------------
(* LoadsItsOwnCopy for every number of JVMs and of names for directories:   *)
(* what is loaded is the whole copy that the JVM made                       *)
(* (StaticLibLoaderUtils.java:104-124).                                     *)
THEOREM AlwaysLoadsItsOwnCopy == LoaderSpec => []LoadsItsOwnCopy
<1>1. LoaderInv => LoadsItsOwnCopy
  BY DEF LoaderInv, OwnFile, LoadsItsOwnCopy
<1> QED BY <1>1, LoaderInitInv, LoaderNextInv, PTL DEF LoaderSpec

(* FindsItsLibrary, likewise: only trouble with the machine's own library   *)
(* ends an initialisation in an error (StaticLibLoaderUtils.java:51-65).    *)
THEOREM AlwaysFindsItsLibrary == LoaderSpec => []FindsItsLibrary
<1>1. LoaderInv => FindsItsLibrary
  <2> SUFFICES ASSUME LoaderInv, NEW j \in Jvms, cls[j] = "erroneous", Machine \in Libraries
               PROVE  Machine \in trouble[j]
    BY DEF FindsItsLibrary
  <2>1. PICK n \in Jar : listResources[n] = Machine
    BY JarFacts DEF Libraries
  <2>2. n < candidate[j]
    BY <2>1, JarFacts DEF LoaderInv, Tried, LoaderTypeOK
  <2> QED BY <2>1, <2>2 DEF LoaderInv, Tried, PassedBy
<1> QED BY <1>1, LoaderInitInv, LoaderNextInv, PTL DEF LoaderSpec

(* NothingIsLeft, likewise: an orderly end after the initialisation removes *)
(* the directory and the file (StaticLibLoaderUtils.java:113-140).          *)
THEOREM NothingIsEverLeft == LoaderSpec => NothingIsLeft
<1> DEFINE LeavesNothing == \A j \in Jvms :
      cls[j] \in {"initialized", "erroneous"} /\ Exit(j) => \A d \in Dirs :
        maker'[d] # j /\ file'[d].by # j
<1>1. LoaderInv => LeavesNothing
  <2> SUFFICES ASSUME LoaderInv, NEW j \in Jvms, cls[j] \in {"initialized", "erroneous"},
                      Exit(j), NEW d \in Dirs
               PROVE  maker'[d] # j /\ file'[d].by # j
    OBVIOUS
  <2>1. Running(j) /\ cls[j] \notin InLibrary
    BY DEF Running, InLibrary
  <2>2. CASE d # temporaryDir[j]
    <3>1. maker[d] # j /\ file[d].by # j
      BY <2>1, <2>2 DEF LoaderInv, OwnDirectory
    <3> QED BY <2>2, <3>1 DEF Exit
  <2>3. CASE d = temporaryDir[j]
    <3>1. file[d] = NoCopy \/ onExit[j] = <<"directory", "file">>
      BY <2>1, <2>3, NoneFacts DEF LoaderInv, Tidy
    <3>2. file'[d] = NoCopy /\ maker'[d] = None
      BY <2>3, <3>1 DEF Exit
    <3> QED BY <3>2, NoneFacts
  <2> QED BY <2>2, <2>3
<1>2. LoaderInv /\ [LoaderNext]_loaderVars => [LeavesNothing]_loaderVars
  BY <1>1
<1>3. LoaderSpec => [][LeavesNothing]_loaderVars
  BY <1>2, LoaderInitInv, LoaderNextInv, PTL DEF LoaderSpec
<1> QED BY <1>3 DEF NothingIsLeft
=============================================================================
