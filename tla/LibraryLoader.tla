---------------------------- MODULE LibraryLoader ----------------------------
(***************************************************************************)
(* The static initialiser of CanSocket with StaticLibLoaderUtils, in JVMs  *)
(* that share one directory for temporary files.  A JVM tries the          *)
(* libraries of the JAR one after the other: it copies the library to a    *)
(* file, loads the file and deletes it.  It may be killed at any point.    *)
(***************************************************************************)
EXTENDS Naturals, Sequences

CONSTANTS
  Jvms,
  Dirs,      \* the names that System.nanoTime() may give a directory
  Machine,   \* the library that this machine can load
  None

(* Every library of the JAR, all with the same file name.                   *)
listResources == <<"armv7a", "x86_64">>
Libraries == {listResources[n] : n \in DOMAIN listResources}

ASSUME LoaderAssumption == None \notin Jvms \cup Dirs \cup Libraries

VARIABLES
  posix,         \* isPosixCompliant()
  cls,           \* per JVM: how far the initialisation of the class is
  candidate,     \* per JVM: the number of the library that it tries
  temporaryDir,  \* per JVM: its directory
  onExit,        \* per JVM: what deleteOnExit is to delete, the last first
  maker,         \* per directory: the JVM that made it, None when there is none
  file,          \* per directory: the library file in it
  loaded,        \* per JVM: the file that System.load has mapped
  trouble        \* per JVM: libraries that met an error of input or output

jvmVars == <<cls, candidate, temporaryDir, onExit, loaded, trouble>>
diskVars == <<maker, file>>
loaderVars == <<posix, jvmVars, diskVars>>

Copy(j, lib, whole) == [by |-> j, library |-> lib, whole |-> whole]
NoCopy == Copy(None, None, FALSE)

LoaderInit ==
  /\ posix \in BOOLEAN
  /\ cls = [j \in Jvms |-> "try"]
  /\ candidate = [j \in Jvms |-> 1]
  /\ temporaryDir = [j \in Jvms |-> None]
  /\ onExit = [j \in Jvms |-> <<>>]
  /\ maker = [d \in Dirs |-> None]
  /\ file = [d \in Dirs |-> NoCopy]
  /\ loaded = [j \in Jvms |-> NoCopy]
  /\ trouble = [j \in Jvms |-> {}]

-----------------------------------------------------------------------------
Tries(j) == cls[j] = "try" /\ candidate[j] \in DOMAIN listResources
Library(j) == listResources[candidate[j]]

(* An exception: the loop over the libraries goes on with the next one.     *)
NextLibrary(j) ==
  /\ cls' = [cls EXCEPT ![j] = "try"]
  /\ candidate' = [candidate EXCEPT ![j] = @ + 1]
Trouble(j) == trouble' = [trouble EXCEPT ![j] = @ \cup {Library(j)}]

(* As CreateTempDirectory, without a look at what mkdir returned.           *)
CreateTempDirectoryAnyway(j) == \E d \in Dirs :
  /\ Tries(j) /\ temporaryDir[j] = None
  /\ maker' = [maker EXCEPT ![d] = IF @ = None THEN j ELSE @]
  /\ temporaryDir' = [temporaryDir EXCEPT ![j] = d]
  /\ onExit' = [onExit EXCEPT ![j] = <<"directory">>]
  /\ UNCHANGED <<posix, cls, candidate, file, loaded, trouble>>
CreateTempDirectory(j) == \E d \in Dirs :
  /\ Tries(j) /\ temporaryDir[j] = None /\ maker[d] = None
  /\ maker' = [maker EXCEPT ![d] = j]
  /\ temporaryDir' = [temporaryDir EXCEPT ![j] = d]
  /\ onExit' = [onExit EXCEPT ![j] = <<"directory">>]
  /\ UNCHANGED <<posix, cls, candidate, file, loaded, trouble>>

(* The name is taken, or mkdir fails for another reason.                    *)
CreateTempDirectoryFails(j) ==
  /\ Tries(j) /\ temporaryDir[j] = None
  /\ NextLibrary(j) /\ Trouble(j)
  /\ UNCHANGED <<posix, temporaryDir, onExit, diskVars, loaded>>

(* As StartCopy, without REPLACE_EXISTING.                                  *)
StartCopyOnce(j) ==
  /\ Tries(j) /\ temporaryDir[j] # None
  /\ \/ /\ file[temporaryDir[j]] = NoCopy
        /\ file' = [file EXCEPT ![temporaryDir[j]] = Copy(j, Library(j), FALSE)]
        /\ cls' = [cls EXCEPT ![j] = "copy"]
        /\ UNCHANGED candidate
     \/ /\ file[temporaryDir[j]] # NoCopy
        /\ file' = [file EXCEPT ![temporaryDir[j]] = NoCopy]
        /\ NextLibrary(j)
  /\ UNCHANGED <<posix, temporaryDir, onExit, maker, loaded, trouble>>
StartCopy(j) ==
  /\ Tries(j) /\ temporaryDir[j] # None
  /\ file' = [file EXCEPT ![temporaryDir[j]] = Copy(j, Library(j), FALSE)]
  /\ cls' = [cls EXCEPT ![j] = "copy"]
  /\ UNCHANGED <<posix, candidate, temporaryDir, onExit, maker, loaded, trouble>>
EndCopy(j) ==
  /\ cls[j] = "copy"
  /\ file' = [file EXCEPT ![temporaryDir[j]].whole = TRUE]
  /\ cls' = [cls EXCEPT ![j] = "load"]
  /\ UNCHANGED <<posix, candidate, temporaryDir, onExit, maker, loaded, trouble>>

(* Not in the JAR, or an error while copying: temp.delete().                *)
CopyFails(j) ==
  /\ (Tries(j) /\ temporaryDir[j] # None) \/ cls[j] = "copy"
  /\ file' = [file EXCEPT ![temporaryDir[j]] = NoCopy]
  /\ NextLibrary(j) /\ Trouble(j)
  /\ UNCHANGED <<posix, temporaryDir, onExit, maker, loaded>>

(* System.load, which refuses a library for another machine.                *)
Load(j) == LET found == file[temporaryDir[j]] IN
  /\ cls[j] = "load"
  /\ loaded' = [loaded EXCEPT ![j] =
       IF found.whole /\ found.library = Machine THEN found ELSE NoCopy]
  /\ cls' = [cls EXCEPT ![j] = "finally"]
  /\ UNCHANGED <<posix, candidate, temporaryDir, onExit, diskVars, trouble>>
LoadFails(j) ==
  /\ cls[j] = "load"
  /\ cls' = [cls EXCEPT ![j] = "finally"]
  /\ Trouble(j)
  /\ UNCHANGED <<posix, candidate, temporaryDir, onExit, diskVars, loaded>>

AfterLoad(j) ==
  \/ /\ loaded[j] # NoCopy
     /\ cls' = [cls EXCEPT ![j] = "constants"]
     /\ UNCHANGED candidate
  \/ loaded[j] = NoCopy /\ NextLibrary(j)

(* As Delete, with the deletion after a load that succeeded only.           *)
DeleteLoaded(j) ==
  /\ cls[j] = "finally" /\ AfterLoad(j)
  /\ file' = [file EXCEPT ![temporaryDir[j]] =
       IF posix /\ loaded[j] # NoCopy THEN NoCopy ELSE @]
  /\ onExit' = [onExit EXCEPT ![j] =
       IF posix THEN @ ELSE <<"directory", "file">>]
  /\ UNCHANGED <<posix, temporaryDir, maker, loaded, trouble>>
Delete(j) ==
  /\ cls[j] = "finally" /\ AfterLoad(j)
  /\ \/ posix /\ file' = [file EXCEPT ![temporaryDir[j]] = NoCopy] /\ UNCHANGED onExit
     \/ ~posix /\ onExit' = [onExit EXCEPT ![j] = <<"directory", "file">>] /\ UNCHANGED file
  /\ UNCHANGED <<posix, temporaryDir, maker, loaded, trouble>>

(* The rest of the initialiser calls natives: with no library they end it   *)
(* with an error, and the class is unusable from then on.                   *)
FetchConstants(j) ==
  /\ cls[j] = "constants"
  /\ cls' = [cls EXCEPT ![j] = "initialized"]
  /\ UNCHANGED <<posix, candidate, temporaryDir, onExit, diskVars, loaded, trouble>>
FetchWithoutLibrary(j) ==
  /\ cls[j] = "try" /\ candidate[j] > Len(listResources)
  /\ cls' = [cls EXCEPT ![j] = "erroneous"]
  /\ UNCHANGED <<posix, candidate, temporaryDir, onExit, diskVars, loaded, trouble>>

-----------------------------------------------------------------------------
(* An orderly end runs the deletions that were asked for; a directory with  *)
(* something in it stays.                                                   *)
Running(j) == cls[j] # "gone"
Exit(j) ==
  /\ Running(j)
  /\ cls' = [cls EXCEPT ![j] = "gone"]
  /\ file' = [d \in Dirs |->
       IF d = temporaryDir[j] /\ onExit[j] = <<"directory", "file">> THEN NoCopy ELSE file[d]]
  /\ maker' = [d \in Dirs |->
       IF d = temporaryDir[j] /\ file'[d] = NoCopy THEN None ELSE maker[d]]
  /\ UNCHANGED <<posix, candidate, temporaryDir, onExit, loaded, trouble>>
Kill(j) ==
  /\ Running(j)
  /\ cls' = [cls EXCEPT ![j] = "gone"]
  /\ UNCHANGED <<posix, candidate, temporaryDir, onExit, diskVars, loaded, trouble>>

Initialise(j) ==
  \/ CreateTempDirectory(j) \/ CreateTempDirectoryFails(j)
  \/ StartCopy(j) \/ EndCopy(j) \/ CopyFails(j)
  \/ Load(j) \/ LoadFails(j) \/ Delete(j)
  \/ FetchConstants(j) \/ FetchWithoutLibrary(j)
LoaderNext == \E j \in Jvms : Initialise(j) \/ Exit(j) \/ Kill(j)
LoaderSpec == LoaderInit /\ [][LoaderNext]_loaderVars

-----------------------------------------------------------------------------
Copies == [by : Jvms \cup {None}, library : Libraries \cup {None}, whole : BOOLEAN]
States == {"try", "copy", "load", "finally", "constants", "initialized", "erroneous", "gone"}
LoaderTypeOK ==
  /\ posix \in BOOLEAN
  /\ cls \in [Jvms -> States]
  /\ candidate \in [Jvms -> 1..Len(listResources) + 1]
  /\ temporaryDir \in [Jvms -> Dirs \cup {None}]
  /\ onExit \in [Jvms -> {<<>>, <<"directory">>, <<"directory", "file">>}]
  /\ maker \in [Dirs -> Jvms \cup {None}]
  /\ file \in [Dirs -> Copies]
  /\ loaded \in [Jvms -> Copies]
  /\ trouble \in [Jvms -> SUBSET Libraries]

(* What a JVM loads is the whole copy that it has made itself, however many *)
(* JVMs come up with the same name at the same time, find what a killed one *)
(* left behind, or exit meanwhile (StaticLibLoaderUtils.java:104-124).      *)
LoadsItsOwnCopy == \A j \in Jvms :
  /\ cls[j] = "load" => file[temporaryDir[j]] = Copy(j, Library(j), TRUE)
  /\ loaded[j] # NoCopy => loaded[j] = Copy(j, Machine, TRUE)

(* Libraries for other machines and what is left of them never stand in the *)
(* way: an initialisation fails only if the machine's own library is not in *)
(* the JAR or has met an error of input or output                           *)
(* (StaticLibLoaderUtils.java:51-65).                                       *)
FindsItsLibrary == \A j \in Jvms :
  cls[j] = "erroneous" => Machine \in trouble[j] \/ Machine \notin Libraries

(* A JVM that ends in order, once the class is initialised or unusable,     *)
(* leaves no file and no directory behind, whichever libraries failed       *)
(* before (StaticLibLoaderUtils.java:113-140).                              *)
NothingIsLeft == [][\A j \in Jvms :
  cls[j] \in {"initialized", "erroneous"} /\ Exit(j) => \A d \in Dirs :
    maker'[d] # j /\ file'[d].by # j]_loaderVars
=============================================================================
