------------------------------ MODULE ImageStore ------------------------------
(***************************************************************************)
(* The image store of the crosvm runtime: Retrieve with its fast path        *)
(* through the cache, the goroutine that moves a fetched image into the      *)
(* cache, and what NewStore restores when the engine starts again.           *)
(*                                                                         *)
(* Simplifications.                                                         *)
(* - An image reference stands for its source, its id and the cache key made *)
(*   from them, which is injective (it holds the id's SHA-256 sum).          *)
(* - A file is the version of the image it belongs to, "cut" when only a part*)
(*   of it has been written, or "absent".  Sizes are left out.               *)
(* - Copying out of the cache holds the read lock and works on the caller's  *)
(*   own directory, fetching from the source resolves the reference once and *)
(*   writes a temporary directory nobody else knows: each is one step that   *)
(*   may fail.                                                               *)
(***************************************************************************)
EXTENDS Naturals

CONSTANTS
  Refs,         \* image references
  Versions,     \* what the registry may hold under a reference
  WithInitrd,   \* the versions that have an initrd
  Calls,        \* calls of Retrieve
  MaxRestarts,  \* bound on the restarts of the engine
  NoDir         \* there is no such directory, or no such index entry

ASSUME ImageAssumption ==
  /\ WithInitrd \subseteq Versions
  /\ MaxRestarts \in Nat
  /\ {"absent", "cut"} \cap Versions = {}

VARIABLES
  crossDevice, \* are the temporary and the cache directory on two file systems
  registry,    \* reference -> the version it names at the moment
  index,       \* Store.images: reference -> the entry's HasInitrd
  misfiled,    \* the calls whose image is in Store.images under another key
  disk,        \* reference -> its directory in the cache
  ref,         \* call -> the reference it asks for
  pc,          \* call -> where Retrieve is, or how it ended
  tmp,         \* call -> its temporary directory
  dst,         \* call -> the files it delivered
  mover,       \* call -> where its moveIntoCache goroutine is
  restarts     \* the engine has been started again this often

callVars == <<ref, pc, tmp, dst, mover>>
vars == <<crossDevice, registry, index, misfiled, disk, callVars, restarts>>

Files    == {"initrd", "kernel", "rootfs"}
Contents == Versions \cup {"absent", "cut"}
Dirs     == [Files -> Contents] \cup {NoDir}
Empty    == [f \in Files |-> "absent"]

\* Where a Retrieve is that did not find its image in the cache.
Fetching == {"fetch", "source", "deliver", "drop"}

ASSUME NoDirAssumption == NoDir \notin [Files -> Contents] \cup BOOLEAN

TypeOK ==
  /\ crossDevice \in BOOLEAN
  /\ registry \in [Refs -> Versions]
  /\ index \in [Refs -> BOOLEAN \cup {NoDir}]
  /\ misfiled \subseteq Calls
  /\ disk \in [Refs -> Dirs]
  /\ ref \in [Calls -> Refs]
  /\ pc \in [Calls -> Fetching \cup {"idle", "ok", "error", "lost"}]
  /\ tmp \in [Calls -> Dirs]
  /\ dst \in [Calls -> Dirs]
  /\ mover \in [Calls -> {"none", "lock", "move", "copy", "done", "failed"}]
  /\ restarts \in 0 .. MaxRestarts

\* The files ContainersSource.Retrieve makes of a version.
FilesOf(v) == [f \in Files |-> IF f = "initrd" /\ v \notin WithInitrd THEN "absent" ELSE v]

\* CreateImageFromDir accepts a directory with a kernel and a root file system,
\* whole or not, and notes whether there is an initrd with something in it.
Acceptable(d) == d # NoDir /\ d["kernel"] # "absent" /\ d["rootfs"] # "absent"
HasInitrd(d)  == CASE d["initrd"] = "absent" -> {FALSE}
                   [] d["initrd"] = "cut"    -> BOOLEAN
                   [] OTHER                  -> {TRUE}

Init ==
  /\ crossDevice \in BOOLEAN
  /\ registry \in [Refs -> Versions]
  /\ index = [r \in Refs |-> NoDir]
  /\ misfiled = {}
  /\ disk = [r \in Refs |-> NoDir]
  /\ ref \in [Calls -> Refs]
  /\ pc = [c \in Calls |-> "idle"]
  /\ tmp = [c \in Calls |-> NoDir]
  /\ dst = [c \in Calls |-> NoDir]
  /\ mover = [c \in Calls |-> "none"]
  /\ restarts = 0

\* moveIntoCache holds the write lock from its first to its last step.
WriteLocked == \E c \in Calls : mover[c] \in {"move", "copy"}

-------------------------------------------------------------------------------
(* Retrieve *)

\* A file that copyImageFilesToDst asks for is not there.
Misses(d, initrd) ==
  d # NoDir =>
    \/ d["rootfs"] = "absent"
    \/ d["rootfs"] # "cut" /\ (d["kernel"] = "absent" \/ (initrd /\ d["initrd"] = "absent"))

\* copyImageFilesToDst leaves the initrd alone unless the index entry has one.
CopyOf(d, initrd) == [d EXCEPT !["initrd"] = IF initrd THEN @ ELSE "absent"]

\* The mutation of RetrieveFromCache: the kernel comes from the registry's
\* present version instead of the cached directory.
RetrieveMixed(c) ==
  LET r == ref[c] IN
  /\ pc[c] = "idle"
  /\ ~WriteLocked
  /\ \/ /\ index[r] = NoDir
        /\ pc' = [pc EXCEPT ![c] = "fetch"]
        /\ UNCHANGED dst
     \/ /\ index[r] # NoDir /\ disk[r] # NoDir
        /\ pc' = [pc EXCEPT ![c] = "ok"]
        /\ dst' = [dst EXCEPT ![c] = [CopyOf(disk[r], index[r]) EXCEPT !["kernel"] = registry[r]]]
  /\ UNCHANGED <<crossDevice, registry, index, misfiled, disk, ref, tmp, mover, restarts>>

\* The fast path, under the read lock.  A missing file makes it a miss, any
\* other error (a root file system that cannot be unpacked) ends Retrieve.
RetrieveFromCache(c) ==
  LET r == ref[c] IN
  /\ pc[c] = "idle"
  /\ ~WriteLocked
  /\ \/ /\ index[r] # NoDir => Misses(disk[r], index[r])
        /\ pc' = [pc EXCEPT ![c] = "fetch"]
        /\ UNCHANGED dst
     \/ /\ index[r] # NoDir
        /\ ~Misses(disk[r], index[r])
        /\ disk[r]["rootfs"] # "cut"
        /\ pc' = [pc EXCEPT ![c] = "ok"]
        /\ dst' = [dst EXCEPT ![c] = CopyOf(disk[r], index[r])]
     \/ /\ index[r] # NoDir
        /\ pc' = [pc EXCEPT ![c] = "error"]
        /\ UNCHANGED dst
  /\ UNCHANGED <<crossDevice, registry, index, misfiled, disk, ref, tmp, mover, restarts>>

\* A temporary directory is made.
RetrieveTempDir(c) ==
  /\ pc[c] = "fetch"
  /\ \/ pc' = [pc EXCEPT ![c] = "source"] /\ tmp' = [tmp EXCEPT ![c] = Empty]
     \/ pc' = [pc EXCEPT ![c] = "error"] /\ UNCHANGED tmp
  /\ UNCHANGED <<crossDevice, registry, index, misfiled, disk, ref, dst, mover, restarts>>

\* The source writes the version that is there into it, or fails.
RetrieveFromSource(c) ==
  /\ pc[c] = "source"
  /\ \/ pc' = [pc EXCEPT ![c] = "deliver"] /\ tmp' = [tmp EXCEPT ![c] = FilesOf(registry[ref[c]])]
     \/ pc' = [pc EXCEPT ![c] = "drop"] /\ UNCHANGED tmp
  /\ UNCHANGED <<crossDevice, registry, index, misfiled, disk, ref, dst, mover, restarts>>

\* The mutation of RetrieveDeliver: when it fails the temporary directory stays.
RetrieveDeliverLittering(c) ==
  /\ pc[c] = "deliver"
  /\ pc' = [pc EXCEPT ![c] = "error"]
  /\ UNCHANGED <<crossDevice, registry, index, misfiled, disk, ref, tmp, dst, mover, restarts>>

\* The files are checked, delivered and handed to a goroutine for the cache; or
\* the check or the copy fails.
RetrieveDeliver(c) ==
  /\ pc[c] = "deliver"
  /\ \/ /\ pc' = [pc EXCEPT ![c] = "ok"]
        /\ dst' = [dst EXCEPT ![c] = tmp[c]]
        /\ mover' = [mover EXCEPT ![c] = "lock"]
     \/ pc' = [pc EXCEPT ![c] = "drop"] /\ UNCHANGED <<dst, mover>>
  /\ UNCHANGED <<crossDevice, registry, index, misfiled, disk, ref, tmp, restarts>>

\* The mutation of RetrieveDrop: Retrieve begins again.
RetrieveDropRetries(c) ==
  /\ pc[c] = "drop"
  /\ pc' = [pc EXCEPT ![c] = "idle"]
  /\ tmp' = [tmp EXCEPT ![c] = NoDir]
  /\ UNCHANGED <<crossDevice, registry, index, misfiled, disk, ref, dst, mover, restarts>>

\* A fetch that failed: its temporary directory is removed and the error returned.
RetrieveDrop(c) ==
  /\ pc[c] = "drop"
  /\ pc' = [pc EXCEPT ![c] = "error"]
  /\ tmp' = [tmp EXCEPT ![c] = NoDir]
  /\ UNCHANGED <<crossDevice, registry, index, misfiled, disk, ref, dst, mover, restarts>>

-------------------------------------------------------------------------------
(* moveIntoCache *)

\* The directory that the image is to replace is removed first.
MoveLock(c) ==
  /\ mover[c] = "lock"
  /\ ~WriteLocked
  /\ disk' = [disk EXCEPT ![ref[c]] = NoDir]
  /\ mover' = [mover EXCEPT ![c] = "move"]
  /\ UNCHANGED <<crossDevice, registry, index, misfiled, ref, pc, tmp, dst, restarts>>

\* The mutation of EnterIntoIndex: the kernel is entered instead of the image.
EnterKernel(c) ==
  /\ index' = [index EXCEPT ![ref[c]] = tmp[c]["kernel"]]
  /\ UNCHANGED misfiled

\* The image is entered into the index, under the key CreateImageFromDir made
\* of its directory: at that time the temporary directory.
EnterIntoIndex(c) ==
  /\ misfiled' = misfiled \cup {c}
  /\ UNCHANGED index

MoveRename(c) ==
  /\ mover[c] = "move"
  /\ ~crossDevice
  /\ \/ /\ mover' = [mover EXCEPT ![c] = "done"]
        /\ disk' = [disk EXCEPT ![ref[c]] = tmp[c]]
        /\ EnterIntoIndex(c)
     \/ /\ mover' = [mover EXCEPT ![c] = "failed"]
        /\ UNCHANGED <<disk, index, misfiled>>
  /\ tmp' = [tmp EXCEPT ![c] = NoDir]
  /\ UNCHANGED <<crossDevice, registry, ref, pc, dst, restarts>>

\* A rename across file systems fails; CopyDir begins with an empty directory.
MoveCopyDir(c) ==
  /\ mover[c] = "move"
  /\ crossDevice
  /\ disk' = [disk EXCEPT ![ref[c]] = Empty]
  /\ mover' = [mover EXCEPT ![c] = "copy"]
  /\ UNCHANGED <<crossDevice, registry, index, misfiled, ref, pc, tmp, dst, restarts>>

\* The file that CopyDir is at: it goes through them by name.
ToCopy(c) == {f \in Files : tmp[c][f] # disk[ref[c]][f]}
NextFile(c) ==
  CHOOSE f \in ToCopy(c) :
    CASE f = "initrd" -> TRUE
      [] f = "kernel" -> "initrd" \notin ToCopy(c)
      [] f = "rootfs" -> ToCopy(c) = {"rootfs"}

\* A file is opened, which leaves it cut, and then filled.
MoveCopyFile(c) ==
  /\ mover[c] = "copy"
  /\ ToCopy(c) # {}
  /\ disk' = [disk EXCEPT ![ref[c]][NextFile(c)] = IF @ = "cut" THEN tmp[c][NextFile(c)] ELSE "cut"]
  /\ UNCHANGED <<crossDevice, registry, index, misfiled, callVars, restarts>>

\* Either all files are copied or one of them fails; what was copied stays.
MoveCopyEnd(c) ==
  /\ mover[c] = "copy"
  /\ \/ /\ ToCopy(c) = {}
        /\ mover' = [mover EXCEPT ![c] = "done"]
        /\ EnterIntoIndex(c)
     \/ /\ ToCopy(c) # {}
        /\ mover' = [mover EXCEPT ![c] = "failed"]
        /\ UNCHANGED <<index, misfiled>>
  /\ tmp' = [tmp EXCEPT ![c] = NoDir]
  /\ UNCHANGED <<crossDevice, registry, disk, ref, pc, dst, restarts>>

-------------------------------------------------------------------------------
(* The surroundings: a restart of the engine, the registry, the disk *)

\* NewStore indexes the directories that look complete and removes the others.
NewStore ==
  /\ disk' = [r \in Refs |-> IF Acceptable(disk[r]) THEN disk[r] ELSE NoDir]
  /\ \E initrd \in [Refs -> BOOLEAN] :
       /\ \A r \in Refs : Acceptable(disk[r]) => initrd[r] \in HasInitrd(disk[r])
       /\ index' = [r \in Refs |-> IF Acceptable(disk[r]) THEN initrd[r] ELSE NoDir]

\* The engine ends at any point and starts again; calls and goroutines are gone
\* and leave their temporary directories behind.
Restart ==
  /\ restarts < MaxRestarts
  /\ restarts' = restarts + 1
  /\ NewStore
  /\ misfiled' = {}
  /\ pc' = [c \in Calls |-> IF pc[c] \in Fetching THEN "lost" ELSE pc[c]]
  /\ mover' = [c \in Calls |-> IF mover[c] \in {"lock", "move", "copy"} THEN "failed" ELSE mover[c]]
  /\ UNCHANGED <<crossDevice, registry, ref, tmp, dst>>

\* A new image is pushed under the reference.
Push(r, v) ==
  /\ registry' = [registry EXCEPT ![r] = v]
  /\ UNCHANGED <<crossDevice, index, misfiled, disk, callVars, restarts>>

\* Somebody deletes a file of the cache.
DeleteFile(r, f) ==
  /\ ~WriteLocked
  /\ disk[r] # NoDir
  /\ disk' = [disk EXCEPT ![r][f] = "absent"]
  /\ UNCHANGED <<crossDevice, registry, index, misfiled, callVars, restarts>>

-------------------------------------------------------------------------------
Serve(c) ==
  \/ RetrieveFromCache(c) \/ RetrieveTempDir(c) \/ RetrieveFromSource(c)
  \/ RetrieveDeliver(c) \/ RetrieveDrop(c)

Move(c) ==
  MoveLock(c) \/ MoveRename(c) \/ MoveCopyDir(c) \/ MoveCopyFile(c) \/ MoveCopyEnd(c)

Next ==
  \/ \E c \in Calls : Serve(c) \/ Move(c)
  \/ Restart
  \/ \E r \in Refs : (\E v \in Versions : Push(r, v)) \/ (\E f \in Files : DeleteFile(r, f))

\* A Retrieve that was called and a goroutine that was started go on; the fetch,
\* which has no timeout of its own, is taken to end as the registry does answer
\* or the connection breaks.  The read
\* lock is granted in the end, as a waiting reader is not passed by for ever.
Fairness == \A c \in Calls : SF_vars(Serve(c)) /\ SF_vars(Move(c))

Spec == Init /\ [][Next]_vars /\ Fairness

-------------------------------------------------------------------------------
(* Properties *)

\* The files that Retrieve delivers are those of one version, the root file
\* system and the kernel among them, whatever is pushed, deleted, moved or
\* interrupted meanwhile.  Within one file system no file is cut short; across
\* two, an interrupted copy into the cache can pass on a cut kernel or initrd.
\* The directories of the cache do not mix versions either, also when two fetches
\* of an image end in any order.
FilesOfOneVersion ==
  /\ \A c \in Calls : pc[c] = "ok" =>
       LET partial == IF crossDevice THEN {"cut"} ELSE {} IN
       \E v \in Versions :
         /\ dst[c]["rootfs"] = v
         /\ dst[c]["kernel"] \in {v} \cup partial
         /\ dst[c]["initrd"] \in {FilesOf(v)["initrd"], "absent"} \cup partial
  /\ \A r \in Refs : disk[r] # NoDir =>
       \E v \in Versions : \A f \in Files : disk[r][f] \in {FilesOf(v)[f], "absent", "cut"}

\* Temporary directories are removed on every path: one is left only while its
\* call or its goroutine is under way, or when the engine ended meanwhile.
NoTemporaryLeft ==
  \A c \in Calls :
    tmp[c] # NoDir =>
      \/ pc[c] \in {"source", "deliver", "drop"}
      \/ mover[c] \in {"lock", "move", "copy"}
      \/ restarts > 0

\* Every Retrieve ends and every fetched image is dealt with, although readers
\* and writers of the cache wait for one another.
EveryRetrieveEnds ==
  \A c \in Calls :
    <>(pc[c] \notin Fetching \cup {"idle"} /\ mover[c] \notin {"lock", "move", "copy"})

\* An image that was moved into the cache, and that nobody damaged or replaced
\* since, is found there by the next Retrieve of it.
CachedUnderKey ==
  \A c \in Calls :
    mover[c] = "done" /\ restarts = 0 /\ disk[ref[c]] \in {FilesOf(v) : v \in Versions} /\ ~WriteLocked
      => index[ref[c]] # NoDir
===============================================================================
