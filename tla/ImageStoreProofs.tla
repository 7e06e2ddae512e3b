--------------------------- MODULE ImageStoreProofs ---------------------------
(***************************************************************************)
(* Proofs of the safety properties of ImageStore, for any references,        *)
(* versions, calls of Retrieve and restarts of the engine.                   *)
(***************************************************************************)
EXTENDS ImageStore, TLAPS

-----------------------------------------------------------------------------
(* The inductive invariant *)

\* What is delivered, and what a goroutine moves, is a version as it was fetched.
Fetched ==
  \A c \in Calls :
    pc[c] = "deliver" \/ mover[c] \in {"lock", "move", "copy"} => \E v \in Versions : tmp[c] = FilesOf(v)

\* A call has no goroutine before it has delivered.
NotYetMoving ==
  \A c \in Calls : pc[c] \in Fetching \cup {"idle"} => mover[c] = "none"

\* The write lock has one holder.
OneWriter ==
  \A c, d \in Calls : mover[c] \in {"move", "copy"} /\ mover[d] \in {"move", "copy"} => c = d

\* While a goroutine copies, the directory in the cache has only files of what it
\* copies: it began empty and nobody else writes.
CopyUnderWay ==
  \A c \in Calls :
    mover[c] = "copy" =>
      /\ crossDevice
      /\ disk[ref[c]] # NoDir
      /\ \A f \in Files : disk[ref[c]][f] \in {tmp[c][f], "absent", "cut"}

\* Within one file system a directory appears in the cache by a rename, whole.
RenamedWhole ==
  ~crossDevice => \A r \in Refs : disk[r] # NoDir => \A f \in Files : disk[r][f] # "cut"

ImageInv ==
  /\ TypeOK /\ Fetched /\ NotYetMoving /\ OneWriter /\ CopyUnderWay /\ RenamedWhole
  /\ FilesOfOneVersion /\ NoTemporaryLeft

\* The two parts of FilesOfOneVersion, for one delivery and for one directory.
Delivered(d) ==
  LET partial == IF crossDevice THEN {"cut"} ELSE {} IN
  \E v \in Versions :
    /\ d["rootfs"] = v
    /\ d["kernel"] \in {v} \cup partial
    /\ d["initrd"] \in {FilesOf(v)["initrd"], "absent"} \cup partial
OfOneVersion(d) ==
  \E v \in Versions : \A f \in Files : d[f] \in {FilesOf(v)[f], "absent", "cut"}

-----------------------------------------------------------------------------
(* Facts about directories *)

\* What is made of a version is a directory with whole files, of that version.
LEMMA FilesOfVersion ==
  ASSUME NEW v \in Versions
  PROVE  /\ FilesOf(v) \in [Files -> Contents] /\ FilesOf(v) \in Dirs /\ FilesOf(v) # NoDir
         /\ \A f \in Files : FilesOf(v)[f] # "cut"
         /\ FilesOf(v)["rootfs"] = v /\ FilesOf(v)["kernel"] = v
         /\ OfOneVersion(FilesOf(v)) /\ Delivered(FilesOf(v))
<1>1. FilesOf(v) \in [Files -> Contents]
  BY DEF FilesOf, Contents
<1>2. FilesOf(v) \in Dirs /\ FilesOf(v) # NoDir
  BY <1>1, NoDirAssumption DEF Dirs
<1>3. \A f \in Files : FilesOf(v)[f] # "cut"
  BY ImageAssumption DEF FilesOf
<1>4. FilesOf(v)["rootfs"] = v /\ FilesOf(v)["kernel"] = v
  BY DEF FilesOf, Files
<1>5. OfOneVersion(FilesOf(v)) /\ Delivered(FilesOf(v))
  BY <1>4 DEF OfOneVersion, Delivered
<1>6. QED
  BY <1>1, <1>2, <1>3, <1>4, <1>5

\* FilesOfOneVersion says this of every delivery and every directory.
LEMMA OneVersionParts ==
  /\ FilesOfOneVersion <=> /\ \A c \in Calls : pc[c] = "ok" => Delivered(dst[c])
                           /\ \A r \in Refs : disk[r] # NoDir => OfOneVersion(disk[r])
  /\ FilesOfOneVersion' <=> /\ \A c \in Calls : pc'[c] = "ok" => Delivered(dst[c])'
                            /\ \A r \in Refs : disk'[r] # NoDir => OfOneVersion(disk'[r])
  BY DEF FilesOfOneVersion, Delivered, OfOneVersion

\* A copy out of the cache that misses nothing is of one version.
LEMMA CopyDelivered ==
  ASSUME NEW d \in [Files -> Contents], NEW initrd \in BOOLEAN, d # NoDir,
         OfOneVersion(d), ~crossDevice => \A f \in Files : d[f] # "cut",
         ~Misses(d, initrd), d["rootfs"] # "cut"
  PROVE  CopyOf(d, initrd) \in Dirs /\ Delivered(CopyOf(d, initrd))
<1>1. PICK v \in Versions : \A f \in Files : d[f] \in {FilesOf(v)[f], "absent", "cut"}
  BY DEF OfOneVersion
<1>2. {"rootfs", "kernel", "initrd"} = Files
  BY DEF Files
<1>3. d["rootfs"] # "absent" /\ d["kernel"] # "absent"
  BY DEF Misses
<1>4. d["rootfs"] = v /\ d["kernel"] \in {v, "cut"}
  BY <1>1, <1>2, <1>3, FilesOfVersion
<1>5. d["initrd"] \in {FilesOf(v)["initrd"], "absent", "cut"}
  BY <1>1, <1>2
<1>6. ~crossDevice => d["kernel"] # "cut" /\ d["initrd"] # "cut"
  BY <1>2
<1>7. /\ CopyOf(d, initrd) \in [Files -> Contents]
      /\ CopyOf(d, initrd)["rootfs"] = d["rootfs"] /\ CopyOf(d, initrd)["kernel"] = d["kernel"]
      /\ CopyOf(d, initrd)["initrd"] \in {d["initrd"], "absent"}
  BY DEF CopyOf, Files, Contents
<1>8. Delivered(CopyOf(d, initrd))
  <2>1. CopyOf(d, initrd)["kernel"] \in {v} \cup (IF crossDevice THEN {"cut"} ELSE {})
    BY <1>4, <1>6, <1>7
  <2>2. CopyOf(d, initrd)["initrd"]
          \in {FilesOf(v)["initrd"], "absent"} \cup (IF crossDevice THEN {"cut"} ELSE {})
    BY <1>5, <1>6, <1>7
  <2>3. QED
    BY <1>4, <1>7, <2>1, <2>2 DEF Delivered
<1>9. QED
  BY <1>7, <1>8 DEF Dirs

\* CopyDir goes on with one of the files it has left.
LEMMA NextToCopy ==
  ASSUME NEW c \in Calls, ToCopy(c) # {}
  PROVE  NextFile(c) \in ToCopy(c) /\ NextFile(c) \in Files
<1> DEFINE Turn(f) == CASE f = "initrd" -> TRUE
                        [] f = "kernel" -> "initrd" \notin ToCopy(c)
                        [] f = "rootfs" -> ToCopy(c) = {"rootfs"}
<1>1. ToCopy(c) \subseteq {"initrd", "kernel", "rootfs"} /\ ToCopy(c) \subseteq Files
  BY DEF ToCopy, Files
<1>2. \E f \in ToCopy(c) : Turn(f)
  <2>1. CASE "initrd" \in ToCopy(c)
    BY <2>1
  <2>2. CASE "initrd" \notin ToCopy(c) /\ "kernel" \in ToCopy(c)
    <3>1. Turn("kernel")
      BY <2>2
    <3>2. QED
      BY <2>2, <3>1
  <2>3. CASE "initrd" \notin ToCopy(c) /\ "kernel" \notin ToCopy(c)
    <3>1. ToCopy(c) = {"rootfs"}
      BY <1>1, <2>3
    <3>2. Turn("rootfs")
      BY <3>1
    <3>3. QED
      BY <3>1, <3>2
  <2>4. QED
    BY <2>1, <2>2, <2>3
<1>3. NextFile(c) \in ToCopy(c)
  BY <1>2 DEF NextFile
<1>4. QED
  BY <1>1, <1>3

-----------------------------------------------------------------------------
(* Type correctness *)

\* The steps of Retrieve keep the types.
LEMMA ServeTyped ==
  ASSUME ImageInv, NEW c \in Calls, Serve(c)
  PROVE  TypeOK'
<1> USE DEF ImageInv
<1>0. registry[ref[c]] \in Versions /\ ref[c] \in Refs
  BY DEF TypeOK
<1>1. CASE RetrieveFromCache(c)
  <2>1. \/ UNCHANGED dst
        \/ /\ index[ref[c]] # NoDir /\ ~Misses(disk[ref[c]], index[ref[c]])
           /\ disk[ref[c]]["rootfs"] # "cut"
           /\ dst' = [dst EXCEPT ![c] = CopyOf(disk[ref[c]], index[ref[c]])]
    BY <1>1 DEF RetrieveFromCache
  <2>2. dst' \in [Calls -> Dirs]
    <3>1. ASSUME index[ref[c]] # NoDir, ~Misses(disk[ref[c]], index[ref[c]]),
                 disk[ref[c]]["rootfs"] # "cut"
          PROVE  CopyOf(disk[ref[c]], index[ref[c]]) \in Dirs
      <4>1. index[ref[c]] \in BOOLEAN
        BY <1>0, <3>1, Zenon DEF TypeOK
      <4>2. disk[ref[c]] \in [Files -> Contents] /\ disk[ref[c]] # NoDir
        BY <1>0, <3>1 DEF Misses, TypeOK, Dirs
      <4>3. OfOneVersion(disk[ref[c]])
        BY <1>0, <4>2, OneVersionParts
      <4>4. ~crossDevice => \A f \in Files : disk[ref[c]][f] # "cut"
        BY <1>0, <4>2 DEF RenamedWhole
      <4>5. QED
        BY <3>1, <4>1, <4>2, <4>3, <4>4, CopyDelivered
    <3>2. QED
      BY <2>1, <3>1 DEF TypeOK
  <2>3. \E p \in {"fetch", "ok", "error"} : pc' = [pc EXCEPT ![c] = p]
    BY <1>1 DEF RetrieveFromCache
  <2>4. pc' \in [Calls -> Fetching \cup {"idle", "ok", "error", "lost"}]
    BY <2>3 DEF TypeOK, Fetching
  <2>5. UNCHANGED <<crossDevice, registry, index, misfiled, disk, ref, tmp, mover, restarts>>
    BY <1>1 DEF RetrieveFromCache
  <2>6. QED
    BY <2>2, <2>4, <2>5 DEF TypeOK
<1>2. CASE RetrieveTempDir(c) \/ RetrieveDrop(c)
  <2>1. Empty \in Dirs /\ NoDir \in Dirs
    BY DEF Empty, Dirs, Contents
  <2>2. QED
    BY <1>2, <2>1 DEF RetrieveTempDir, RetrieveDrop, TypeOK, Fetching
<1>3. CASE RetrieveFromSource(c)
  <2>1. FilesOf(registry[ref[c]]) \in Dirs
    BY <1>0, FilesOfVersion
  <2>2. QED
    BY <1>3, <2>1 DEF RetrieveFromSource, TypeOK, Fetching
<1>4. CASE RetrieveDeliver(c)
  BY <1>4 DEF RetrieveDeliver, TypeOK, Fetching
<1>5. QED
  BY <1>1, <1>2, <1>3, <1>4 DEF Serve

\* A move writes only directories: what it moves, an empty one, or one more file.
LEMMA MoveDisk ==
  ASSUME ImageInv, NEW c \in Calls, Move(c)
  PROVE  \/ UNCHANGED disk
         \/ \E d \in Dirs : disk' = [disk EXCEPT ![ref[c]] = d]
<1> USE DEF ImageInv, callVars
<1>1. CASE MoveLock(c)
  BY <1>1 DEF MoveLock, Dirs
<1>2. CASE MoveRename(c)
  BY <1>2 DEF MoveRename, TypeOK
<1>3. CASE MoveCopyDir(c)
  <2>1. Empty \in Dirs
    BY DEF Empty, Dirs, Contents
  <2>2. QED
    BY <1>3, <2>1 DEF MoveCopyDir
<1>4. CASE MoveCopyFile(c)
  <2>1. PICK f \in Files : disk' = [disk EXCEPT ![ref[c]][f] = IF @ = "cut" THEN tmp[c][f] ELSE "cut"]
    BY <1>4, NextToCopy DEF MoveCopyFile
  <2>2. disk[ref[c]] \in [Files -> Contents]
    BY <1>4 DEF MoveCopyFile, CopyUnderWay, TypeOK, Dirs
  <2>3. PICK v \in Versions : tmp[c] = FilesOf(v)
    BY <1>4 DEF MoveCopyFile, Fetched
  <2>4. tmp[c] \in [Files -> Contents]
    BY <2>3, FilesOfVersion
  <2>5. PICK x \in Contents : disk' = [disk EXCEPT ![ref[c]] = [disk[ref[c]] EXCEPT ![f] = x]]
    <3>1. disk' = [disk EXCEPT ![ref[c]] = [disk[ref[c]] EXCEPT ![f] =
                     IF disk[ref[c]][f] = "cut" THEN tmp[c][f] ELSE "cut"]]
      BY <2>1
    <3>2. (IF disk[ref[c]][f] = "cut" THEN tmp[c][f] ELSE "cut") \in Contents
      BY <2>4 DEF Contents
    <3>3. QED
      BY <3>1, <3>2
  <2>6. [disk[ref[c]] EXCEPT ![f] = x] \in Dirs
    BY <2>2 DEF Dirs
  <2>7. QED
    BY <2>5, <2>6
<1>5. CASE MoveCopyEnd(c)
  BY <1>5 DEF MoveCopyEnd
<1>6. QED
  BY <1>1, <1>2, <1>3, <1>4, <1>5 DEF Move

\* The steps of a goroutine keep the types.
LEMMA MoveTyped ==
  ASSUME ImageInv, NEW c \in Calls, Move(c)
  PROVE  TypeOK'
<1> USE DEF ImageInv, callVars
<1>1. disk' \in [Refs -> Dirs]
  BY MoveDisk DEF TypeOK
<1>2. mover' \in [Calls -> {"none", "lock", "move", "copy", "done", "failed"}]
  <2>1. UNCHANGED mover \/ \E m \in {"move", "copy", "done", "failed"} : mover' = [mover EXCEPT ![c] = m]
    BY DEF Move, MoveLock, MoveRename, MoveCopyDir, MoveCopyFile, MoveCopyEnd
  <2>2. QED
    BY <2>1 DEF TypeOK
<1>3. tmp' \in [Calls -> Dirs]
  <2>1. UNCHANGED tmp \/ tmp' = [tmp EXCEPT ![c] = NoDir]
    BY DEF Move, MoveLock, MoveRename, MoveCopyDir, MoveCopyFile, MoveCopyEnd
  <2>2. QED
    BY <2>1 DEF TypeOK, Dirs
<1>4. UNCHANGED index /\ misfiled' \subseteq Calls
  BY DEF Move, MoveLock, MoveRename, MoveCopyDir, MoveCopyFile, MoveCopyEnd, EnterIntoIndex, TypeOK
<1>5. UNCHANGED <<crossDevice, registry, ref, pc, dst, restarts>>
  BY DEF Move, MoveLock, MoveRename, MoveCopyDir, MoveCopyFile, MoveCopyEnd
<1>6. QED
  BY <1>1, <1>2, <1>3, <1>4, <1>5 DEF TypeOK

\* The surroundings keep the types.
LEMMA SurroundingsTyped ==
  ASSUME ImageInv,
         \/ Restart
         \/ \E r \in Refs : (\E v \in Versions : Push(r, v)) \/ (\E f \in Files : DeleteFile(r, f))
  PROVE  TypeOK'
<1> USE DEF ImageInv, callVars
<1>1. CASE Restart
  <2>1. disk' \in [Refs -> Dirs]
    BY <1>1 DEF Restart, NewStore, TypeOK, Dirs
  <2>2. index' \in [Refs -> BOOLEAN \cup {NoDir}]
    <3>1. PICK initrd \in [Refs -> BOOLEAN] :
            index' = [r \in Refs |-> IF Acceptable(disk[r]) THEN initrd[r] ELSE NoDir]
      BY <1>1 DEF Restart, NewStore
    <3>2. QED
      BY <3>1
  <2>3. restarts' \in 0 .. MaxRestarts /\ misfiled' \subseteq Calls
    BY <1>1, ImageAssumption DEF Restart, TypeOK
  <2>4. pc' \in [Calls -> Fetching \cup {"idle", "ok", "error", "lost"}]
    BY <1>1 DEF Restart, TypeOK
  <2>5. mover' \in [Calls -> {"none", "lock", "move", "copy", "done", "failed"}]
    BY <1>1 DEF Restart, TypeOK
  <2>6. QED
    BY <1>1, <2>1, <2>2, <2>3, <2>4, <2>5 DEF Restart, TypeOK
<1>2. ASSUME NEW r \in Refs, NEW v \in Versions, Push(r, v)
      PROVE  TypeOK'
  BY <1>2 DEF Push, TypeOK
<1>3. ASSUME NEW r \in Refs, NEW f \in Files, DeleteFile(r, f)
      PROVE  TypeOK'
  <2>1. disk[r] \in [Files -> Contents]
    BY <1>3 DEF DeleteFile, TypeOK, Dirs
  <2>2. disk' = [disk EXCEPT ![r] = [disk[r] EXCEPT ![f] = "absent"]]
    BY <1>3 DEF DeleteFile
  <2>3. [disk[r] EXCEPT ![f] = "absent"] \in Dirs
    BY <2>1 DEF Dirs, Contents
  <2>4. disk' \in [Refs -> Dirs]
    BY <2>2, <2>3 DEF TypeOK
  <2>5. QED
    BY <1>3, <2>4 DEF DeleteFile, TypeOK
<1>4. QED
  BY <1>1, <1>2, <1>3

-----------------------------------------------------------------------------
(* The steps of Retrieve *)

\* A copy out of the cache delivers files of one version.
LEMMA FromCacheStep ==
  ASSUME ImageInv, NEW c \in Calls, RetrieveFromCache(c)
  PROVE  ImageInv'
<1> USE DEF ImageInv
<1>1. UNCHANGED <<crossDevice, registry, index, misfiled, disk, ref, tmp, mover, restarts>>
  BY DEF RetrieveFromCache
<1>2. TypeOK'
  BY ServeTyped DEF Serve
<1>4. /\ \A d \in Calls \ {c} : pc'[d] = pc[d] /\ dst'[d] = dst[d]
      /\ pc[c] = "idle" /\ pc'[c] \in {"fetch", "ok", "error"}
  BY DEF RetrieveFromCache, TypeOK
<1>3. Fetched' /\ NotYetMoving' /\ OneWriter' /\ CopyUnderWay' /\ RenamedWhole' /\ NoTemporaryLeft'
  BY <1>1, <1>4 DEF Fetched, NotYetMoving, OneWriter, CopyUnderWay, RenamedWhole, NoTemporaryLeft,
       Fetching
<1>5. ASSUME pc'[c] = "ok"
      PROVE  Delivered(dst'[c])
  <2>1. /\ index[ref[c]] # NoDir /\ ~Misses(disk[ref[c]], index[ref[c]])
        /\ disk[ref[c]]["rootfs"] # "cut"
        /\ dst' = [dst EXCEPT ![c] = CopyOf(disk[ref[c]], index[ref[c]])]
    BY <1>5 DEF RetrieveFromCache, TypeOK
  <2>2. ref[c] \in Refs
    BY DEF TypeOK
  <2>3. index[ref[c]] \in BOOLEAN
    BY <2>1, <2>2, Zenon DEF TypeOK
  <2>4. disk[ref[c]] \in [Files -> Contents] /\ disk[ref[c]] # NoDir
    BY <2>1, <2>2 DEF Misses, TypeOK, Dirs
  <2>5. OfOneVersion(disk[ref[c]])
    BY <2>2, <2>4, OneVersionParts
  <2>6. ~crossDevice => \A f \in Files : disk[ref[c]][f] # "cut"
    BY <2>2, <2>4 DEF RenamedWhole
  <2>7. Delivered(CopyOf(disk[ref[c]], index[ref[c]]))
    BY <2>1, <2>3, <2>4, <2>5, <2>6, CopyDelivered
  <2>8. dst'[c] = CopyOf(disk[ref[c]], index[ref[c]])
    BY <2>1 DEF TypeOK
  <2>9. QED
    BY <2>7, <2>8
<1>6. \A d \in Calls : pc'[d] = "ok" => Delivered(dst[d])'
  <2>1. \A d \in Calls : pc'[d] = "ok" => Delivered(dst'[d])
    BY <1>4, <1>5, OneVersionParts
  <2>2. QED
    BY <1>1, <2>1 DEF Delivered
<1>7. FilesOfOneVersion'
  BY <1>1, <1>6, OneVersionParts
<1>8. QED
  BY <1>2, <1>3, <1>7

\* A call that fetches, or gives up fetching, changes its own directory only.
LEMMA FetchStep ==
  ASSUME ImageInv, NEW c \in Calls,
         RetrieveTempDir(c) \/ RetrieveFromSource(c) \/ RetrieveDrop(c)
  PROVE  ImageInv'
<1> USE DEF ImageInv
<1>1. UNCHANGED <<crossDevice, registry, index, misfiled, disk, ref, dst, mover, restarts>>
  BY DEF RetrieveTempDir, RetrieveFromSource, RetrieveDrop
<1>2. /\ \A d \in Calls \ {c} : pc'[d] = pc[d] /\ tmp'[d] = tmp[d]
      /\ pc[c] \in {"fetch", "source", "drop"} /\ pc'[c] \in {"source", "deliver", "drop", "error"}
      /\ pc'[c] = "deliver" => tmp'[c] = FilesOf(registry[ref[c]])
      /\ pc'[c] = "error" => tmp'[c] = NoDir \/ (pc[c] = "fetch" /\ tmp'[c] = tmp[c])
  BY DEF RetrieveTempDir, RetrieveFromSource, RetrieveDrop, TypeOK
<1>3. mover[c] = "none" /\ registry[ref[c]] \in Versions
  BY <1>2 DEF NotYetMoving, Fetching, TypeOK
<1>4. TypeOK'
  BY ServeTyped DEF Serve
<1>5. Fetched' /\ NotYetMoving'
  BY <1>1, <1>2, <1>3 DEF Fetched, NotYetMoving, Fetching
<1>6. OneWriter' /\ CopyUnderWay' /\ RenamedWhole'
  BY <1>1, <1>2, <1>3 DEF OneWriter, CopyUnderWay, RenamedWhole
<1>7. NoTemporaryLeft'
  BY <1>1, <1>2, <1>3 DEF NoTemporaryLeft, Fetching
<1>8. FilesOfOneVersion'
  <2>1. \A d \in Calls : pc'[d] = "ok" => pc[d] = "ok"
    BY <1>2
  <2>2. QED
    BY <1>1, <2>1, OneVersionParts DEF Delivered
<1>9. QED
  BY <1>4, <1>5, <1>6, <1>7, <1>8

\* A fetched image is delivered whole, and handed to its goroutine.
LEMMA DeliverStep ==
  ASSUME ImageInv, NEW c \in Calls, RetrieveDeliver(c)
  PROVE  ImageInv'
<1> USE DEF ImageInv
<1>1. UNCHANGED <<crossDevice, registry, index, misfiled, disk, ref, tmp, restarts>> /\ pc[c] = "deliver"
  BY DEF RetrieveDeliver
<1>2. /\ \A d \in Calls \ {c} : dst'[d] = dst[d] /\ mover'[d] = mover[d] /\ pc'[d] = pc[d]
      /\ \/ pc'[c] = "ok" /\ dst'[c] = tmp[c] /\ mover'[c] = "lock"
         \/ pc'[c] = "drop" /\ dst'[c] = dst[c] /\ mover'[c] = mover[c]
  BY DEF RetrieveDeliver, TypeOK
<1>3. PICK v \in Versions : tmp[c] = FilesOf(v)
  BY <1>1 DEF Fetched
<1>4. TypeOK'
  BY ServeTyped DEF Serve
<1>5. Fetched' /\ NotYetMoving'
  BY <1>1, <1>2, <1>3 DEF Fetched, NotYetMoving, Fetching
<1>6. OneWriter' /\ CopyUnderWay' /\ RenamedWhole'
  BY <1>1, <1>2 DEF OneWriter, CopyUnderWay, RenamedWhole
<1>7. NoTemporaryLeft'
  BY <1>1, <1>2 DEF NoTemporaryLeft, Fetching
<1>8. FilesOfOneVersion'
  <2>1. Delivered(tmp[c])
    BY <1>3, FilesOfVersion
  <2>2. \A d \in Calls : pc'[d] = "ok" => Delivered(dst'[d])
    BY <1>2, <2>1, OneVersionParts
  <2>3. \A d \in Calls : pc'[d] = "ok" => Delivered(dst[d])'
    BY <1>1, <2>2 DEF Delivered
  <2>4. QED
    BY <1>1, <2>3, OneVersionParts
<1>9. QED
  BY <1>4, <1>5, <1>6, <1>7, <1>8

-----------------------------------------------------------------------------
(* The steps of moveIntoCache *)

\* A step of a goroutine leaves every delivery alone, and the other goroutines, none
\* of which has the write lock.
LEMMA MoveLocal ==
  ASSUME ImageInv, NEW c \in Calls, Move(c)
  PROVE  /\ UNCHANGED <<crossDevice, registry, ref, pc, dst, restarts>>
         /\ \A d \in Calls \ {c} : mover'[d] = mover[d] /\ tmp'[d] = tmp[d]
         /\ \A r \in Refs \ {ref[c]} : disk'[r] = disk[r]
         /\ \A d \in Calls \ {c} : mover[d] \notin {"move", "copy"}
<1> USE DEF ImageInv, callVars
<1>1. UNCHANGED <<crossDevice, registry, ref, pc, dst, restarts>>
  BY DEF Move, MoveLock, MoveRename, MoveCopyDir, MoveCopyFile, MoveCopyEnd
<1>2. \A d \in Calls \ {c} : mover'[d] = mover[d]
  <2>1. UNCHANGED mover \/ \E m \in {"move", "copy", "done", "failed"} : mover' = [mover EXCEPT ![c] = m]
    BY DEF Move, MoveLock, MoveRename, MoveCopyDir, MoveCopyFile, MoveCopyEnd
  <2>2. QED
    BY <2>1 DEF TypeOK
<1>3. \A d \in Calls \ {c} : tmp'[d] = tmp[d]
  <2>1. UNCHANGED tmp \/ tmp' = [tmp EXCEPT ![c] = NoDir]
    BY DEF Move, MoveLock, MoveRename, MoveCopyDir, MoveCopyFile, MoveCopyEnd
  <2>2. QED
    BY <2>1 DEF TypeOK
<1>4. \A r \in Refs \ {ref[c]} : disk'[r] = disk[r]
  BY MoveDisk DEF TypeOK
<1>5. \A d \in Calls \ {c} : mover[d] \notin {"move", "copy"}
  <2>1. ~WriteLocked \/ mover[c] \in {"move", "copy"}
    BY DEF Move, MoveLock, MoveRename, MoveCopyDir, MoveCopyFile, MoveCopyEnd
  <2>2. QED
    BY <2>1 DEF WriteLocked, OneWriter
<1>6. QED
  BY <1>1, <1>2, <1>3, <1>4, <1>5

\* A step of a goroutine keeps the invariant if the directory it writes is fit.
LEMMA MoveFits ==
  ASSUME ImageInv, NEW c \in Calls, Move(c),
         mover'[c] \in {"lock", "move", "copy"} => tmp'[c] = tmp[c] /\ mover[c] \in {"lock", "move", "copy"},
         mover[c] # "none" /\ mover'[c] # "none",
         tmp'[c] # NoDir => tmp'[c] = tmp[c] /\ mover'[c] \in {"lock", "move", "copy"},
         mover'[c] = "copy" =>
           /\ crossDevice /\ disk'[ref[c]] # NoDir
           /\ \A f \in Files : disk'[ref[c]][f] \in {tmp'[c][f], "absent", "cut"},
         disk'[ref[c]] # NoDir =>
           /\ OfOneVersion(disk'[ref[c]])
           /\ ~crossDevice => \A f \in Files : disk'[ref[c]][f] # "cut"
  PROVE  ImageInv'
<1> USE DEF ImageInv
<1>1. /\ UNCHANGED <<crossDevice, ref, pc, dst, restarts>>
      /\ \A d \in Calls \ {c} : mover'[d] = mover[d] /\ tmp'[d] = tmp[d]
      /\ \A r \in Refs \ {ref[c]} : disk'[r] = disk[r]
      /\ \A d \in Calls \ {c} : mover[d] \notin {"move", "copy"}
  BY MoveLocal
<1>2. TypeOK'
  BY MoveTyped
<1>3. Fetched' /\ NotYetMoving'
  BY <1>1 DEF Fetched, NotYetMoving, Fetching
<1>5. OneWriter'
  BY <1>1 DEF OneWriter
<1>6. CopyUnderWay'
  BY <1>1 DEF CopyUnderWay
<1>7. RenamedWhole'
  BY <1>1 DEF RenamedWhole
<1>8. FilesOfOneVersion'
  <2>1. \A d \in Calls : pc'[d] = "ok" => Delivered(dst[d])'
    BY <1>1, OneVersionParts DEF Delivered
  <2>2. \A r \in Refs : disk'[r] # NoDir => OfOneVersion(disk'[r])
    BY <1>1, OneVersionParts
  <2>3. QED
    BY <2>1, <2>2, OneVersionParts
<1>9. NoTemporaryLeft'
  BY <1>1 DEF NoTemporaryLeft
<1>10. QED
  BY <1>2, <1>3, <1>5, <1>6, <1>7, <1>8, <1>9

\* The steps of a goroutine keep the invariant.
LEMMA MoveStep ==
  ASSUME ImageInv, NEW c \in Calls, Move(c)
  PROVE  ImageInv'
<1> USE DEF ImageInv, callVars
<1>0. ref[c] \in Refs
  BY DEF TypeOK
<1>1. CASE MoveLock(c)
  <2>1. /\ disk'[ref[c]] = NoDir /\ mover'[c] = "move" /\ mover[c] = "lock" /\ tmp' = tmp
    BY <1>0, <1>1 DEF MoveLock, TypeOK
  <2>2. QED
    BY <2>1, MoveFits
<1>2. CASE MoveRename(c)
  <2>1. /\ tmp'[c] = NoDir /\ mover'[c] \in {"done", "failed"} /\ ~crossDevice /\ mover[c] = "move"
        /\ disk'[ref[c]] \in {tmp[c], disk[ref[c]]}
    BY <1>0, <1>2 DEF MoveRename, TypeOK
  <2>2. PICK v \in Versions : tmp[c] = FilesOf(v)
    BY <1>2 DEF MoveRename, Fetched
  <2>3. disk'[ref[c]] # NoDir => OfOneVersion(disk'[ref[c]])
    BY <1>0, <2>1, <2>2, FilesOfVersion, OneVersionParts
  <2>4. disk'[ref[c]] # NoDir => \A f \in Files : disk'[ref[c]][f] # "cut"
    BY <1>0, <2>1, <2>2, FilesOfVersion DEF RenamedWhole
  <2>5. QED
    BY <2>1, <2>3, <2>4, MoveFits
<1>3. CASE MoveCopyDir(c)
  <2>1. /\ disk'[ref[c]] = Empty /\ mover'[c] = "copy" /\ mover[c] = "move" /\ tmp' = tmp
        /\ crossDevice
    BY <1>0, <1>3 DEF MoveCopyDir, TypeOK
  <2>2. \A f \in Files : Empty[f] = "absent"
    BY DEF Empty
  <2>3. Empty # NoDir
    BY NoDirAssumption DEF Empty, Contents
  <2>4. PICK v \in Versions : tmp[c] = FilesOf(v)
    BY <2>1 DEF Fetched
  <2>5. OfOneVersion(Empty)
    BY <2>2, <2>4 DEF OfOneVersion
  <2>6. QED
    BY <2>1, <2>2, <2>3, <2>5, MoveFits
<1>4. CASE MoveCopyFile(c)
  <2>1. PICK f \in Files : disk' = [disk EXCEPT ![ref[c]][f] = IF @ = "cut" THEN tmp[c][f] ELSE "cut"]
    BY <1>4, NextToCopy DEF MoveCopyFile
  <2>2. mover' = mover /\ mover[c] = "copy" /\ tmp' = tmp
    BY <1>4 DEF MoveCopyFile
  <2>3. /\ crossDevice /\ disk[ref[c]] \in [Files -> Contents]
        /\ \A g \in Files : disk[ref[c]][g] \in {tmp[c][g], "absent", "cut"}
    BY <1>0, <2>2 DEF CopyUnderWay, TypeOK, Dirs
  <2>4. PICK v \in Versions : tmp[c] = FilesOf(v)
    BY <2>2 DEF Fetched
  <2>5. /\ disk'[ref[c]][f] \in {tmp[c][f], "cut"}
        /\ \A g \in Files \ {f} : disk'[ref[c]][g] = disk[ref[c]][g]
    BY <1>0, <2>1, <2>3 DEF TypeOK
  <2>6. \A g \in Files : disk'[ref[c]][g] \in {tmp[c][g], "absent", "cut"}
    BY <2>3, <2>5
  <2>7. OfOneVersion(disk'[ref[c]])
    BY <2>4, <2>6 DEF OfOneVersion
  <2>8. disk'[ref[c]] # NoDir
    <3>1. disk'[ref[c]] = [disk[ref[c]] EXCEPT ![f] = IF disk[ref[c]][f] = "cut" THEN tmp[c][f] ELSE "cut"]
      BY <1>0, <2>1 DEF TypeOK
    <3>2. tmp[c][f] \in Contents
      BY <2>4, FilesOfVersion
    <3>3. disk'[ref[c]] \in [Files -> Contents]
      BY <2>3, <3>1, <3>2 DEF Contents
    <3>4. QED
      BY <3>3, NoDirAssumption
  <2>9. QED
    BY <2>2, <2>3, <2>6, <2>7, <2>8, MoveFits
<1>5. CASE MoveCopyEnd(c)
  <2>1. /\ disk' = disk /\ tmp'[c] = NoDir /\ mover'[c] \in {"done", "failed"} /\ mover[c] = "copy"
    BY <1>5 DEF MoveCopyEnd, TypeOK
  <2>2. disk[ref[c]] # NoDir => OfOneVersion(disk[ref[c]])
    BY <1>0, OneVersionParts
  <2>3. crossDevice
    BY <2>1 DEF CopyUnderWay
  <2>4. QED
    BY <2>1, <2>2, <2>3, MoveFits
<1>6. QED
  BY <1>1, <1>2, <1>3, <1>4, <1>5 DEF Move

-----------------------------------------------------------------------------
(* The surroundings *)

\* A restart leaves directories that were there, and no goroutine.
LEMMA RestartStep ==
  ASSUME ImageInv, Restart
  PROVE  ImageInv'
<1> USE DEF ImageInv
<1>1. /\ \A c \in Calls : mover'[c] \notin {"lock", "move", "copy"}
      /\ \A c \in Calls : pc'[c] = "ok" => pc[c] = "ok"
      /\ \A r \in Refs : disk'[r] # NoDir => disk'[r] = disk[r]
      /\ UNCHANGED <<crossDevice, ref, tmp, dst>> /\ restarts' > 0
      /\ \A c \in Calls : pc'[c] \notin Fetching /\ (pc'[c] = "idle" => pc[c] = "idle")
      /\ \A c \in Calls : mover[c] = "none" => mover'[c] = "none"
  <2>1. \A c \in Calls : mover'[c] \notin {"lock", "move", "copy"}
    BY DEF Restart, TypeOK
  <2>2. \A c \in Calls : pc'[c] = "ok" => pc[c] = "ok"
    BY DEF Restart, TypeOK
  <2>3. \A r \in Refs : disk'[r] # NoDir => disk'[r] = disk[r]
    BY DEF Restart, NewStore
  <2>4. UNCHANGED <<crossDevice, ref, tmp, dst>> /\ restarts' > 0
    BY ImageAssumption DEF Restart, TypeOK
  <2>6. /\ \A c \in Calls : pc'[c] \notin Fetching /\ (pc'[c] = "idle" => pc[c] = "idle")
        /\ \A c \in Calls : mover[c] = "none" => mover'[c] = "none"
    BY DEF Restart, TypeOK, Fetching
  <2>5. QED
    BY <2>1, <2>2, <2>3, <2>4, <2>6
<1>2. TypeOK'
  BY SurroundingsTyped
<1>3. Fetched' /\ NotYetMoving' /\ OneWriter' /\ CopyUnderWay'
  BY <1>1 DEF Fetched, NotYetMoving, OneWriter, CopyUnderWay, Fetching
<1>4. RenamedWhole' /\ NoTemporaryLeft'
  BY <1>1 DEF RenamedWhole, NoTemporaryLeft
<1>5. FilesOfOneVersion'
  BY <1>1, OneVersionParts DEF Delivered
<1>6. QED
  BY <1>2, <1>3, <1>4, <1>5

\* A file is deleted, from a directory nobody writes.
LEMMA DeleteFileStep ==
  ASSUME ImageInv, NEW r \in Refs, NEW f \in Files, DeleteFile(r, f)
  PROVE  ImageInv'
<1> USE DEF ImageInv, callVars
<1>1. /\ UNCHANGED <<crossDevice, ref, pc, tmp, dst, mover, restarts>> /\ ~WriteLocked
      /\ disk[r] # NoDir
  BY DEF DeleteFile
<1>2. /\ \A q \in Refs \ {r} : disk'[q] = disk[q]
      /\ disk'[r][f] = "absent" /\ \A g \in Files \ {f} : disk'[r][g] = disk[r][g]
  <2>1. disk' = [disk EXCEPT ![r] = [disk[r] EXCEPT ![f] = "absent"]]
    BY DEF DeleteFile
  <2>2. disk[r] \in [Files -> Contents]
    BY <1>1 DEF TypeOK, Dirs
  <2>3. QED
    BY <2>1, <2>2 DEF TypeOK
<1>3. TypeOK'
  BY SurroundingsTyped
<1>4. Fetched' /\ NotYetMoving' /\ OneWriter' /\ CopyUnderWay' /\ NoTemporaryLeft'
  BY <1>1 DEF Fetched, NotYetMoving, OneWriter, CopyUnderWay, NoTemporaryLeft, WriteLocked
<1>5. RenamedWhole'
  BY <1>1, <1>2 DEF RenamedWhole
<1>6. FilesOfOneVersion'
  <2>1. OfOneVersion(disk[r])
    BY <1>1, OneVersionParts
  <2>2. OfOneVersion(disk'[r])
    BY <1>2, <2>1 DEF OfOneVersion
  <2>3. \A q \in Refs : disk'[q] # NoDir => OfOneVersion(disk'[q])
    BY <1>2, <2>2, OneVersionParts
  <2>4. \A d \in Calls : pc'[d] = "ok" => Delivered(dst[d])'
    BY <1>1, OneVersionParts DEF Delivered
  <2>5. QED
    BY <2>3, <2>4, OneVersionParts
<1>7. QED
  BY <1>3, <1>4, <1>5, <1>6

-----------------------------------------------------------------------------
(* The theorems *)

\* The initial states satisfy the invariant.
LEMMA ImageInit == Init => ImageInv
<1> SUFFICES ASSUME Init PROVE ImageInv
  OBVIOUS
<1>1. TypeOK
  BY ImageAssumption DEF Init, TypeOK, Dirs
<1>2. Fetched /\ NotYetMoving /\ OneWriter /\ CopyUnderWay /\ RenamedWhole
  BY DEF Init, Fetched, NotYetMoving, OneWriter, CopyUnderWay, RenamedWhole
<1>3. FilesOfOneVersion /\ NoTemporaryLeft
  BY DEF Init, FilesOfOneVersion, NoTemporaryLeft
<1>4. QED
  BY <1>1, <1>2, <1>3 DEF ImageInv

\* Every step preserves it.
LEMMA ImageStep == ImageInv /\ [Next]_vars => ImageInv'
<1> SUFFICES ASSUME ImageInv, [Next]_vars PROVE ImageInv'
  OBVIOUS
<1>1. ASSUME NEW c \in Calls, Serve(c) PROVE ImageInv'
  BY <1>1, FromCacheStep, FetchStep, DeliverStep DEF Serve
<1>2. ASSUME NEW c \in Calls, Move(c) PROVE ImageInv'
  BY <1>2, MoveStep
<1>3. CASE Restart
  BY <1>3, RestartStep
<1>4. ASSUME NEW r \in Refs, NEW v \in Versions, Push(r, v) PROVE ImageInv'
  <2>1. TypeOK'
    BY <1>4, SurroundingsTyped
  <2>2. UNCHANGED <<crossDevice, index, misfiled, disk, ref, pc, tmp, dst, mover, restarts>>
    BY <1>4 DEF Push, callVars
  <2>3. QED
    BY <2>1, <2>2 DEF ImageInv, Fetched, NotYetMoving, OneWriter, CopyUnderWay, RenamedWhole,
         FilesOfOneVersion, NoTemporaryLeft
<1>5. ASSUME NEW r \in Refs, NEW f \in Files, DeleteFile(r, f) PROVE ImageInv'
  BY <1>5, DeleteFileStep
<1>6. CASE UNCHANGED vars
  BY <1>6 DEF vars, callVars, ImageInv, TypeOK, Fetched, NotYetMoving, OneWriter, CopyUnderWay,
       RenamedWhole, FilesOfOneVersion, NoTemporaryLeft
<1>7. QED
  BY <1>1, <1>2, <1>3, <1>4, <1>5, <1>6 DEF Next

\* The invariant holds in every reachable state.
LEMMA ImageInvariant == Spec => []ImageInv
  BY ImageInit, ImageStep, PTL DEF Spec

\* The store, its cache and its calls keep the types of their state.
THEOREM ImageTyped == Spec => []TypeOK
<1>1. ImageInv => TypeOK
  BY DEF ImageInv
<1>2. QED
  BY <1>1, ImageInvariant, PTL

\* Retrieve delivers, and the cache keeps, files of one version only, however
\* many fetches, moves, pushes, deletions and restarts there are in between.
THEOREM OneVersionSound == Spec => []FilesOfOneVersion
<1>1. ImageInv => FilesOfOneVersion
  BY DEF ImageInv
<1>2. QED
  BY <1>1, ImageInvariant, PTL

\* A temporary directory belongs to a call or a goroutine that is under way and
\* will remove it, unless the engine ended in between.
THEOREM TemporariesRemoved == Spec => []NoTemporaryLeft
<1>1. ImageInv => NoTemporaryLeft
  BY DEF ImageInv
<1>2. QED
  BY <1>1, ImageInvariant, PTL

=============================================================================
