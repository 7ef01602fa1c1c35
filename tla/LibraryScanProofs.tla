-------------------------- MODULE LibraryScanProofs --------------------------
EXTENDS LibraryScan, TLAPS

(* The inductive invariant behind AlbumsRefreshed                            *)

\* Whatever is out of date can be found again: it is among the albums a later
\* phase 3 will ask for, and phase 3 leaves nothing of it behind.
StaleIsTouched ==
    /\ stale \subseteq touched
    /\ scan.pc # "idle" => lib.started
    /\ scan.pc \in {"stats", "update"} => stale = {}

(* The inductive invariant behind LibraryMatchesDisk                         *)

\* An edit draws a version nothing refers to yet.
VersionsDrawn ==
    \A f \in Folders :
        /\ disk[f] <= used["edits"] /\ entry[f].walked <= used["edits"]
        /\ row[f].hash[1] <= used["edits"]
        /\ row[f].hash # <<0, 0>> => row[f].hash[1] # 0

\* A folder has tracks only under a row that the next scan will load.
TracksHaveRow == \A f \in Folders : tracks[f] # 0 => Known(f)

\* What the tracks of a folder should be, given its files.
TracksOfDisk(f) == IF HasAudio(disk[f]) THEN disk[f] ELSE 0

\* A hash that still describes the files vouches for the tracks.
HashSound ==
    \A f \in Folders \ unread :
        disk[f] # 0 /\ row[f].hash = <<disk[f], disk[f]>> => tracks[f] = TracksOfDisk(f)

\* A folder the walk has not reached is as newScanJob found it.
NotReached ==
    scan.pc = "phase1" =>
        \A f \in scan.todo : entry[f].at = "none" /\ (f \in scan.lastUpdates <=> Known(f))

\* What is left in lastUpdates behind the walk has no files of the time of its row.
LeftIsGone ==
    scan.pc = "phase1" =>
        \A f \in scan.lastUpdates \ scan.todo :
            /\ row[f].hash # <<0, 0>> /\ disk[f] # row[f].hash[1]
            /\ f \in quiet => disk[f] = 0

\* What a folder carries through the pipeline is what its files hold, or they
\* were edited since the walk.
EntriesCurrent ==
    \A f \in Folders : entry[f].at # "none" =>
        /\ entry[f].walked # 0 /\ f \notin scan.lastUpdates
        /\ entry[f].at = "walked" => entry[f].read = 0
        /\ f \in quiet => entry[f].walked = disk[f]
        /\ entry[f].at = "processed" /\ entry[f].walked = disk[f] =>
              \/ disk[f] \in Silent
              \/ entry[f].read = disk[f]
              \/ entry[f].read = 0 /\ (tracks[f] = disk[f] \/ f \in unread)

\* Behind the walk and the pipeline a folder agrees with the disk, or is to be
\* marked missing at the end of the phase.
BehindPipeline ==
    scan.pc = "phase1" /\ ~scan.err =>
        \A f \in ((scan.scope \cap quiet) \ unread) \ scan.todo :
            entry[f].at = "none" => Matches(f) \/ (f \in scan.lastUpdates /\ disk[f] = 0)

DiskIInv ==
    /\ VersionsDrawn /\ TracksHaveRow /\ HashSound
    /\ NotReached /\ LeftIsGone /\ EntriesCurrent /\ BehindPipeline /\ LibraryMatchesDisk

ScanIInv == TypeOK /\ StaleIsTouched /\ AlbumsRefreshed /\ DiskIInv
-----------------------------------------------------------------------------

\* What finalize does to the folders it marks missing, and to the others.
LEMMA MissingMarked ==
    ASSUME TypeOK, NEW gone \in SUBSET Folders, gone # {}, MarkMissing(gone)
    PROVE  /\ row' \in [Folders -> FolderRows] /\ tracks' \in [Folders -> Versions]
           /\ \A f \in gone : row'[f].missing /\ row'[f].hash = row[f].hash /\ tracks'[f] = 0
           /\ \A f \in Folders \ gone : row'[f] = row[f] /\ tracks'[f] = tracks[f]
           /\ touched' = touched \cup {f \in Folders : row'[f].missing}
           /\ stale' = stale \cup {f \in gone : tracks[f] # 0}
           /\ owed' = owed \ gone /\ unswept' \in BOOLEAN
<1>1. /\ row' = [f \in Folders |-> IF f \in gone THEN [row[f] EXCEPT !.missing = TRUE, !.fresh = TRUE]
                                                ELSE row[f]]
      /\ tracks' = [f \in Folders |-> IF f \in gone THEN 0 ELSE tracks[f]]
  BY Zenon DEF MarkMissing
<1>2. \A f \in Folders : /\ [row[f] EXCEPT !.missing = TRUE, !.fresh = TRUE] \in FolderRows
                        /\ [row[f] EXCEPT !.missing = TRUE, !.fresh = TRUE].missing
                        /\ [row[f] EXCEPT !.missing = TRUE, !.fresh = TRUE].hash = row[f].hash
  BY DEF TypeOK, FolderRows
<1>3. row' \in [Folders -> FolderRows]
  BY <1>1, <1>2 DEF TypeOK
<1>4. tracks' \in [Folders -> Versions]
  <2>1. 0 \in Versions
    BY ScanBoundsAssumption DEF Versions
  <2> QED
    BY <1>1, <2>1 DEF TypeOK
<1>5. \A f \in gone : row'[f].missing /\ row'[f].hash = row[f].hash /\ tracks'[f] = 0
  BY <1>1, <1>2
<1>6. \A f \in Folders \ gone : row'[f] = row[f] /\ tracks'[f] = tracks[f]
  BY <1>1
<1>7. /\ touched' = touched \cup {f \in Folders : row'[f].missing}
      /\ stale' = stale \cup {f \in gone : tracks[f] # 0}
      /\ owed' = owed \ gone
  BY Zenon DEF MarkMissing
<1>8. unswept' \in BOOLEAN
  BY Zenon DEF MarkMissing, TypeOK
<1> QED
  BY <1>3, <1>4, <1>5, <1>6, <1>7, <1>8

\* Every step of the server and of the world preserves the type invariant.
LEMMA ScanTypeStep == TypeOK /\ [ScanNext]_vars => TypeOK'
<1> SUFFICES ASSUME TypeOK, [ScanNext]_vars PROVE TypeOK'
  OBVIOUS
<1> USE DEF TypeOK
<1> IdleScan \in ScanStates /\ IdleScan.todo = {} /\ IdleScan.lastUpdates = {} /\ NoEntry \in Entries
  BY ScanBoundsAssumption DEF IdleScan, ScanStates, NoEntry, Entries, Versions
<1>0. ASSUME NEW k \in Kinds, Use(k) PROVE used' \in [Kinds -> Nat]
  BY <1>0 DEF Use
<1>1. ASSUME NEW f \in Folders, Edit(f) PROVE TypeOK'
  <2>1. used' \in [Kinds -> Nat]
    BY <1>0, <1>1 DEF Edit, Kinds
  <2>2. disk' \in [Folders -> Versions]
    BY <1>1, ScanBoundsAssumption DEF Edit, Use, Bound, Kinds, Versions
  <2> QED
    BY <1>1, <2>1, <2>2 DEF Edit, libVars, dbVars, bootVars
<1>2. ASSUME Crash PROVE TypeOK'
  <2>1. used' \in [Kinds -> Nat]
    BY <1>0, <1>2 DEF Crash, Kinds
  <2>2. conf' \in 1..MaxConf /\ boot' \in {"none", "quick", "full"} /\ owed' \subseteq Folders
    BY <1>2 DEF Crash, BootKind
  <2> QED
    BY <1>2, <2>1, <2>2 DEF Crash, NoEntry, diskVars, libVars, dbVars
<1>3. ASSUME NEW full \in BOOLEAN, NEW scope \in SUBSET Folders, NEW reachable \in BOOLEAN,
             scanFolders(full, scope, reachable), used' \in [Kinds -> Nat],
             boot' \in {"none", "quick", "full"}
      PROVE  TypeOK'
  <2>0. lib' \in [started : BOOLEAN, full : BOOLEAN] /\ (lib'.full => lib'.started)
    <3>1. CASE ~lib.started
      <4>1. PICK b \in BOOLEAN : lib' = [started |-> TRUE, full |-> b]
        BY <1>3, <3>1 DEF scanFolders, prepareLibrariesForScan, Forced
      <4> QED
        BY <4>1
    <3> QED
      BY <1>3, <3>1 DEF scanFolders, prepareLibrariesForScan
  <2>1. row' \in [Folders -> FolderRows]
    <3>1. \A f \in Folders : [row[f] EXCEPT !.fresh = FALSE] \in FolderRows
      BY DEF FolderRows
    <3> QED
      BY <1>3, <3>1 DEF scanFolders, prepareLibrariesForScan
  <2>2. /\ scan' \in ScanStates /\ scan'.todo \subseteq scan'.scope /\ scan'.lastUpdates \subseteq scan'.scope
        /\ scan'.pc = "phase1"
    BY <1>3 DEF scanFolders, newScanJob, Forced, ScanStates
  <2>3. owed' \subseteq Folders /\ quiet' \subseteq Folders
    BY <1>3 DEF scanFolders, Owed
  <2> QED
    BY <1>3, <2>0, <2>1, <2>2, <2>3 DEF scanFolders
<1>4. ASSUME NEW rq \in Requests, RequestScan(rq) PROVE TypeOK'
  <2>1. used' \in [Kinds -> Nat]
    BY <1>0, <1>4 DEF RequestScan, Kinds
  <2>2. rq.full \in BOOLEAN
    BY RequestsAssumption
  <2> QED
    BY <1>3, <1>4, <2>1, <2>2 DEF RequestScan
<1>5. ASSUME runInitialScan PROVE TypeOK'
  <2>1. used' \in [Kinds -> Nat]
    BY <1>0, <1>5 DEF runInitialScan, Kinds
  <2>2. CASE UNCHANGED <<diskVars, libVars, dbVars, conf, scan, entry, owed, unread>>
    BY <1>5, <2>1, <2>2 DEF runInitialScan, diskVars, libVars, dbVars
  <2> QED
    BY <1>3, <1>5, <2>1, <2>2 DEF runInitialScan
<1>6. ASSUME NEW f \in Folders, walkFolder(f) PROVE TypeOK'
  <2>1. /\ scan' \in ScanStates /\ scan'.todo \subseteq scan'.scope /\ scan'.lastUpdates \subseteq scan'.scope
        /\ scan'.pc = "phase1"
    BY <1>6 DEF walkFolder, ScanStates
  <2>2. entry' \in [Folders -> Entries]
    <3>1. [at |-> "walked", walked |-> disk[f], read |-> 0] \in Entries
      BY ScanBoundsAssumption DEF Entries, Versions
    <3> QED
      BY <1>6, <3>1 DEF walkFolder
  <2> QED
    BY <1>6, <2>1, <2>2 DEF walkFolder, Phase1, libVars, dbVars, bootVars
<1>7. ASSUME NEW f \in Folders, processFolder(f) PROVE TypeOK'
  <2>1. used' \in [Kinds -> Nat]
    BY <1>0, <1>7 DEF processFolder, Kinds
  <2>2. ToImport(f) \in Versions
    BY ScanBoundsAssumption DEF ToImport, Versions
  <2>3. entry' \in [Folders -> Entries]
    BY <1>7, <2>2 DEF processFolder, Entries
  <2>4. unread' \subseteq Folders
    BY <1>7 DEF processFolder
  <2> QED
    BY <1>7, <2>1, <2>3, <2>4 DEF processFolder, Phase1, libVars, dbVars, bootVars
<1>8. ASSUME NEW f \in Folders, persistChanges(f) PROVE TypeOK'
  <2>1. used' \in [Kinds -> Nat]
    BY <1>0, <1>8 DEF persistChanges, Kinds
  <2>2. /\ row' \in [Folders -> FolderRows]
        /\ tracks' \in [Folders -> Versions]
        /\ touched' \subseteq Folders /\ stale' \subseteq Folders /\ unswept' \in BOOLEAN
        /\ owed' \subseteq Folders /\ unread' \subseteq Folders
    <3>1. hash(entry[f].walked, disk[f]) \in Versions \X Versions /\ entry[f].read \in Versions /\ 0 \in Versions
      BY ScanBoundsAssumption DEF hash, Entries, Versions
    <3>2. CASE Persisted(f)
      BY <3>1, <3>2 DEF Persisted, FolderRows
    <3> QED
      BY <1>8, <3>2 DEF persistChanges, dbVars
  <2>3. entry' \in [Folders -> Entries]
    BY <1>8 DEF persistChanges
  <2>4. /\ scan' \in ScanStates /\ scan'.todo \subseteq scan'.scope /\ scan'.lastUpdates \subseteq scan'.scope
        /\ scan'.pc = "phase1"
    BY <1>8 DEF persistChanges, ScanStates
  <2> QED
    BY <1>8, <2>1, <2>2, <2>3, <2>4 DEF persistChanges, libVars, bootVars
<1>9. ASSUME finalize PROVE TypeOK'
  <2>1. used' \in [Kinds -> Nat]
    BY <1>0, <1>9 DEF finalize, Kinds
  <2>2. /\ row' \in [Folders -> FolderRows]
        /\ tracks' \in [Folders -> Versions]
        /\ touched' \subseteq Folders /\ stale' \subseteq Folders /\ unswept' \in BOOLEAN
        /\ owed' \subseteq Folders
    <3>1. CASE scan.lastUpdates # {} /\ MarkMissing(scan.lastUpdates)
      BY <3>1, MissingMarked DEF ScanStates
    <3> QED
      BY <1>9, <3>1 DEF finalize, MarkMissing, dbVars
  <2>3. /\ scan' \in ScanStates /\ scan'.todo \subseteq scan'.scope /\ scan'.lastUpdates \subseteq scan'.scope
    BY <1>9 DEF finalize, ScanStates
  <2> QED
    BY <1>9, <2>1, <2>2, <2>3 DEF finalize, libVars, bootVars
<1>10. ASSUME refreshAlbums PROVE TypeOK'
  <2>1. used' \in [Kinds -> Nat]
    BY <1>0, <1>10 DEF refreshAlbums, AlbumChange, Kinds
  <2>2. /\ scan' \in ScanStates /\ scan'.todo \subseteq scan'.scope /\ scan'.lastUpdates \subseteq scan'.scope
    BY <1>10 DEF refreshAlbums, AlbumChange, ScanStates
  <2> QED
    BY <1>10, <2>1, <2>2 DEF refreshAlbums, AlbumChange, diskVars, libVars, bootVars
<1>11. ASSUME Maintenance PROVE TypeOK'
  <2>1. used' \in [Kinds -> Nat]
    BY <1>0, <1>11 DEF Maintenance, Kinds
  <2>2. /\ scan' \in ScanStates /\ scan'.todo \subseteq scan'.scope /\ scan'.lastUpdates \subseteq scan'.scope
    BY <1>11 DEF Maintenance, ScanStates
  <2> QED
    BY <1>11, <2>1, <2>2 DEF Maintenance, diskVars, libVars, bootVars
<1>12. ASSUME runUpdateLibraries PROVE TypeOK'
  <2>1. used' \in [Kinds -> Nat]
    BY <1>0, <1>12 DEF runUpdateLibraries, Kinds
  <2>2. pidKey' \in 0..MaxConf
    BY <1>12, ScanBoundsAssumption DEF runUpdateLibraries, ScanEnded, libVars
  <2>3. lib' \in [started : BOOLEAN, full : BOOLEAN] /\ (lib'.full => lib'.started)
    <3>1. lib' = lib \/ lib' = [started |-> FALSE, full |-> FALSE]
      BY <1>12 DEF runUpdateLibraries, ScanEnded, libVars
    <3>2. CASE lib' = [started |-> FALSE, full |-> FALSE]
      BY <3>2
    <3> QED
      BY <3>1, <3>2
  <2>4. touched' \subseteq Folders /\ (\A f \in Folders : entry'[f].at = "none")
    BY <1>12 DEF runUpdateLibraries, ScanEnded
  <2> QED
    BY <1>12, <2>1, <2>2, <2>3, <2>4 DEF runUpdateLibraries, diskVars, bootVars
<1>13. CASE UNCHANGED vars
  BY <1>13 DEF vars, diskVars, libVars, dbVars, bootVars
<1> QED
  BY <1>1, <1>2, <1>4, <1>5, <1>6, <1>7, <1>8, <1>9, <1>10, <1>11, <1>12, <1>13
     DEF ScanNext, ScanSteps

\* A step keeps every album that is out of date within reach of phase 3.
LEMMA AlbumsStep ==
    TypeOK /\ StaleIsTouched /\ AlbumsRefreshed /\ [ScanNext]_vars => (StaleIsTouched /\ AlbumsRefreshed)'
<1> SUFFICES ASSUME TypeOK, StaleIsTouched, AlbumsRefreshed, [ScanNext]_vars
             PROVE  (StaleIsTouched /\ AlbumsRefreshed)'
  OBVIOUS
<1> USE DEF StaleIsTouched, AlbumsRefreshed
<1>1. ASSUME NEW f \in Folders, Edit(f) PROVE (StaleIsTouched /\ AlbumsRefreshed)'
  BY <1>1 DEF Edit, libVars, dbVars
<1>2. ASSUME Crash PROVE (StaleIsTouched /\ AlbumsRefreshed)'
  BY <1>2 DEF Crash, IdleScan, libVars, dbVars
<1>3. ASSUME NEW full, NEW scope, NEW reachable, scanFolders(full, scope, reachable)
      PROVE  (StaleIsTouched /\ AlbumsRefreshed)'
  BY <1>3 DEF scanFolders, prepareLibrariesForScan, newScanJob
<1>4. ASSUME NEW rq \in Requests, RequestScan(rq) PROVE (StaleIsTouched /\ AlbumsRefreshed)'
  BY <1>3, <1>4 DEF RequestScan
<1>5. ASSUME runInitialScan PROVE (StaleIsTouched /\ AlbumsRefreshed)'
  BY <1>3, <1>5 DEF runInitialScan, libVars, dbVars
<1>6. ASSUME NEW f \in Folders, walkFolder(f) PROVE (StaleIsTouched /\ AlbumsRefreshed)'
  BY <1>6 DEF walkFolder, Phase1, libVars, dbVars, TypeOK, ScanStates
<1>7. ASSUME NEW f \in Folders, processFolder(f) PROVE (StaleIsTouched /\ AlbumsRefreshed)'
  BY <1>7 DEF processFolder, Phase1, libVars, dbVars
<1>8. ASSUME NEW f \in Folders, persistChanges(f) PROVE (StaleIsTouched /\ AlbumsRefreshed)'
  <2>1. stale' \subseteq touched'
    BY <1>8 DEF persistChanges, Persisted, dbVars
  <2>2. scan'.pc = "phase1" /\ lib' = lib /\ lib.started
    BY <1>8 DEF persistChanges, libVars, TypeOK, ScanStates
  <2> QED
    BY <2>1, <2>2
<1>9. ASSUME finalize PROVE (StaleIsTouched /\ AlbumsRefreshed)'
  <2>1. stale' \subseteq touched'
    <3>1. CASE scan.lastUpdates # {} /\ MarkMissing(scan.lastUpdates)
      BY <3>1, MissingMarked DEF TypeOK, ScanStates
    <3>2. CASE UNCHANGED <<stale, touched>>
      BY <3>2
    <3> QED
      BY <1>9, <3>1, <3>2 DEF finalize, MarkMissing, dbVars
  <2>2. scan'.pc \in {"idle", "albums"} /\ lib' = lib /\ lib.started
    BY <1>9 DEF finalize, IdleScan, libVars, TypeOK, ScanStates
  <2> QED
    BY <2>1, <2>2
<1>10. ASSUME refreshAlbums PROVE (StaleIsTouched /\ AlbumsRefreshed)'
  BY <1>10 DEF refreshAlbums, AlbumChange, TouchedAlbums, IdleScan, libVars, TypeOK, ScanStates
<1>11. ASSUME Maintenance PROVE (StaleIsTouched /\ AlbumsRefreshed)'
  BY <1>11 DEF Maintenance, IdleScan, libVars, TypeOK, ScanStates
<1>12. ASSUME runUpdateLibraries PROVE (StaleIsTouched /\ AlbumsRefreshed)'
  BY <1>12 DEF runUpdateLibraries, ScanEnded, IdleScan, libVars
<1>13. CASE UNCHANGED vars
  BY <1>13 DEF vars, libVars, dbVars
<1> QED
  BY <1>1, <1>2, <1>4, <1>5, <1>6, <1>7, <1>8, <1>9, <1>10, <1>11, <1>12, <1>13
     DEF ScanNext, ScanSteps

\* An edit leaves behind no hash and no entry that would describe the new files.
LEMMA EditStep == ASSUME TypeOK, DiskIInv, NEW f \in Folders, Edit(f) PROVE DiskIInv'
<1> USE DEF TypeOK, DiskIInv
<1>1. /\ UNCHANGED <<row, tracks, scan, entry, unread>> /\ quiet' = quiet \ {f}
      /\ disk' \in [Folders -> Versions] /\ \A g \in Folders \ {f} : disk'[g] = disk[g]
      /\ disk'[f] \in {0, used["edits"] + 1} /\ disk'[f] # disk[f]
      /\ used["edits"] \in Nat /\ used'["edits"] = used["edits"] + 1
  <2>1. disk' \in [Folders -> Versions]
    BY ScanBoundsAssumption DEF Edit, Use, Bound, Kinds, Versions
  <2> QED
    BY <2>1 DEF Edit, Use, Kinds, dbVars
<1>2. \A g \in Folders : /\ disk[g] \in Nat /\ entry[g].walked \in Nat /\ row[g].hash[1] \in Nat
                        /\ row[g].hash \in Versions \X Versions
  BY ScanBoundsAssumption DEF Versions, Entries, FolderRows
<1>3. VersionsDrawn'
  BY <1>1, <1>2 DEF VersionsDrawn
<1>4. TracksHaveRow'
  BY <1>1 DEF TracksHaveRow, Known
<1>5. disk'[f] # 0 => disk'[f] # row[f].hash[1] /\ disk'[f] # entry[f].walked
  BY <1>1, <1>2 DEF VersionsDrawn
<1>6. HashSound'
  BY <1>1, <1>2, <1>5 DEF HashSound, TracksOfDisk, HasAudio
<1>7. NotReached'
  BY <1>1 DEF NotReached, Known
<1>8. LeftIsGone'
  BY <1>1, <1>2, <1>5, ScanBoundsAssumption DEF LeftIsGone, ScanStates, VersionsDrawn
<1>9. EntriesCurrent'
  BY <1>1, <1>5 DEF EntriesCurrent
<1>10. BehindPipeline' /\ LibraryMatchesDisk'
  BY <1>1 DEF BehindPipeline, LibraryMatchesDisk, Matches, Known, HasAudio
<1> QED
  BY <1>3, <1>4, <1>6, <1>7, <1>8, <1>9, <1>10

\* A scan begins with every folder before the walk and the pipeline empty.
LEMMA StartStep ==
    ASSUME TypeOK, DiskIInv, NEW full, NEW scope \in SUBSET Folders, NEW reachable,
           scanFolders(full, scope, reachable), used'["edits"] = used["edits"]
    PROVE  DiskIInv'
<1> USE DEF TypeOK, DiskIInv
<1>1. /\ UNCHANGED <<disk, tracks, entry, unread>> /\ scan'.pc = "phase1"
      /\ scan'.todo = scan'.scope /\ scan'.scope \subseteq Folders
      /\ scan'.lastUpdates = {f \in scan'.scope : Known(f)}
      /\ \A f \in Folders : entry[f].at = "none"
  BY DEF scanFolders, newScanJob
<1>2. \A f \in Folders : row'[f].hash = row[f].hash /\ row'[f].missing = row[f].missing
  BY DEF scanFolders, prepareLibrariesForScan, FolderRows
<1>3. VersionsDrawn' /\ TracksHaveRow'
  BY <1>1, <1>2 DEF VersionsDrawn, TracksHaveRow, Known
<1>4. HashSound'
  BY <1>1, <1>2 DEF HashSound, TracksOfDisk, HasAudio
<1>5. NotReached' /\ LeftIsGone' /\ EntriesCurrent'
  BY <1>1, <1>2 DEF NotReached, LeftIsGone, EntriesCurrent, Known
<1>6. BehindPipeline' /\ LibraryMatchesDisk'
  BY <1>1 DEF BehindPipeline, LibraryMatchesDisk
<1> QED
  BY <1>3, <1>4, <1>5, <1>6

\* The walk passes over a folder only if its row and tracks are right.
LEMMA WalkStep == ASSUME TypeOK, DiskIInv, NEW f \in Folders, walkFolder(f) PROVE DiskIInv'
<1> USE DEF TypeOK, DiskIInv
<1>1. /\ UNCHANGED <<disk, row, tracks, unread, quiet, used>>
      /\ scan.pc = "phase1" /\ f \in scan.todo
      /\ scan'.pc = "phase1" /\ scan'.err = scan.err /\ scan'.scope = scan.scope
      /\ scan'.todo = scan.todo \ {f}
      /\ scan'.lastUpdates = IF disk[f] = 0 THEN scan.lastUpdates ELSE scan.lastUpdates \ {f}
  BY DEF walkFolder, Phase1, dbVars, ScanStates
<1>2. /\ \A g \in Folders \ {f} : entry'[g] = entry[g]
      /\ entry[f].at = "none" /\ (f \in scan.lastUpdates <=> Known(f))
      /\ \/ disk[f] # 0 /\ Put(f) /\ ~scan.err /\ entry'[f] = [at |-> "walked", walked |-> disk[f], read |-> 0]
         \/ ~(disk[f] # 0 /\ Put(f) /\ ~scan.err) /\ entry'[f] = entry[f]
  BY <1>1 DEF walkFolder, NotReached
<1>3. VersionsDrawn' /\ TracksHaveRow'
  BY <1>1, <1>2 DEF VersionsDrawn, TracksHaveRow, Known
<1>4. HashSound'
  BY <1>1 DEF HashSound, TracksOfDisk, HasAudio
<1>5. NotReached'
  BY <1>1, <1>2 DEF NotReached, Known, ScanStates
<1>6. LeftIsGone'
  BY <1>1, <1>2 DEF LeftIsGone, VersionsDrawn, Known, ScanStates
<1>7. EntriesCurrent'
  BY <1>1, <1>2 DEF EntriesCurrent
<1>8. BehindPipeline'
  <2> SUFFICES ASSUME ~scan.err, f \in quiet \ unread, entry'[f].at = "none"
               PROVE  Matches(f) \/ (f \in scan'.lastUpdates /\ disk[f] = 0)
    BY <1>1, <1>2 DEF BehindPipeline, Matches, Known, HasAudio, ScanStates
  <2>1. CASE disk[f] = 0
    BY <1>1, <1>2, <2>1 DEF Matches, HasAudio, TracksHaveRow
  <2>2. CASE disk[f] # 0 /\ ~isOutdated(f)
    <3>1. Known(f) /\ row[f].hash = <<disk[f], disk[f]>>
      BY <1>2, <2>2 DEF isOutdated, isNew, hash
    <3> QED
      BY <2>2, <3>1 DEF HashSound, TracksOfDisk, Matches
  <2>3. CASE disk[f] # 0 /\ isNew(f) /\ ~HasAudio(disk[f])
    BY <1>2, <2>3 DEF isNew, TracksHaveRow, Matches
  <2> QED
    BY <1>2, <2>1, <2>2, <2>3 DEF Put
<1>9. LibraryMatchesDisk'
  BY <1>1 DEF LibraryMatchesDisk
<1> QED
  BY <1>3, <1>4, <1>5, <1>6, <1>7, <1>8, <1>9

\* The tags read are those of the files of the moment; what could not be read is noted.
LEMMA ProcessStep == ASSUME TypeOK, DiskIInv, NEW f \in Folders, processFolder(f) PROVE DiskIInv'
<1> USE DEF TypeOK, DiskIInv
<1>1. /\ UNCHANGED <<disk, row, tracks, scan, quiet>> /\ used'["edits"] = used["edits"]
      /\ scan.pc = "phase1" /\ entry[f].at = "walked"
      /\ unread \subseteq unread' /\ unread' \subseteq unread \cup {f}
  BY DEF processFolder, Use, Kinds, Phase1, dbVars
<1>2. /\ \A g \in Folders \ {f} : entry'[g] = entry[g]
      /\ entry'[f].at = "processed" /\ entry'[f].walked = entry[f].walked
      /\ \/ entry'[f].read = ToImport(f)
         \/ entry'[f].read = entry[f].read /\ f \in unread' /\ HasAudio(entry[f].walked)
  BY DEF processFolder, Entries
<1>3. VersionsDrawn' /\ TracksHaveRow'
  BY <1>1, <1>2 DEF VersionsDrawn, TracksHaveRow, Known
<1>4. HashSound'
  BY <1>1 DEF HashSound, TracksOfDisk, HasAudio
<1>5. NotReached'
  BY <1>1, <1>2 DEF NotReached, Known, ScanStates
<1>6. LeftIsGone'
  BY <1>1 DEF LeftIsGone
<1>7. EntriesCurrent'
  BY <1>1, <1>2 DEF EntriesCurrent, ToImport, HasAudio
<1>8. BehindPipeline' /\ LibraryMatchesDisk'
  BY <1>1, <1>2 DEF BehindPipeline, LibraryMatchesDisk, Matches, Known, HasAudio, ScanStates
<1> QED
  BY <1>3, <1>4, <1>5, <1>6, <1>7, <1>8

\* A folder that is persisted as its files were at the walk is right; one that
\* was edited on the way keeps a hash that does not describe its files.
LEMMA PersistStep == ASSUME TypeOK, DiskIInv, NEW f \in Folders, persistChanges(f) PROVE DiskIInv'
<1> USE DEF TypeOK, DiskIInv
<1>1. /\ UNCHANGED <<disk, quiet>> /\ used'["edits"] = used["edits"] /\ used["edits"] \in Nat
      /\ scan.pc = "phase1" /\ entry[f].at = "processed" /\ ~scan.err
      /\ scan'.pc = "phase1" /\ scan'.scope = scan.scope
      /\ scan'.todo = scan.todo /\ scan'.lastUpdates = scan.lastUpdates
  BY DEF persistChanges, Use, Kinds, ScanStates
<1>2. CASE /\ scan' = [scan EXCEPT !.changes = TRUE, !.err = TRUE]
           /\ entry' = [g \in Folders |-> NoEntry]
           /\ UNCHANGED <<dbVars, owed, unread>>
  <2>1. /\ UNCHANGED <<row, tracks, unread>> /\ scan'.err
        /\ \A g \in Folders : entry'[g] = NoEntry
    BY <1>2 DEF dbVars, ScanStates
  <2>2. VersionsDrawn'
    BY <1>1, <2>1 DEF VersionsDrawn, NoEntry
  <2>4. TracksHaveRow' /\ HashSound'
    BY <1>1, <2>1 DEF TracksHaveRow, HashSound, TracksOfDisk, HasAudio, Known
  <2>3. NotReached' /\ LeftIsGone' /\ EntriesCurrent' /\ BehindPipeline' /\ LibraryMatchesDisk'
    BY <1>1, <2>1
       DEF NotReached, LeftIsGone, EntriesCurrent, BehindPipeline, LibraryMatchesDisk, Known, NoEntry, ScanStates
  <2> QED
    BY <2>2, <2>3, <2>4
<1>3. CASE /\ Persisted(f) /\ scan' = [scan EXCEPT !.changes = TRUE]
           /\ entry' = [entry EXCEPT ![f] = NoEntry]
  <2>1. /\ \A g \in Folders \ {f} : row'[g] = row[g] /\ tracks'[g] = tracks[g] /\ entry'[g] = entry[g]
        /\ row'[f].hash = hash(entry[f].walked, disk[f]) /\ ~row'[f].missing
        /\ entry'[f] = NoEntry /\ scan'.err = scan.err
    BY <1>3 DEF Persisted, ScanStates, FolderRows
  <2>2. /\ tracks'[f] = IF entry[f].walked \in Silent THEN 0
                        ELSE IF entry[f].read # 0 THEN entry[f].read ELSE tracks[f]
        /\ unread' = IF entry[f].walked \notin Silent /\ entry[f].read # 0 THEN unread \ {f} ELSE unread
    BY <1>3 DEF Persisted
  <2>3. entry[f].walked # 0 /\ f \notin scan.lastUpdates /\ (f \in quiet => entry[f].walked = disk[f])
    BY <1>1 DEF EntriesCurrent
  <2>4. hash(entry[f].walked, disk[f])[1] = entry[f].walked
    BY DEF hash
  <2>5. entry[f].walked = disk[f] /\ f \notin unread' => tracks'[f] = TracksOfDisk(f)
    BY <1>1, <2>2, <2>3 DEF EntriesCurrent, TracksOfDisk, HasAudio
  <2>6. Known(f)'
    BY <2>1, <2>3, <2>4 DEF Known
  <2>7. VersionsDrawn' /\ TracksHaveRow'
    BY <1>1, <2>1, <2>3, <2>4, <2>6 DEF VersionsDrawn, TracksHaveRow, Known, NoEntry
  <2>8. HashSound'
    BY <1>1, <2>1, <2>2, <2>3, <2>4, <2>5 DEF HashSound, TracksOfDisk, HasAudio
  <2>9. NotReached' /\ LeftIsGone'
    BY <1>1, <2>1, <2>3 DEF NotReached, LeftIsGone, Known, ScanStates
  <2>10. EntriesCurrent'
    BY <1>1, <2>1, <2>2 DEF EntriesCurrent, NoEntry
  <2>11. BehindPipeline'
    <3>1. f \in quiet \ unread' => Matches(f)'
      BY <1>1, <2>3, <2>5, <2>6 DEF Matches, TracksOfDisk, HasAudio
    <3>2. ASSUME NEW g \in ((scan.scope \cap quiet) \ unread') \ scan.todo, g # f, entry'[g].at = "none"
          PROVE  (Matches(g) \/ (g \in scan.lastUpdates /\ disk[g] = 0))'
      <4>1. g \in Folders /\ g \notin unread
        BY <2>2, <3>2 DEF ScanStates
      <4> QED
        BY <1>1, <2>1, <3>2, <4>1 DEF BehindPipeline, Matches, Known, HasAudio
    <3> QED
      BY <1>1, <3>1, <3>2 DEF BehindPipeline
  <2>12. LibraryMatchesDisk'
    BY <1>1 DEF LibraryMatchesDisk
  <2> QED
    BY <2>7, <2>8, <2>9, <2>10, <2>11, <2>12
<1> QED
  BY <1>2, <1>3 DEF persistChanges

\* The end of the phase marks missing exactly what the walk did not find.
LEMMA FinalizeStep == ASSUME TypeOK, DiskIInv, finalize PROVE DiskIInv'
<1> USE DEF TypeOK, DiskIInv
<1>1. /\ UNCHANGED <<disk, quiet, entry, unread>> /\ used'["edits"] = used["edits"]
      /\ scan.pc = "phase1" /\ scan.todo = {} /\ \A f \in Folders : entry[f].at = "none"
      /\ scan'.pc # "phase1" /\ (scan'.pc # "idle" => scan'.pc = "albums" /\ scan'.scope = scan.scope)
  BY DEF finalize, IdleScan, Use, Kinds, ScanStates
<1>2. \/ row' = row /\ tracks' = tracks /\ (scan.lastUpdates = {} \/ scan'.pc = "idle")
      \/ /\ \A f \in scan.lastUpdates : row'[f].missing /\ row'[f].hash = row[f].hash /\ tracks'[f] = 0
         /\ \A f \in Folders \ scan.lastUpdates : row'[f] = row[f] /\ tracks'[f] = tracks[f]
  <2>1. CASE scan.lastUpdates # {} /\ MarkMissing(scan.lastUpdates)
    BY <2>1, MissingMarked DEF ScanStates
  <2>2. CASE scan.lastUpdates = {} /\ MarkMissing(scan.lastUpdates)
    BY <2>2 DEF MarkMissing
  <2>3. CASE scan' = IdleScan /\ UNCHANGED dbVars
    BY <2>3 DEF IdleScan, dbVars
  <2> QED
    BY <2>1, <2>2, <2>3 DEF finalize
<1>3. scan'.pc = "idle" \/ (scan'.pc = "albums" /\ ~scan.err)
  BY DEF finalize, IdleScan, ScanStates
<1>4. VersionsDrawn'
  BY <1>1, <1>2 DEF VersionsDrawn
<1>5. TracksHaveRow'
  BY <1>2 DEF TracksHaveRow, Known
<1>6. HashSound'
  BY <1>1, <1>2 DEF HashSound, LeftIsGone, TracksOfDisk, HasAudio
<1>7. NotReached' /\ LeftIsGone' /\ EntriesCurrent' /\ BehindPipeline'
  BY <1>1 DEF NotReached, LeftIsGone, EntriesCurrent, BehindPipeline
<1>8. LibraryMatchesDisk'
  <2> SUFFICES ASSUME scan'.pc = "albums", NEW f \in (scan.scope \cap quiet) \ unread
               PROVE  Matches(f)'
    BY <1>1, <1>3 DEF LibraryMatchesDisk
  <2>1. f \in Folders
    BY DEF ScanStates
  <2>2. CASE f \in scan.lastUpdates
    BY <1>1, <1>2, <2>1, <2>2 DEF LeftIsGone, Matches, HasAudio, Known
  <2>3. CASE f \notin scan.lastUpdates
    BY <1>1, <1>2, <1>3, <2>1, <2>3 DEF BehindPipeline, Matches, HasAudio, Known
  <2> QED
    BY <2>2, <2>3
<1> QED
  BY <1>4, <1>5, <1>6, <1>7, <1>8

\* Every step keeps what the database says of the disk.
LEMMA DiskStep == TypeOK /\ DiskIInv /\ [ScanNext]_vars => DiskIInv'
<1> SUFFICES ASSUME TypeOK, DiskIInv, [ScanNext]_vars PROVE DiskIInv'
  OBVIOUS
<1>1. ASSUME /\ \/ UNCHANGED <<scan, quiet, entry>>
                \/ /\ UNCHANGED <<quiet, entry>> /\ scan.pc \notin {"idle", "phase1"}
                   /\ \/ scan' = IdleScan
                      \/ scan'.scope = scan.scope /\ scan'.pc \in {"stats", "update"}
                \/ scan' = IdleScan /\ quiet' = quiet /\ entry' = [f \in Folders |-> NoEntry],
             UNCHANGED <<disk, row, tracks, unread>>, used'["edits"] = used["edits"]
      PROVE  DiskIInv'
  <2> USE <1>1 DEF TypeOK, DiskIInv
  <2>1. VersionsDrawn'
    <3>1. used["edits"] \in Nat
      BY DEF Kinds
    <3> QED
      BY <3>1 DEF VersionsDrawn, NoEntry
  <2>2. TracksHaveRow' /\ HashSound'
    BY DEF TracksHaveRow, HashSound, TracksOfDisk, HasAudio, Known
  <2>3. NotReached' /\ LeftIsGone' /\ BehindPipeline'
    BY DEF NotReached, LeftIsGone, BehindPipeline, Matches, HasAudio, Known, IdleScan
  <2>4. EntriesCurrent'
    BY DEF EntriesCurrent, NoEntry
  <2>5. LibraryMatchesDisk'
    BY DEF LibraryMatchesDisk, Matches, HasAudio, Known, IdleScan, ScanStates
  <2> QED
    BY <2>1, <2>2, <2>3, <2>4, <2>5
<1>2. ASSUME Crash PROVE DiskIInv'
  BY <1>1, <1>2 DEF Crash, Use, Kinds, TypeOK, diskVars, dbVars
<1>3. ASSUME NEW rq \in Requests, RequestScan(rq) PROVE DiskIInv'
  <2>1. used'["edits"] = used["edits"]
    BY <1>3 DEF RequestScan, Use, Kinds, TypeOK
  <2> QED
    BY <1>3, <2>1, StartStep DEF RequestScan
<1>4. ASSUME runInitialScan PROVE DiskIInv'
  <2>1. used'["edits"] = used["edits"]
    BY <1>4 DEF runInitialScan, Use, Kinds, TypeOK
  <2>2. CASE UNCHANGED <<diskVars, libVars, dbVars, conf, scan, entry, owed, unread>>
    BY <1>1, <2>1, <2>2 DEF diskVars, dbVars
  <2> QED
    BY <1>4, <2>1, <2>2, StartStep DEF runInitialScan
<1>5. ASSUME refreshAlbums \/ Maintenance \/ runUpdateLibraries PROVE DiskIInv'
  <2>1. used'["edits"] = used["edits"] /\ UNCHANGED <<disk, row, tracks, unread, quiet, entry>>
    BY <1>5 DEF refreshAlbums, AlbumChange, Maintenance, runUpdateLibraries, Use, Kinds, TypeOK, diskVars
  <2>2. /\ scan.pc \notin {"idle", "phase1"}
        /\ scan' = IdleScan \/ (scan'.scope = scan.scope /\ scan'.pc \in {"stats", "update"})
    BY <1>5 DEF refreshAlbums, AlbumChange, Maintenance, runUpdateLibraries, TypeOK, ScanStates
  <2> QED
    BY <1>1, <2>1, <2>2
<1>6. CASE UNCHANGED vars
  BY <1>1, <1>6 DEF vars, diskVars, dbVars
<1> QED
  BY <1>2, <1>3, <1>4, <1>5, <1>6, EditStep, WalkStep, ProcessStep, PersistStep, FinalizeStep
     DEF ScanNext, ScanSteps
-----------------------------------------------------------------------------
LEMMA InitScanIInv == Init => ScanIInv
<1> SUFFICES ASSUME Init PROVE ScanIInv
  OBVIOUS
<1> USE DEF Init
<1>1. used \in [Kinds -> Nat] /\ used["edits"] = 1
  BY DEF Kinds
<1>2. 0 \in Versions /\ 1 \in Versions /\ Versions \subseteq Nat
  BY ScanBoundsAssumption DEF Versions
<1>3. NoRow \in FolderRows /\ NoEntry \in Entries /\ IdleScan \in ScanStates
  BY <1>2 DEF NoRow, FolderRows, NoEntry, Entries, IdleScan, ScanStates
<1>4. TypeOK
  <2>1. disk \in [Folders -> Versions]
    BY <1>2
  <2>2. lib \in [started : BOOLEAN, full : BOOLEAN] /\ (lib.full => lib.started)
    OBVIOUS
  <2>3. row \in [Folders -> FolderRows] /\ tracks \in [Folders -> Versions] /\ entry \in [Folders -> Entries]
    BY <1>2, <1>3
  <2>4. scan.todo \subseteq scan.scope /\ scan.lastUpdates \subseteq scan.scope
    BY DEF IdleScan
  <2>5. \A f \in Folders : entry[f].at = "none"
    BY DEF NoEntry
  <2> QED
    <3>1. pidKey \in 0..MaxConf /\ conf \in 1..MaxConf
      BY ScanBoundsAssumption
    <3> QED
      BY <1>1, <1>3, <2>1, <2>2, <2>3, <2>4, <2>5, <3>1 DEF TypeOK
<1>5. StaleIsTouched /\ AlbumsRefreshed
  BY DEF StaleIsTouched, AlbumsRefreshed, IdleScan
<1>6. VersionsDrawn
  BY <1>1, <1>2 DEF VersionsDrawn, NoEntry, NoRow
<1>7. TracksHaveRow /\ HashSound
  BY <1>2 DEF TracksHaveRow, HashSound, NoRow
<1>8. NotReached /\ LeftIsGone /\ EntriesCurrent /\ BehindPipeline /\ LibraryMatchesDisk
  BY DEF NotReached, LeftIsGone, EntriesCurrent, BehindPipeline, LibraryMatchesDisk, IdleScan, NoEntry
<1> QED
  BY <1>4, <1>5, <1>6, <1>7, <1>8 DEF ScanIInv, DiskIInv

LEMMA ScanInvariance == ScanSpec => []ScanIInv
<1>1. ScanIInv /\ [ScanNext]_vars => ScanIInv'
  BY ScanTypeStep, AlbumsStep, DiskStep DEF ScanIInv
<1> QED
  BY <1>1, InitScanIInv, PTL DEF ScanSpec

\* The variables of the scanner always have their types.
THEOREM ScanTypeCorrect == ScanSpec => []TypeOK
  BY ScanInvariance, PTL DEF ScanIInv

\* For any number of folders, edits, scans, failures and restarts: a library
\* that is not marked as being scanned has no album with totals out of date.
THEOREM NoAlbumLeftStale == ScanSpec => []AlbumsRefreshed
  BY ScanInvariance, PTL DEF ScanIInv

\* For any number of folders, edits, scans, failures and restarts: once phase 1
\* of a scan is over, what it looked at and nobody edited since agrees with the
\* disk, but for files that could not be read.
THEOREM ScanSeesDisk == ScanSpec => []LibraryMatchesDisk
  BY ScanInvariance, PTL DEF ScanIInv, DiskIInv
-----------------------------------------------------------------------------
(* The inductive invariant behind MaintenanceDone                            *)

\* Until a scan is cut short, a change of the tracks that the GC has not seen is on
\* record in the scan, or shows as an album that phase 3 will find out of date.
ChangesRecorded ==
    used["crashes"] + used["errors"] = 0 =>
        /\ ~scan.err
        /\ scan.pc \in {"idle", "update"} => ~unswept
        /\ scan.pc \in {"phase1", "stats"} /\ unswept => scan.changes
        /\ scan.pc = "albums" /\ unswept => scan.changes \/ stale # {}

\* A use of a bound is counted, and counts are never taken back.
LEMMA UseCounts ==
    ASSUME TypeOK, NEW k \in Kinds, Use(k)
    PROVE  /\ used'[k] = used[k] + 1 /\ \A j \in Kinds \ {k} : used'[j] = used[j]
           /\ used'["crashes"] + used'["errors"] = 0 =>
                k \notin {"crashes", "errors"} /\ used["crashes"] + used["errors"] = 0
<1>1. /\ used'[k] = used[k] + 1 /\ \A j \in Kinds \ {k} : used'[j] = used[j]
      /\ \A j \in Kinds : used[j] \in Nat
  BY DEF Use, TypeOK
<1> QED
  BY <1>1 DEF Kinds

\* Every step keeps it: what finalize marks missing leaves its albums out of date and
\* touched, so that refreshAlbums records a change.
LEMMA ChangesStep == TypeOK /\ StaleIsTouched /\ ChangesRecorded /\ [ScanNext]_vars => ChangesRecorded'
<1> SUFFICES ASSUME TypeOK, StaleIsTouched, ChangesRecorded, [ScanNext]_vars,
                    used'["crashes"] + used'["errors"] = 0
             PROVE  ChangesRecorded'
  BY DEF ChangesRecorded
<1>0. /\ scan.pc \in {"idle", "phase1", "albums", "stats", "update"} /\ unswept \in BOOLEAN
      /\ scan.changes \in BOOLEAN /\ scan.err \in BOOLEAN /\ scan \in ScanStates
      /\ {"edits", "scans", "errors", "tags", "mounts", "crashes"} \subseteq Kinds
  BY DEF TypeOK, ScanStates, Kinds
<1> USE <1>0, UseCounts DEF ChangesRecorded
<1>1. ASSUME NEW f \in Folders, Edit(f) PROVE ChangesRecorded'
  BY <1>1 DEF Edit, dbVars
<1>2. ASSUME Crash PROVE ChangesRecorded'
  BY <1>2 DEF Crash
<1>3. ASSUME NEW full, NEW scope, NEW reachable, scanFolders(full, scope, reachable),
             used["crashes"] + used["errors"] = 0
      PROVE  ChangesRecorded'
  BY <1>3 DEF scanFolders, newScanJob
<1>4. ASSUME NEW rq \in Requests, RequestScan(rq) PROVE ChangesRecorded'
  BY <1>3, <1>4 DEF RequestScan
<1>5. ASSUME runInitialScan PROVE ChangesRecorded'
  BY <1>3, <1>5 DEF runInitialScan, dbVars
<1>6. ASSUME NEW f \in Folders, walkFolder(f) PROVE ChangesRecorded'
  BY <1>6 DEF walkFolder, dbVars, ScanStates
<1>7. ASSUME NEW f \in Folders, processFolder(f) PROVE ChangesRecorded'
  BY <1>7 DEF processFolder, dbVars
<1>8. ASSUME NEW f \in Folders, persistChanges(f) PROVE ChangesRecorded'
  BY <1>8 DEF persistChanges, ScanStates
<1>9. ASSUME finalize PROVE ChangesRecorded'
  <2>1. /\ scan.pc = "phase1" /\ MarkMissing(scan.lastUpdates) /\ UNCHANGED used
        /\ scan' = IF scan.err THEN IdleScan ELSE [scan EXCEPT !.pc = "albums"]
    BY <1>9 DEF finalize
  <2>2. scan'.pc = "albums" /\ scan'.changes = scan.changes /\ ~scan'.err
    BY <2>1 DEF ScanStates
  <2>3. unswept' => unswept \/ stale' # {}
    BY <2>1 DEF MarkMissing
  <2> QED
    BY <2>1, <2>2, <2>3
<1>10. ASSUME refreshAlbums PROVE ChangesRecorded'
  <2>1. /\ scan' = [scan EXCEPT !.pc = "stats", !.changes = @ \/ AlbumChange]
        /\ scan.pc = "albums" /\ UNCHANGED <<used, unswept>>
    BY <1>10 DEF refreshAlbums
  <2>2. stale # {} => AlbumChange
    BY DEF AlbumChange, TouchedAlbums, StaleIsTouched
  <2>3. scan'.pc = "stats" /\ ~scan'.err /\ (scan'.changes <=> scan.changes \/ AlbumChange)
    BY <2>1 DEF ScanStates, AlbumChange
  <2> QED
    BY <2>1, <2>2, <2>3
<1>11. ASSUME Maintenance PROVE ChangesRecorded'
  BY <1>11 DEF Maintenance, ScanStates
<1>12. ASSUME runUpdateLibraries PROVE ChangesRecorded'
  BY <1>12 DEF runUpdateLibraries, IdleScan
<1>13. CASE UNCHANGED vars
  BY <1>13 DEF vars, dbVars
<1> QED
  BY <1>1, <1>2, <1>4, <1>5, <1>6, <1>7, <1>8, <1>9, <1>10, <1>11, <1>12, <1>13
     DEF ScanNext, ScanSteps

\* For any number of folders, edits and scans: as long as no scan was cut short, the
\* garbage collection and the statistics have seen every change of the tracks when no
\* scan is under way (changesDetected, runGC, runRefreshStats).
THEOREM MaintenanceNotSkipped == ScanSpec => []MaintenanceDone
<1>1. Init => ChangesRecorded
  BY DEF Init, ChangesRecorded, IdleScan
<1>2. ScanIInv /\ ChangesRecorded /\ [ScanNext]_vars => ChangesRecorded'
  BY ChangesStep DEF ScanIInv
<1>3. ScanIInv /\ ChangesRecorded => MaintenanceDone
  <2> SUFFICES ASSUME ScanIInv, ChangesRecorded, ~lib.started, unswept,
                      ~(used["crashes"] + used["errors"] > 0)
               PROVE  FALSE
    BY DEF MaintenanceDone
  <2>1. used["crashes"] \in Nat /\ used["errors"] \in Nat
    BY DEF ScanIInv, TypeOK, Kinds
  <2>2. scan.pc = "idle"
    BY DEF ScanIInv, StaleIsTouched
  <2> QED
    BY <2>1, <2>2 DEF ChangesRecorded
<1> QED
  BY <1>1, <1>2, <1>3, ScanInvariance, PTL DEF ScanSpec
-----------------------------------------------------------------------------
(* The inductive invariant behind FullScanFinishes                           *)

\* While the library is marked for a full scan, a track that scan still has to read is
\* under a row the scan has not written, and the running scan has not passed it: it is
\* before the walk, in the pipeline, or about to be marked missing.
OwedIsAhead ==
    lib.full =>
        /\ \A f \in owed : tracks[f] # 0 /\ ~row[f].fresh
        /\ scan.pc # "idle" => scan.full
        /\ scan.pc = "phase1" /\ ~scan.err =>
             \A f \in owed : f \in scan.todo \/ entry[f].at # "none" \/ f \in scan.lastUpdates
        /\ scan.pc \in {"albums", "stats", "update"} => owed = {}

\* What the scanner does not defend a full scan against: a scan under its mark that
\* walks only some folders (a selective request, a root that cannot be reached), and
\* another PID configuration while it is interrupted.
Undisturbed ==
    /\ scan.pc = "idle" /\ scan'.pc = "phase1" /\ lib'.full => scan'.scope = Folders
    /\ lib.full => conf' = conf

\* A scan of the whole library that begins owes the tracks that are there, or what the
\* full scan it resumes had left.
LEMMA OwedStart ==
    ASSUME TypeOK, TracksHaveRow, OwedIsAhead, Undisturbed,
           NEW full \in BOOLEAN, NEW scope \in SUBSET Folders, NEW reachable, scanFolders(full, scope, reachable)
    PROVE  OwedIsAhead'
<1> USE DEF TypeOK
<1> SUFFICES ASSUME lib'.full PROVE OwedIsAhead'
  BY DEF OwedIsAhead
<1>1. /\ scan'.pc = "phase1" /\ (scan'.full <=> Forced(full)) /\ scan'.todo = scan'.scope
      /\ scan.pc = "idle" /\ UNCHANGED <<tracks, entry>> /\ owed' = Owed(full, scope)
      /\ prepareLibrariesForScan(full)
      /\ scan'.scope = IF reachable THEN scope ELSE {}
  BY DEF scanFolders, newScanJob
<1>2. scan'.scope = Folders /\ scan'.todo = Folders /\ (Folders # {} => scope = Folders)
  BY <1>1 DEF Undisturbed
<1>3. scan'.full
  BY <1>1 DEF prepareLibrariesForScan, Forced
<1>4. \A f \in owed' : f \in Folders /\ tracks[f] # 0
  <2>1. owed \subseteq Folders
    OBVIOUS
  <2>2. CASE lib.full
    BY <1>1, <2>1, <2>2 DEF Owed, OwedIsAhead
  <2>3. CASE ~lib.full
    <3>1. full
      BY <1>1, <2>3 DEF prepareLibrariesForScan, Forced
    <3>2. CASE Folders = {}
      BY <1>1, <2>1, <3>2 DEF Owed
    <3>3. CASE Folders # {}
      BY <1>1, <1>2, <2>3, <3>1, <3>3 DEF Owed
    <3> QED
      BY <3>2, <3>3
  <2> QED
    BY <2>2, <2>3
<1>5. \A f \in owed' : ~row'[f].fresh
  <2>1. CASE lib.started
    BY <1>1, <2>1 DEF prepareLibrariesForScan, Owed, OwedIsAhead
  <2>2. CASE ~lib.started
    BY <1>1, <1>4, <2>2 DEF prepareLibrariesForScan, FolderRows
  <2> QED
    BY <2>1, <2>2
<1> QED
  BY <1>1, <1>2, <1>3, <1>4, <1>5 DEF OwedIsAhead

\* A full scan puts every folder it owes and finds into the pipeline.
LEMMA OwedWalk ==
    ASSUME TypeOK, TracksHaveRow, NotReached, OwedIsAhead, NEW f \in Folders, walkFolder(f)
    PROVE  OwedIsAhead'
<1> USE DEF TypeOK
<1> SUFFICES ASSUME lib.full PROVE OwedIsAhead'
  BY DEF OwedIsAhead, walkFolder, Phase1, libVars
<1>1. /\ UNCHANGED <<disk, lib, row, tracks, owed>> /\ scan.pc = "phase1" /\ f \in scan.todo
      /\ scan'.pc = "phase1" /\ scan'.full = scan.full /\ scan'.err = scan.err
      /\ scan'.todo = scan.todo \ {f}
      /\ scan'.lastUpdates = IF disk[f] = 0 THEN scan.lastUpdates ELSE scan.lastUpdates \ {f}
  BY DEF walkFolder, Phase1, libVars, dbVars, ScanStates
<1>2. \A g \in Folders \ {f} : entry'[g] = entry[g]
  BY DEF walkFolder
<1>3. ASSUME f \in owed, ~scan.err PROVE entry'[f].at # "none" \/ f \in scan'.lastUpdates
  <2>1. f \in scan.lastUpdates /\ ~row[f].fresh
    BY <1>1, <1>3 DEF TracksHaveRow, NotReached, OwedIsAhead
  <2>2. CASE disk[f] = 0
    BY <1>1, <2>1, <2>2
  <2>3. CASE disk[f] # 0
    <3>1. Put(f)
      BY <1>1, <2>1 DEF Put, isOutdated, OwedIsAhead
    <3>2. entry'[f].at = "walked"
      BY <1>3, <2>3, <3>1 DEF walkFolder
    <3> QED
      BY <3>2
  <2> QED
    BY <2>2, <2>3
<1> QED
  BY <1>1, <1>2, <1>3 DEF OwedIsAhead

\* What a full scan persists it no longer owes.
LEMMA OwedPersist ==
    ASSUME TypeOK, OwedIsAhead, NEW f \in Folders, persistChanges(f)
    PROVE  OwedIsAhead'
<1> USE DEF TypeOK
<1> SUFFICES ASSUME lib.full PROVE OwedIsAhead'
  BY DEF OwedIsAhead, persistChanges, libVars
<1>0. /\ lib' = lib /\ scan.pc = "phase1" /\ scan'.pc = "phase1" /\ scan'.full = scan.full /\ scan.full
      /\ scan'.todo = scan.todo /\ scan'.lastUpdates = scan.lastUpdates /\ ~scan.err
  BY DEF persistChanges, libVars, ScanStates, OwedIsAhead
<1>1. CASE Persisted(f) /\ entry' = [entry EXCEPT ![f] = NoEntry]
  <2>1. owed' = owed \ {f}
    BY <1>0, <1>1 DEF Persisted
  <2>2. \A g \in Folders \ {f} : row'[g] = row[g] /\ tracks'[g] = tracks[g] /\ entry'[g] = entry[g]
    BY <1>1 DEF Persisted
  <2> QED
    BY <1>0, <2>1, <2>2 DEF OwedIsAhead
<1>2. CASE UNCHANGED <<dbVars, owed>> /\ scan' = [scan EXCEPT !.changes = TRUE, !.err = TRUE]
  BY <1>0, <1>2 DEF OwedIsAhead, dbVars, ScanStates
<1> QED
  BY <1>1, <1>2 DEF persistChanges

\* With the walk and the pipeline empty, all that is owed is marked missing.
LEMMA OwedFinalize == ASSUME TypeOK, OwedIsAhead, finalize PROVE OwedIsAhead'
<1> USE DEF TypeOK
<1> SUFFICES ASSUME lib.full PROVE OwedIsAhead'
  BY DEF OwedIsAhead, finalize, libVars
<1>0. /\ lib' = lib /\ scan.pc = "phase1" /\ scan.todo = {} /\ \A f \in Folders : entry[f].at = "none"
      /\ scan.full
  BY DEF finalize, libVars, OwedIsAhead
<1>1. CASE MarkMissing(scan.lastUpdates) /\ scan' = IF scan.err THEN IdleScan ELSE [scan EXCEPT !.pc = "albums"]
  <2>1. owed' = owed \ scan.lastUpdates
    BY <1>1 DEF MarkMissing
  <2>2. \A f \in owed' : row'[f] = row[f] /\ tracks'[f] = tracks[f]
    <3>1. CASE scan.lastUpdates = {}
      BY <1>1, <2>1, <3>1 DEF MarkMissing
    <3>2. CASE scan.lastUpdates # {}
      <4>1. scan.lastUpdates \in SUBSET Folders /\ owed' \subseteq Folders \ scan.lastUpdates
        BY <2>1 DEF ScanStates
      <4> QED
        BY <1>1, <3>2, <4>1, MissingMarked
    <3> QED
      BY <3>1, <3>2
  <2>3. ~scan.err => owed' = {} /\ scan'.pc = "albums" /\ scan'.full
    BY <1>0, <1>1, <2>1 DEF OwedIsAhead, ScanStates
  <2>4. scan.err => scan'.pc = "idle"
    BY <1>1 DEF IdleScan
  <2> QED
    BY <1>0, <2>1, <2>2, <2>3, <2>4 DEF OwedIsAhead
<1>2. CASE scan' = IdleScan /\ UNCHANGED <<dbVars, owed>>
  BY <1>0, <1>2 DEF OwedIsAhead, dbVars, IdleScan
<1> QED
  BY <1>1, <1>2 DEF finalize

\* Every undisturbed step keeps what a full scan owes ahead of it, and takes the mark off
\* the library only when nothing is owed.
LEMMA OwedStep ==
    ScanIInv /\ OwedIsAhead /\ [ScanNext /\ Undisturbed]_vars =>
        OwedIsAhead' /\ (lib.full /\ ~lib'.full => owed' = {})
<1> SUFFICES ASSUME ScanIInv, OwedIsAhead, [ScanNext /\ Undisturbed]_vars
             PROVE  OwedIsAhead' /\ (lib.full /\ ~lib'.full => owed' = {})
  OBVIOUS
<1> USE DEF ScanIInv
<1>0. ASSUME UNCHANGED <<lib, owed, tracks, row>>,
             scan' = IdleScan \/ UNCHANGED <<scan, entry>>
                \/ /\ scan.pc \in {"albums", "stats"}
                   /\ scan'.pc \in {"albums", "stats", "update"} /\ scan'.full = scan.full
      PROVE  OwedIsAhead' /\ (lib.full /\ ~lib'.full => owed' = {})
  BY <1>0 DEF OwedIsAhead, IdleScan
<1>1. ASSUME NEW f \in Folders, Edit(f) PROVE OwedIsAhead' /\ (lib.full /\ ~lib'.full => owed' = {})
  BY <1>0, <1>1 DEF Edit, libVars, dbVars
<1>2. ASSUME Crash, Undisturbed PROVE OwedIsAhead' /\ (lib.full /\ ~lib'.full => owed' = {})
  <2>1. lib' = lib
    BY <1>2 DEF Crash, libVars
  <2>2. CASE lib.full
    BY <1>0, <1>2, <2>2 DEF Crash, Undisturbed, libVars, dbVars
  <2> QED
    BY <2>1, <2>2 DEF OwedIsAhead
<1>3. ASSUME NEW full \in BOOLEAN, NEW scope \in SUBSET Folders, NEW reachable,
             scanFolders(full, scope, reachable), Undisturbed
      PROVE  OwedIsAhead' /\ (lib.full /\ ~lib'.full => owed' = {})
  <2>1. OwedIsAhead'
    BY <1>3, OwedStart DEF DiskIInv
  <2>2. lib.full => lib'.full
    BY <1>3 DEF scanFolders, prepareLibrariesForScan, Forced, TypeOK
  <2> QED
    BY <2>1, <2>2
<1>4. ASSUME NEW rq \in Requests, RequestScan(rq), Undisturbed
      PROVE  OwedIsAhead' /\ (lib.full /\ ~lib'.full => owed' = {})
  <2>1. rq.full \in BOOLEAN
    BY RequestsAssumption
  <2> QED
    BY <1>3, <1>4, <2>1 DEF RequestScan
<1>5. ASSUME runInitialScan, Undisturbed PROVE OwedIsAhead' /\ (lib.full /\ ~lib'.full => owed' = {})
  <2>1. CASE UNCHANGED <<diskVars, libVars, dbVars, conf, scan, entry, owed, unread>>
    BY <1>0, <2>1 DEF libVars, dbVars
  <2> QED
    BY <1>3, <1>5, <2>1 DEF runInitialScan
<1>6. ASSUME NEW f \in Folders, walkFolder(f) PROVE OwedIsAhead' /\ (lib.full /\ ~lib'.full => owed' = {})
  <2>1. lib' = lib
    BY <1>6 DEF walkFolder, Phase1, libVars
  <2> QED
    BY <1>6, <2>1, OwedWalk DEF DiskIInv
<1>7. ASSUME NEW f \in Folders, processFolder(f) PROVE OwedIsAhead' /\ (lib.full /\ ~lib'.full => owed' = {})
  <2>1. \A g \in Folders : entry[g].at # "none" => entry'[g].at # "none"
    BY <1>7 DEF processFolder, TypeOK, Entries
  <2>2. UNCHANGED <<lib, owed, tracks, row, scan>> /\ owed \subseteq Folders
    BY <1>7 DEF processFolder, Phase1, libVars, dbVars, TypeOK
  <2> QED
    BY <2>1, <2>2 DEF OwedIsAhead
<1>8. ASSUME NEW f \in Folders, persistChanges(f) PROVE OwedIsAhead' /\ (lib.full /\ ~lib'.full => owed' = {})
  <2>1. lib' = lib
    BY <1>8 DEF persistChanges, libVars
  <2> QED
    BY <1>8, <2>1, OwedPersist
<1>9. ASSUME finalize PROVE OwedIsAhead' /\ (lib.full /\ ~lib'.full => owed' = {})
  <2>1. lib' = lib
    BY <1>9 DEF finalize, libVars
  <2> QED
    BY <1>9, <2>1, OwedFinalize
<1>10. ASSUME refreshAlbums \/ Maintenance PROVE OwedIsAhead' /\ (lib.full /\ ~lib'.full => owed' = {})
  <2>1. scan' = IdleScan \/ (/\ scan.pc \in {"albums", "stats"}
                             /\ scan'.pc \in {"albums", "stats", "update"} /\ scan'.full = scan.full)
    BY <1>10 DEF refreshAlbums, AlbumChange, Maintenance, TypeOK, ScanStates
  <2> QED
    BY <1>0, <1>10, <2>1 DEF refreshAlbums, Maintenance, libVars
<1>11. ASSUME runUpdateLibraries PROVE OwedIsAhead' /\ (lib.full /\ ~lib'.full => owed' = {})
  BY <1>11 DEF runUpdateLibraries, ScanEnded, OwedIsAhead, IdleScan, libVars
<1>12. CASE UNCHANGED vars
  BY <1>0, <1>12 DEF vars, libVars, dbVars
<1> QED
  BY <1>1, <1>2, <1>4, <1>5, <1>6, <1>7, <1>8, <1>9, <1>10, <1>11, <1>12 DEF ScanNext, ScanSteps

\* For any number of folders, edits, failures, restarts and requests: as long as every
\* scan under its mark walks the whole library and the PID configuration stays, the mark
\* of a full scan is taken off only when every track it was to read was read, is gone or
\* was reported as unreadable (ScanEnd, isOutdated, lastUpdates).
THEOREM FullScanCompletes == ScanSpec /\ [][Undisturbed]_vars => FullScanFinishes
<1>1. Init => OwedIsAhead
  BY DEF Init, OwedIsAhead
<1>2. ScanIInv /\ OwedIsAhead /\ [ScanNext /\ Undisturbed]_vars => OwedIsAhead'
  BY OwedStep
<1>3. ScanIInv /\ OwedIsAhead /\ [ScanNext /\ Undisturbed]_vars => [lib.full /\ ~lib'.full => owed' = {}]_vars
  BY OwedStep
<1>4. [ScanNext]_vars /\ [Undisturbed]_vars => [ScanNext /\ Undisturbed]_vars
  OBVIOUS
<1> QED
  BY <1>1, <1>2, <1>3, <1>4, ScanInvariance, PTL DEF ScanSpec, FullScanFinishes
====
