----------------------------- MODULE LibraryScan -----------------------------
(* A scan of one library (scanner/scanner.go, phase_1_folders.go,            *)
(* phase_3_refresh_albums.go) over the rows it leaves in the database, with  *)
(* the files changing under it and the server restarting at any point.       *)
(*                                                                           *)
(* A folder's files are a version number, 0 when the folder is not there;    *)
(* every edit of the disk uses a new one. A folder holds one album. A time   *)
(* stamp appears as what the code compares it with: `fresh' is updated_at >= *)
(* last_scan_started_at, `touched' is imported_at > last_scan_at.            *)
EXTENDS Naturals, FiniteSets

CONSTANTS
    Folders,
    Silent,          \* the versions without an audio file
    Requests,        \* kinds of scan people and timers ask for: [full, selective]
    ScanOnStartup,   \* conf.Server.Scanner.ScanOnStartup
    MaxEdits,        \* bound: versions of the disk
    MaxScans,        \* bound: scans asked for
    MaxConf,         \* bound: values the PID configuration takes
    MaxErrors,       \* bound: database transactions that fail
    MaxTagErrors,    \* bound: files that cannot be read
    MaxMountErrors,  \* bound: scans that find the library's root unreachable
    MaxCrashes       \* bound: restarts of the server

ASSUME RequestsAssumption == Requests \subseteq [full : BOOLEAN, selective : BOOLEAN]
ASSUME ScanBoundsAssumption ==
    /\ MaxEdits \in Nat \ {0} /\ Silent \subseteq 1..MaxEdits /\ ScanOnStartup \in BOOLEAN
    /\ MaxScans \in Nat /\ MaxConf \in Nat \ {0} /\ MaxErrors \in Nat
    /\ MaxTagErrors \in Nat /\ MaxMountErrors \in Nat /\ MaxCrashes \in Nat

VARIABLES
    disk,      \* per folder: its version on disk
    lib,       \* row of table library: last_scan_started_at # 0, full_scan_in_progress
    pidKey,    \* property PIDTrack: the configuration of the last scan that ended
    row,       \* per folder: its row in table folder
    tracks,    \* per folder: version of its tracks in table media_file, 0 if none or missing
    touched,   \* albums with imported_at > last_scan_at
    stale,     \* albums whose totals do not reflect their tracks
    unswept,   \* the tracks changed since the last GC and statistics
    conf,      \* conf.Server.PID of this run of the server
    boot,      \* what runInitialScan decided to do
    scan,      \* the running scan: program counter and scanState
    entry,     \* per folder: its folderEntry in the pipeline of phase 1
    used,      \* what was used of the bounds
    owed,      \* history: folders a full scan was asked for and has not read
    unread,    \* history: folders whose files could not be read when last tried
    quiet      \* history: folders not edited since the scan began

diskVars == <<disk, quiet>>
libVars == <<lib, pidKey>>
dbVars == <<row, tracks, touched, stale, unswept>>
bootVars == <<conf, boot>>
vars == <<diskVars, libVars, dbVars, bootVars, scan, entry, used, owed, unread>>

Kinds == {"edits", "scans", "errors", "tags", "mounts", "crashes"}
Bound == [edits |-> MaxEdits, scans |-> MaxScans, errors |-> MaxErrors,
          tags |-> MaxTagErrors, mounts |-> MaxMountErrors, crashes |-> MaxCrashes]
Use(k) == used[k] < Bound[k] /\ used' = [used EXCEPT ![k] = @ + 1]

Versions == 0..MaxEdits
NoRow == [hash |-> <<0, 0>>, missing |-> FALSE, fresh |-> FALSE]
NoEntry == [at |-> "none", walked |-> 0, read |-> 0]
IdleScan == [pc |-> "idle", full |-> FALSE, changes |-> FALSE, err |-> FALSE,
             scope |-> {}, todo |-> {}, lastUpdates |-> {}]
Known(f) == row[f].hash # <<0, 0>> /\ ~row[f].missing
HasAudio(v) == v # 0 /\ v \notin Silent

-----------------------------------------------------------------------------
(* The world: the disk, the operating system, the people who ask for scans   *)

\* Files get newer times only: one replaced by an older file is not modelled.
Edit(f) ==
    /\ Use("edits")
    /\ \E v \in {0, used["edits"] + 1} : v # disk[f] /\ disk' = [disk EXCEPT ![f] = v]
    /\ quiet' = quiet \ {f}
    /\ UNCHANGED <<libVars, dbVars, bootVars, scan, entry, owed, unread>>

\* mutant: a restart does not look for an interrupted scan
NotInProgress == FALSE

ScanInProgress == lib.started

\* runInitialScan reads the properties; it acts on them two seconds later.
BootKind(c) == IF pidKey # c THEN "full" ELSE IF ScanOnStartup \/ ScanInProgress THEN "quick" ELSE "none"

\* The process ends and starts again, maybe with another PID configuration.
Crash ==
    /\ Use("crashes")
    /\ \E c \in {conf, conf + 1} \cap (1..MaxConf) :
         /\ conf' = c
         /\ owed' = IF c = conf THEN owed ELSE {f \in Folders : tracks[f] # 0}
         /\ boot' = BootKind(c)
    /\ scan' = IdleScan
    /\ entry' = [f \in Folders |-> NoEntry]
    /\ UNCHANGED <<diskVars, libVars, dbVars, unread>>

-----------------------------------------------------------------------------
(* scanFolders up to the first phase                                         *)

\* mutant: a full scan that was interrupted is not forced on its successor
AsAsked(full) == full

\* "if there was a full scan in progress, force a full scan"
Forced(full) == full \/ lib.full

\* prepareLibrariesForScan: a scan that was interrupted is resumed.
prepareLibrariesForScan(full) ==
    IF lib.started
    THEN UNCHANGED <<lib, row>>
    ELSE /\ lib' = [started |-> TRUE, full |-> Forced(full)]
         /\ row' = [f \in Folders |-> [row[f] EXCEPT !.fresh = FALSE]]

\* Nothing is owed for a resumed full scan but what it has not read yet.
Owed(full, scope) ==
    IF full /\ scope = Folders /\ ~lib.full THEN {f \in Folders : tracks[f] # 0} ELSE owed

\* newScanJob reads the folder rows of the folders it will walk.
newScanJob(full, walk) ==
    scan' = [pc |-> "phase1", full |-> Forced(full), changes |-> full, err |-> FALSE,
             scope |-> walk, todo |-> walk, lastUpdates |-> {f \in walk : Known(f)}]

\* Without its root a library has no job, and the scan goes on with nothing to walk.
scanFolders(full, scope, reachable) ==
    /\ scan.pc = "idle"
    /\ prepareLibrariesForScan(full)
    /\ newScanJob(full, IF reachable THEN scope ELSE {})
    /\ owed' = Owed(full, scope)
    /\ quiet' = Folders
    /\ UNCHANGED <<disk, pidKey, tracks, touched, stale, unswept, conf, entry, unread>>

\* A request through the API, the scheduler, a signal or the folder watcher.
\* While a scan runs it is refused with ErrAlreadyScanning and changes nothing.
RequestScan(rq) ==
    /\ \/ \E scope \in SUBSET Folders \ {{}} :
            /\ rq.selective \/ scope = Folders
            /\ scanFolders(rq.full, scope, TRUE) /\ Use("scans")
       \/ ~rq.selective /\ scanFolders(rq.full, Folders, FALSE) /\ Use("mounts")
    /\ UNCHANGED boot

\* The scan of a restart; a scan that runs already makes it fail, and so does a
\* database that cannot list or mark the libraries.
runInitialScan ==
    /\ boot # "none"
    /\ boot' = "none"
    /\ \/ scanFolders(boot = "full", Folders, TRUE) /\ UNCHANGED used
       \/ scanFolders(boot = "full", Folders, FALSE) /\ Use("mounts")
       \/ /\ (scan.pc # "idle" /\ UNCHANGED used) \/ Use("errors")
          /\ UNCHANGED <<diskVars, libVars, dbVars, conf, scan, entry, owed, unread>>

-----------------------------------------------------------------------------
(* Phase 1: walk the folders, read the files of those that are outdated, and *)
(* persist them one at a time; the stages run concurrently                   *)

\* mutant: the hash sees only the files, not the newest time the walk saw
hashOfFiles(walked, now) == <<now, now>>

\* folderEntry.hash mixes times the walk took with file times of the moment.
hash(walked, now) == <<walked, IF walked \in Silent THEN walked ELSE now>>

isNew(f) == f \notin scan.lastUpdates
isOutdated(f) ==
    \/ isNew(f)
    \/ scan.full /\ ~row[f].fresh
    \/ row[f].hash # hash(disk[f], disk[f])

Put(f) == isOutdated(f) /\ (scan.full \/ ~isNew(f) \/ HasAudio(disk[f]))

Phase1 == <<disk, libVars, bootVars, quiet, owed>>

\* A folder that is gone stays in lastUpdates; one that is there leaves it.  Directories
\* that cannot be read are left out.
walkFolder(f) ==
    /\ scan.pc = "phase1" /\ f \in scan.todo
    /\ scan' = [scan EXCEPT !.todo = @ \ {f},
                            !.lastUpdates = IF disk[f] = 0 THEN @ ELSE @ \ {f}]
    /\ entry' = IF disk[f] # 0 /\ Put(f) /\ ~scan.err
                THEN [entry EXCEPT ![f] = [at |-> "walked", walked |-> disk[f], read |-> 0]]
                ELSE entry
    /\ UNCHANGED <<Phase1, dbVars, used, unread>>

\* Which version of the files processFolder hands on: 0 for nothing new, or for
\* files that are no longer there to be read.
ToImport(f) == IF HasAudio(disk[f]) /\ (scan.full \/ tracks[f] # disk[f]) THEN disk[f] ELSE 0

processFolder(f) ==
    /\ scan.pc = "phase1" /\ entry[f].at = "walked"
    /\ \/ /\ entry' = [entry EXCEPT ![f].at = "processed", ![f].read = ToImport(f)]
          /\ UNCHANGED <<used, unread>>
       \/ /\ HasAudio(entry[f].walked) /\ ToImport(f) # 0 /\ Use("tags")   \* skipped with a warning
          /\ entry' = [entry EXCEPT ![f].at = "processed"]
          /\ unread' = unread \cup {f}
    /\ UNCHANGED <<Phase1, dbVars, scan>>

\* The new row, tracks and album of one folder, in one transaction.
Persisted(f) ==
    LET e == entry[f]
        gone == e.walked \in Silent
        imported == ~gone /\ e.read # 0
        lost == gone /\ tracks[f] # 0
    IN  /\ row' = [row EXCEPT ![f] = [hash |-> hash(e.walked, disk[f]), missing |-> FALSE, fresh |-> TRUE]]
        /\ tracks' = [tracks EXCEPT ![f] = IF gone THEN 0 ELSE IF imported THEN e.read ELSE @]
        /\ IF imported \/ lost
           THEN touched' = touched \cup {f} /\ stale' = stale \cup {f} /\ unswept' = TRUE
           ELSE UNCHANGED <<touched, stale, unswept>>
        /\ unread' = IF imported THEN unread \ {f} ELSE unread
        /\ owed' = IF scan.full \/ lost THEN owed \ {f} ELSE owed

persistChanges(f) ==
    /\ scan.pc = "phase1" /\ entry[f].at = "processed" /\ ~scan.err
    /\ \/ /\ Persisted(f) /\ scan' = [scan EXCEPT !.changes = TRUE]
          /\ entry' = [entry EXCEPT ![f] = NoEntry]
          /\ UNCHANGED used
       \/ /\ Use("errors") /\ scan' = [scan EXCEPT !.changes = TRUE, !.err = TRUE]
          /\ entry' = [g \in Folders |-> NoEntry]
          /\ UNCHANGED <<dbVars, owed, unread>>
    /\ UNCHANGED <<disk, libVars, bootVars, quiet>>

\* What was not found is marked missing, with its tracks, and its albums touched.
MarkMissing(gone) ==
    IF gone = {} THEN UNCHANGED <<row, tracks, touched, stale, unswept, owed>>
    ELSE /\ row' = [f \in Folders |-> IF f \in gone THEN [row[f] EXCEPT !.missing = TRUE, !.fresh = TRUE]
                                                    ELSE row[f]]
         /\ tracks' = [f \in Folders |-> IF f \in gone THEN 0 ELSE tracks[f]]
         /\ touched' = touched \cup {f \in Folders : row'[f].missing}
         /\ stale' = stale \cup {f \in gone : tracks[f] # 0}
         /\ unswept' = (unswept \/ \E f \in gone : tracks[f] # 0)
         /\ owed' = owed \ gone

\* The phase ends when the walk and the pipeline are empty.
finalize ==
    /\ scan.pc = "phase1" /\ scan.todo = {} /\ \A f \in Folders : entry[f].at = "none"
    /\ \/ /\ MarkMissing(scan.lastUpdates)
          /\ scan' = IF scan.err THEN IdleScan ELSE [scan EXCEPT !.pc = "albums"]
          /\ UNCHANGED used
       \/ Use("errors") /\ scan' = IdleScan /\ UNCHANGED <<dbVars, owed>>
    /\ UNCHANGED <<disk, libVars, bootVars, quiet, entry, unread>>

-----------------------------------------------------------------------------
(* Phase 3 and the final steps                                               *)

\* mutant: only the albums of this scan's folders are looked at
TouchedHere == touched \cap scan.scope

\* GetTouchedAlbums
TouchedAlbums == touched

\* mutant: refreshing an album is not taken for a change
NoAlbumChange == FALSE

\* refreshAlbum sets changesDetected.
AlbumChange == stale \cap TouchedAlbums # {}

\* A failure leaves the albums refreshed so far.
refreshAlbums ==
    /\ scan.pc = "albums"
    /\ \/ /\ stale' = stale \ TouchedAlbums
          /\ scan' = [scan EXCEPT !.pc = "stats", !.changes = @ \/ AlbumChange]
          /\ UNCHANGED used
       \/ /\ Use("errors") /\ scan' = IdleScan
          /\ \E some \in SUBSET TouchedAlbums : stale' = stale \ some
    /\ UNCHANGED <<diskVars, libVars, row, tracks, touched, unswept, bootVars, entry, owed, unread>>

\* runGC and runRefreshStats do nothing when the scan saw no change.
Maintenance ==
    /\ scan.pc = "stats"
    /\ \/ /\ unswept' = (unswept /\ ~scan.changes)
          /\ scan' = [scan EXCEPT !.pc = "update"] /\ UNCHANGED used
       \/ Use("errors") /\ scan.changes /\ scan' = IdleScan /\ UNCHANGED unswept
    /\ UNCHANGED <<diskVars, libVars, row, tracks, touched, stale, bootVars, entry, owed, unread>>

\* mutant: the library stays marked for a full scan
ScanEndedOnce == lib' = [lib EXCEPT !.started = FALSE] /\ touched' = {} /\ pidKey' = conf

\* Library.ScanEnd and the PID properties
ScanEnded == lib' = [started |-> FALSE, full |-> FALSE] /\ touched' = {} /\ pidKey' = conf

\* runUpdateLibraries: ScanEnd and the PID properties, in one transaction.
runUpdateLibraries ==
    /\ scan.pc = "update"
    /\ scan' = IdleScan
    /\ \/ ScanEnded /\ UNCHANGED used
       \/ Use("errors") /\ UNCHANGED <<libVars, touched>>
    /\ UNCHANGED <<diskVars, row, tracks, stale, unswept, bootVars, entry, owed, unread>>

-----------------------------------------------------------------------------
Init ==
    /\ disk \in [Folders -> {0, 1}]
    /\ lib = [started |-> FALSE, full |-> FALSE] /\ pidKey = 0
    /\ row = [f \in Folders |-> NoRow] /\ tracks = [f \in Folders |-> 0]
    /\ touched = {} /\ stale = {} /\ unswept = FALSE
    /\ conf = 1 /\ boot = "full"
    /\ scan = IdleScan /\ entry = [f \in Folders |-> NoEntry]
    /\ used = [[k \in Kinds |-> 0] EXCEPT !["edits"] = 1]
    /\ owed = {} /\ unread = {} /\ quiet = Folders

ScanSteps ==
    \/ \E f \in Folders : walkFolder(f) \/ processFolder(f) \/ persistChanges(f)
    \/ finalize \/ refreshAlbums \/ Maintenance \/ runUpdateLibraries

ScanNext ==
    \/ \E f \in Folders : Edit(f)
    \/ Crash
    \/ \E rq \in Requests : RequestScan(rq)
    \/ runInitialScan
    \/ ScanSteps

ScanSpec == Init /\ [][ScanNext]_vars
FairScanSpec == ScanSpec /\ WF_vars(ScanSteps) /\ WF_vars(runInitialScan)
-----------------------------------------------------------------------------
(* Properties                                                                *)

FolderRows == [hash : Versions \X Versions, missing : BOOLEAN, fresh : BOOLEAN]
Entries == [at : {"none", "walked", "processed"}, walked : Versions, read : Versions]
ScanStates ==
    [pc : {"idle", "phase1", "albums", "stats", "update"}, full : BOOLEAN, changes : BOOLEAN,
     err : BOOLEAN, scope : SUBSET Folders, todo : SUBSET Folders, lastUpdates : SUBSET Folders]

\* The type of every variable; a library is marked for a full scan only while a
\* scan of it is under way (ScanBegin, ScanEnd), folder entries and the rest of
\* lastUpdates live only in phase 1.
TypeOK ==
    /\ disk \in [Folders -> Versions] /\ quiet \subseteq Folders
    /\ lib \in [started : BOOLEAN, full : BOOLEAN] /\ (lib.full => lib.started)
    /\ pidKey \in 0..MaxConf /\ conf \in 1..MaxConf /\ boot \in {"none", "quick", "full"}
    /\ row \in [Folders -> FolderRows]
    /\ tracks \in [Folders -> Versions]
    /\ touched \subseteq Folders /\ stale \subseteq Folders /\ unswept \in BOOLEAN
    /\ scan \in ScanStates /\ scan.todo \subseteq scan.scope /\ scan.lastUpdates \subseteq scan.scope
    /\ entry \in [Folders -> Entries]
    /\ (\E f \in Folders : entry[f].at # "none") => scan.pc = "phase1"
    /\ used \in [Kinds -> Nat] /\ owed \subseteq Folders /\ unread \subseteq Folders

\* The tracks and the row of a folder agree with the disk.
Matches(f) ==
    IF HasAudio(disk[f]) THEN tracks[f] = disk[f] /\ Known(f)
                         ELSE tracks[f] = 0 /\ (disk[f] = 0 => ~Known(f))

\* Once phase 1 of a scan is over, the database agrees with the disk for every
\* folder the scan was to look at that was not edited since it began, however
\* earlier scans were interrupted, failed half way or raced with edits
\* (isOutdated, processFolder, persistChanges and finalize of phase 1). Only a
\* folder whose files could not be read is left behind.
LibraryMatchesDisk ==
    scan.pc \in {"albums", "stats", "update"} => \A f \in (scan.scope \cap quiet) \ unread : Matches(f)

\* A library that is not marked as being scanned has no album whose totals are
\* out of date: an album touched by a scan that died before phase 3 is still
\* found by the next scan, selective or not (GetTouchedAlbums, ScanEnd).
AlbumsRefreshed == ~lib.started => stale = {}

\* The mark of a full scan is taken off a library (ScanEnd) only when every
\* track that scan was to read again was read, is gone or was reported as
\* unreadable, through whatever interruptions and later requests ("if there was
\* a full scan in progress, force a full scan"; isOutdated, lastUpdates).
FullScanFinishes == [][lib.full /\ ~lib'.full => owed' = {}]_vars

\* When a scan ends, the garbage collection and the statistics have seen every
\* change of the tracks, also when all that changed is what finalize marked
\* missing, which only phase 3 reports as a change; unless a scan was cut short
\* (changesDetected, runGC, runRefreshStats).
MaintenanceDone == ~lib.started /\ unswept => used["crashes"] + used["errors"] > 0

\* A scan that a restart interrupted is run to its end, even when scans on
\* startup are off (runInitialScan); only a scan that a failing transaction
\* stopped waits for the next request.
ScanResumed == lib.started ~> (~lib.started \/ used["errors"] > 0)
=============================================================================
