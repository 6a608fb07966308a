----------------------------- MODULE Maintenance -----------------------------
(***************************************************************************)
(* The composition of SystemTasks and AssetDeletion: one storage, one      *)
(* scanner that adds assets while it runs, the reset and the removal of    *)
(* the last library that take the rows away under a deletion, and restarts.*)
(* Beside them stand the lists of Browse, which read the rows and share no *)
(* step with the rest.                                                     *)
(***************************************************************************)
EXTENDS Naturals, FiniteSets

CONSTANTS
    Kind, Waited, MaxAutomaticRetries,                      \* see SystemTasks
    File, Media, Folder, Protected, Above, Dir, Stem,       \* see AssetDeletion
    Initially, MaxVersion, Budget,                          \* bounds: see there
    Entry, Name, Numerals, DirOf, Images, PageSize, Limit,  \* see Browse; DirOf is its Dir
    MaxAnchors, Thresholds, Shelves, Looks, MaxChanges,     \* see Browse
    Focus   \* bound: a behaviour is about the "work" of each kind, the "duplicates" (with the
            \* cleanup and the checks both), the "deletion", or the "browsing"; only the first
            \* two start without files

VARIABLES
    root, left,
    work, scan, rec, ai, dup, sched, unhashed, clean, check, reset, cut, crashed,
    disk, dirs, row, nextId, folders, link, adding, plan, del, refresh, orphaned, raced,
    shelf, view, hashing, tainted, changes,
    focus   \* what this behaviour is about

Tasks == INSTANCE SystemTasks
Del == INSTANCE AssetDeletion
Lists == INSTANCE Browse WITH Dir <- DirOf

ASSUME MaintenanceAssumption ==
    /\ "ai_analyze" \in Kind /\ Waited \subseteq Kind
    /\ Kind \cap {"duplicate_scan", "cache_cleanup", "storage_health_check", "scan", "cleanup"} = {}
    /\ Budget \in Nat /\ MaxVersion \in Nat \ {0}
    /\ Media \subseteq File /\ Protected \subseteq Folder /\ IsFiniteSet(Media)
    /\ Above \in [Folder -> SUBSET Folder] /\ \A f \in Folder : f \in Above[f]
    /\ Dir \in [File -> Folder]
    /\ Entry \subseteq Nat /\ Thresholds \subseteq Nat /\ MaxChanges \in Nat
    /\ Shelves \subseteq [Entry -> Lists!AssetRow]
    /\ \A s \in Shelves, i \in Entry : s[i].hash \in {Lists!NULL, s[i].content}

\* In the natural order of names, those that begin with the same sign stand together,
\* digits aside (filenameAnchorLabel, lpicto_natural_numeric).
ASSUME ListsAssumption ==
    /\ IsFiniteSet(Entry) /\ Images \subseteq Entry /\ DirOf \in [Entry -> Nat]
    /\ Name \in [Entry -> [key : Nat, low : Nat, letter : Nat]]
    /\ \A i, j, k \in Entry : /\ Name[i].key <= Name[j].key /\ Name[j].key <= Name[k].key
                               /\ Name[i].letter = Name[k].letter /\ Name[i].letter \notin Numerals
                               => Name[j].letter = Name[i].letter
    /\ Looks \subseteq [kind : {"library", "folder", "hidden", "duplicates"}, narrow : {"none", "fast", "tags"}]
    /\ PageSize \in Nat \ {0} /\ Limit \in Nat /\ MaxAnchors \in Nat \ {0, 1} /\ IsFiniteSet(Thresholds)

tasksOnly == <<work, scan, rec, ai, dup, sched, unhashed, clean, check, reset, cut, crashed>>
delOnly == <<disk, dirs, row, nextId, folders, link, adding, plan, del, refresh, orphaned, raced>>
listsOnly == <<shelf, view, hashing, tainted, changes>>
vars == <<root, left, tasksOnly, delOnly, listsOnly, focus>>

Init ==
    /\ Tasks!TasksInit /\ Del!DeletionInit /\ focus \in Focus
    /\ (focus \in {"work", "duplicates"}) = (Del!Here = {})
    /\ IF focus = "browsing" THEN Lists!BrowseInit
       ELSE shelf = <<>> /\ view = Lists!NoView /\ hashing = Lists!NoFile /\ tainted = {} /\ changes = 0

(***************************************************************************)
(* Steps of one part.  A scan adds and misses assets while it runs, and    *)
(* ends when its last row is written.                                      *)
(***************************************************************************)
TaskStep ==
    /\ focus # "browsing" /\ UNCHANGED <<delOnly, listsOnly, focus>>
    /\ \/ focus = "work" /\ Tasks!WorkNext
       \/ focus = "duplicates" /\ (Tasks!DuplicateNext \/ Tasks!ScanStarts \/ Tasks!ScanEnds)
       \/ focus \in {"work", "duplicates"} /\ (Tasks!CheckNext \/ Tasks!CleanupNext)
       \/ focus = "deletion" /\ (Tasks!ScanStarts \/ (adding = "none" /\ Tasks!ScanEnds))
       \/ Tasks!EndCleanup \/ Tasks!ResetNext

DeletionStep ==
    /\ focus = "deletion" /\ UNCHANGED <<tasksOnly, listsOnly, focus>>
    /\ Del!RowsNext \/ Del!DeleteNext \/ (scan # "idle" /\ Del!ScanNext)

ListStep == focus = "browsing" /\ Lists!BrowseNext /\ UNCHANGED <<root, left, tasksOnly, delOnly, focus>>

(***************************************************************************)
(* Steps of both tasks and deletion.                                       *)
(***************************************************************************)
Apart == focus # "browsing" /\ UNCHANGED <<listsOnly, focus>>

\* The storage is mounted, unmounted, or fails.
StorageTurns == Tasks!StorageChanges /\ Del!StorageMoves /\ Apart

\* The last library is removed: removeScanLibrary starts the cleanup of all assets.
LastLibraryGoes == Tasks!StartCleanup("all") /\ UNCHANGED delOnly /\ Apart
AllAssetsGo == Tasks!ClearAllAssets /\ Del!ClearAll /\ Apart

\* ResetMediaLibrary's transaction.
LibraryIsReset == Tasks!Truncate /\ Del!TruncateLibrary /\ Apart

Restarts == Tasks!Restart /\ Del!Forget /\ Apart

Next == TaskStep \/ DeletionStep \/ ListStep \/ StorageTurns \/ LastLibraryGoes \/ AllAssetsGo \/ LibraryIsReset \/ Restarts

Spec == Init /\ [][Next]_vars

TypeOK == Tasks!TasksTypeOK /\ Del!DeletionTypeOK /\ (focus = "browsing" => Lists!BrowseTypeOK)

\* The properties of the parts, stated where the parts are.
RunningIsRecorded == Tasks!RunningIsRecorded
ResetIsQuiet == Tasks!ResetIsQuiet
DeletesOnlyShown == Del!DeletesOnlyShown
OnlyNamedMediaGoes == Del!OnlyNamedMediaGoes
PurgedWasGone == Del!PurgedWasGone
FoldersStay == Del!FoldersStay
NeighboursFollowList == Lists!NeighboursFollowList
PlacesAgree == Lists!PlacesAgree
SelectionKeepsOne == focus = "browsing" => Lists!SelectionKeepsOne
=============================================================================
