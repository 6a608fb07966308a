---------------------------- MODULE AssetDeletion ----------------------------
(***************************************************************************)
(* Deleting media with their files (api/asset_delete.go, the batch delete  *)
(* of api/batch.go), deleting records only, and the folder rows that are   *)
(* recomputed afterwards (db/folders.go), while a scan adds assets and the *)
(* disk changes underneath.                                                *)
(*                                                                         *)
(* A file's version stands for its size and modification time.  A path has *)
(* at most one row; rows are told apart by their id, folders by their path.*)
(* Reading the directories for a plan is one step; every removal, every    *)
(* row marked and the purge are steps of their own.                        *)
(***************************************************************************)
EXTENDS Naturals, FiniteSets

CONSTANTS
    File, Media,        \* files that may exist, and those that are media
    Folder, Protected,  \* folders, and the roots of a library or a mount among them
    Above,              \* a folder with the folders above it
    Dir,                \* the folder of a file
    Stem,               \* its name without the extension, or what a subtitle belongs to
    Initially,          \* bound: the sets of files a behaviour may start with
    MaxVersion,         \* bound: versions of a file
    Budget              \* bound: requests, changes, scans and failing calls

VARIABLES
    root,       \* the storage: up, gone (not mounted) or failing (every call fails)
    disk,       \* version of each file, 0 when it does not exist
    dirs,       \* folders that exist
    row,        \* the row of each media file and its id
    nextId,     \* the sequence of ids, which a reset starts again
    folders,    \* folder rows
    link,       \* media whose row has a folder_id
    adding,     \* the file a scan is adding
    plan,       \* the plan last shown to the user
    del,        \* the deletion in progress
    refresh,    \* RefreshFolders: one is due; the folders each one under way will drop
    orphaned,   \* history: purged by a deletion although the file had been there all along
    raced,      \* history: rows whose adding a refresh overlapped
    left        \* what the bound leaves

library == <<row, nextId, folders, link>>
marks == <<orphaned, raced>>

Spend == left > 0 /\ left' = left - 1

NoRow == [st |-> "none", id |-> 0]
NoPlan == [asset |-> "none", id |-> 0, mode |-> "none", files |-> {}, dirs |-> {}, warn |-> "none"]
NoDel == [pc |-> "idle", how |-> "none", asset |-> "none", mode |-> "none", cur |-> "none",
          todo |-> {}, dirs |-> {}, fails |-> FALSE, ids |-> {}, list |-> {}, direct |-> {},
          shown |-> {}, removed |-> {}, absent |-> {}, crossed |-> FALSE]

Here == {f \in File : disk[f] # 0}
Below(f) == {x \in File : f \in Above[Dir[x]]}
Inside(f) == {d \in Folder : f \in Above[d]}
Seen == {m \in Media : row[m].st = "seen"}
Absent(d, r) == IF r = "up" THEN {m \in Media : d[m] = 0} ELSE Media

DeletionTypeOK ==
    /\ disk \in [File -> 0..MaxVersion] /\ dirs \subseteq Folder /\ folders \subseteq Folder
    /\ row \in [Media -> [st : {"none", "seen", "missing", "deleted"}, id : Nat]] /\ nextId \in Nat
    /\ link \subseteq Media /\ orphaned \subseteq Media /\ raced \subseteq Media
    /\ adding \in Media \cup {"none"}
    /\ plan \in [asset : Media \cup {"none"}, id : Nat, mode : {"none", "files", "folder"},
                 files : SUBSET (File \X (0..MaxVersion)), dirs : SUBSET Folder,
                 warn : {"none", "root", "others"}]
    /\ del \in [pc : {"idle", "next", "files", "mark", "dirs", "under", "purge", "records"},
                how : {"none", "confirmed", "batch"}, asset : Media \cup {"none"},
                mode : {"none", "files", "folder"}, cur : File \cup {"none"},
                todo : SUBSET File, dirs : SUBSET Folder, fails : BOOLEAN,
                ids : SUBSET Nat, list : SUBSET Nat, direct : SUBSET Nat,
                shown : SUBSET File, removed : SUBSET File, absent : SUBSET Media, crossed : BOOLEAN]
    /\ refresh \in [due : BOOLEAN, drops : SUBSET SUBSET Folder]
    /\ left \in 0..Budget

DeletionInit ==
    /\ root = "up" /\ left = Budget
    /\ \E some \in Initially : disk = [f \in File |-> IF f \in some THEN 1 ELSE 0]
    /\ dirs = UNION {Above[Dir[f]] : f \in Here}
    /\ LET id == CHOOSE n \in [Media -> 1..Cardinality(Media)] : \A a, b \in Media : n[a] = n[b] => a = b
       IN row = [m \in Media |-> IF disk[m] = 0 THEN NoRow ELSE [st |-> "seen", id |-> id[m]]]
    /\ nextId = Cardinality(Media) + 1
    /\ link = Seen /\ folders = UNION {Above[Dir[m]] : m \in Seen}
    /\ adding = "none" /\ plan = NoPlan /\ del = NoDel
    /\ refresh = [due |-> FALSE, drops |-> {}] /\ orphaned = {} /\ raced = {}

(***************************************************************************)
(* The disk, outside the program.  A deletion in progress remembers which  *)
(* files have been absent since it began.                                  *)
(***************************************************************************)
Watched(d, r) == IF del.pc = "idle" THEN del ELSE [del EXCEPT !.absent = @ \cup Absent(d, r)]

FileChanges(f) ==
    /\ Spend /\ root = "up"
    /\ \E v \in {0, disk[f] + 1} \ {disk[f]} :
          /\ v <= MaxVersion /\ disk' = [disk EXCEPT ![f] = v]
          /\ dirs' = IF v = 0 THEN dirs ELSE dirs \cup Above[Dir[f]]
    /\ del' = Watched(disk', root)
    /\ UNCHANGED <<root, library, adding, plan, refresh, marks>>

StorageMoves ==
    /\ del' = Watched(disk, root')
    /\ UNCHANGED <<disk, dirs, library, adding, plan, refresh, marks>>

(***************************************************************************)
(* The rows: purged by id, added by a scan, lost by a scan.                *)
(***************************************************************************)
Purged(ids) == [m \in Media |-> IF row[m].id \in ids THEN NoRow ELSE row[m]]
Struck(S) == [m \in Media |-> IF m \in S THEN [row[m] EXCEPT !.st = "deleted"] ELSE row[m]]
Rowless(r) == {m \in Media : r[m].st = "none"}
Due == [refresh EXCEPT !.due = TRUE]

\* UpsertAssetDetailed: the folders first, then the row in a transaction.
ScanFinds(m) ==
    /\ adding = "none" /\ root = "up" /\ m \in Here
    /\ adding' = m /\ folders' = folders \cup Above[Dir[m]]
    /\ UNCHANGED <<root, disk, dirs, row, nextId, link, plan, del, refresh, marks, left>>

\* A path that has a row the view assets does not show is refused, and so is one
\* whose folder row has been removed meanwhile.
ScanWrites ==
    /\ adding # "none" /\ adding' = "none"
    /\ IF Dir[adding] \in folders /\ row[adding].st \in {"none", "seen"}
       THEN /\ link' = link \cup {adding} /\ raced' = raced \cup {m \in {adding} : refresh.drops # {}}
            /\ IF row[adding].st = "seen" THEN UNCHANGED <<row, nextId>>
               ELSE row' = [row EXCEPT ![adding] = [st |-> "seen", id |-> nextId]] /\ nextId' = nextId + 1
       ELSE UNCHANGED <<row, nextId, link, raced>>
    /\ UNCHANGED <<root, disk, dirs, folders, plan, del, refresh, orphaned, left>>

ScanMisses(m) ==
    /\ m \in Seen /\ root = "up" /\ m \notin Here
    /\ row' = [row EXCEPT ![m].st = "missing"]
    /\ UNCHANGED <<root, disk, dirs, nextId, folders, link, adding, plan, del, refresh, marks, left>>

\* deleteAssetRecord, batchDeleteRecords: the row goes, the file stays.
DeleteRecord(m) ==
    /\ Spend /\ row[m].st # "none"
    /\ row' = Purged({row[m].id}) /\ link' = link \ {m} /\ refresh' \in {refresh, Due}
    /\ UNCHANGED <<root, disk, dirs, nextId, folders, adding, plan, del, marks>>

(***************************************************************************)
(* RefreshFolders.                                                         *)
(***************************************************************************)
NeededDirect == {Dir[m] : m \in Seen}
Needed == UNION {Above[Dir[m]] : m \in Seen}

\* rebuildFoldersFromAssets, relinkAssetFolders and folderStatsSnapshot.
RefreshReads ==
    /\ refresh.due
    /\ folders' = folders \cup Needed /\ link' = link \cup Seen
    /\ raced' = IF refresh.drops = {} THEN raced \ Seen ELSE raced
    /\ refresh' = [due |-> FALSE, drops |-> refresh.drops \cup {folders \ Needed}]
    /\ UNCHANGED <<root, disk, dirs, row, nextId, adding, plan, del, orphaned, left>>

\* writeFolderStats; the foreign key clears folder_id.
RefreshWrites ==
    \E drop \in refresh.drops :
        /\ refresh' = [refresh EXCEPT !.drops = @ \ {drop}]
        /\ folders' = folders \ drop /\ link' = {m \in link : Dir[m] \notin drop}
        /\ raced' = raced \cup (Media \cap {adding})
        /\ UNCHANGED <<root, disk, dirs, row, nextId, adding, plan, del, orphaned, left>>

(***************************************************************************)
(* The plan of a deletion.                                                 *)
(***************************************************************************)
\* buildAssetDeletePlan needs the root and the file.
NoPlanFor(a) == root # "up" \/ a \notin Here

\* The whole folder goes when the asset is the only media in it and below it,
\* unless it is the root of a library; else the files of the same name.
OtherBeside(a) == {m \in Media \cap Here : Dir[m] = Dir[a]} \ {a}
OtherMedia(a) == ((Below(Dir[a]) \cap Media) \cap Here) \ {a}
PlanFor(a) ==
    LET beside == {m \in Media \cap Here : Dir[m] = Dir[a]}
        alone == beside = {a}
        whole == alone /\ Dir[a] \notin Protected /\ OtherMedia(a) = {}
        named == {f \in Here : Dir[f] = Dir[a] /\ Stem[f] = Stem[a]}
        files == IF whole THEN Below(Dir[a]) \cap Here ELSE named
    IN [asset |-> a, id |-> row[a].id, mode |-> IF whole THEN "folder" ELSE "files",
        files |-> {<<f, disk[f]>> : f \in files},
        dirs |-> IF whole THEN Inside(Dir[a]) \cap dirs ELSE {},
        warn |-> IF whole \/ ~alone THEN "none" ELSE IF Dir[a] \in Protected THEN "root" ELSE "others"]

\* Bound: the user looks at one deletion at a time.  No plan is asked for while
\* one is under way, and a batch forgets the plan last shown.
ShowPlan(a) ==
    /\ del.pc = "idle" /\ a \in Seen /\ ~NoPlanFor(a) /\ plan' = PlanFor(a)
    /\ UNCHANGED <<root, disk, dirs, library, adding, del, refresh, marks, left>>

\* assetDeleteToken: the mode, the asset, every entry with its size and time, the warnings.
SameChoice(p, q) == p.asset = q.asset /\ p.mode = q.mode
SameToken(p, q) == p = q

Names(p) == {e[1] : e \in p.files}
Executing(d, p) == [d EXCEPT !.pc = "files", !.asset = p.asset, !.mode = p.mode, !.todo = Names(p),
                             !.dirs = p.dirs, !.fails = FALSE, !.ids = {}, !.removed = {}]

\* deleteAsset finds the asset by its id, builds the plan again and compares the tokens; a conflict shows
\* the new plan.
Confirm ==
    /\ Spend /\ del.pc = "idle"
    /\ \E a \in Seen :
          /\ row[a].id = plan.id /\ ~NoPlanFor(a)
          /\ LET now == PlanFor(a) IN
             IF SameToken(now, plan)
             THEN /\ plan' = NoPlan
                  /\ del' = [Executing(NoDel, now) EXCEPT !.how = "confirmed", !.shown = Names(plan),
                                                          !.absent = Absent(disk, root)]
             ELSE plan' = now /\ UNCHANGED del
    /\ UNCHANGED <<root, disk, dirs, library, adding, refresh, marks>>

\* batchDelete has no plan to confirm; it is given ids.
BeginBatch(S) ==
    /\ Spend /\ del.pc = "idle" /\ S # {} /\ \A m \in S : row[m].st # "none"
    /\ del' = [NoDel EXCEPT !.pc = "next", !.how = "batch", !.list = {row[m].id : m \in S},
                            !.absent = Absent(disk, root)]
    /\ plan' = NoPlan
    /\ UNCHANGED <<root, disk, dirs, library, adding, refresh, marks>>

\* The row is read whatever its state; an asset whose file or root is not there
\* is purged at the end.  Another failure skips it, or ends the batch if it is
\* the row that cannot be read.
NextOfBatch ==
    /\ del.pc = "next"
    /\ IF del.list = {} THEN del' = [del EXCEPT !.pc = "records"] /\ UNCHANGED left
       ELSE \E i \in del.list :
          LET d == [del EXCEPT !.list = @ \ {i}]
              found == {m \in Media : row[m].id = i}
          IN \/ found = {} /\ del' = d /\ UNCHANGED left
             \/ Spend /\ found # {} /\ del' \in {d, NoDel}
             \/ /\ UNCHANGED left
                /\ \E a \in found : del' = IF NoPlanFor(a) THEN [d EXCEPT !.direct = @ \cup {i}]
                                           ELSE Executing(d, PlanFor(a))
    /\ UNCHANGED <<root, disk, dirs, library, adding, plan, refresh, marks>>

(***************************************************************************)
(* executeAssetDeletePlan.                                                 *)
(***************************************************************************)
\* Directories and what is below only when every file went.
After(d) == IF d.todo # {} THEN "files" ELSE IF d.mode = "folder" /\ ~d.fails THEN "dirs" ELSE "purge"
Onward(d) == [d EXCEPT !.pc = After(d), !.cur = "none"]

\* os.Remove, for which a file that is not there is a success.
RemoveFails(f) == \/ root = "failing" /\ UNCHANGED left
                  \/ root = "up" /\ f \in Here /\ Spend
SkippedButMarked(d, f) == [d EXCEPT !.fails = TRUE, !.cur = f, !.pc = IF f \in Media THEN "mark" ELSE After(d)]
Skipped(d, f) == Onward([d EXCEPT !.fails = TRUE])
RemoveFile(f) ==
    /\ del.pc = "files" /\ f \in del.todo
    /\ LET d == [del EXCEPT !.todo = @ \ {f}] IN
       \/ /\ RemoveFails(f) /\ del' = Skipped(d, f) /\ UNCHANGED disk
       \/ /\ root # "failing" /\ UNCHANGED left
          /\ disk' = IF root = "up" THEN [disk EXCEPT ![f] = 0] ELSE disk
          /\ LET gone == [d EXCEPT !.removed = IF root = "up" /\ f \in Here THEN @ \cup {f} ELSE @,
                                   !.absent = @ \cup Absent(disk', root)]
             IN del' = IF f \in Media THEN [gone EXCEPT !.pc = "mark", !.cur = f] ELSE Onward(gone)
    /\ UNCHANGED <<root, dirs, library, adding, plan, refresh, marks>>

\* MarkDeletedWithCache finds only a row that is seen.
MarkDeleted ==
    /\ del.pc = "mark"
    /\ \/ /\ row' = Struck({del.cur} \cap Seen) /\ UNCHANGED left
          /\ del' = Onward([del EXCEPT !.ids = @ \cup {row[m].id : m \in {del.cur} \cap Seen}])
       \/ Spend /\ del' = Onward([del EXCEPT !.fails = TRUE]) /\ UNCHANGED row
    /\ UNCHANGED <<root, disk, dirs, nextId, folders, link, adding, plan, refresh, marks>>

\* deleteDirectories, the deepest first: one that is not empty stays, and so do
\* those above it.
Removable == {d \in del.dirs : Below(d) \cap Here = {} /\ Inside(d) \cap dirs \subseteq del.dirs}
DirsGone(done) == root = "gone" \/ (root = "up" /\ del.dirs \cap dirs \subseteq done)
RemoveDirs ==
    /\ del.pc = "dirs"
    /\ \E done \in {Removable, {}} :
          /\ IF done = Removable THEN root # "failing" /\ UNCHANGED left
             ELSE IF root = "up" THEN Spend ELSE root = "failing" /\ UNCHANGED left
          /\ dirs' = IF root = "up" THEN dirs \ done ELSE dirs
          /\ del' = IF DirsGone(done) THEN [del EXCEPT !.pc = "under"]
                    ELSE [del EXCEPT !.pc = "purge", !.fails = TRUE]
    /\ UNCHANGED <<root, disk, library, adding, plan, refresh, marks>>

\* MarkDeletedUnder.
MarkUnder ==
    /\ del.pc = "under"
    /\ LET under == Below(Dir[del.asset]) \cap Seen IN
       \/ /\ row' = Struck(under) /\ UNCHANGED left
          /\ del' = [del EXCEPT !.pc = "purge", !.ids = @ \cup {row[m].id : m \in under}]
       \/ Spend /\ del' = [del EXCEPT !.pc = "purge", !.fails = TRUE] /\ UNCHANGED row
    /\ UNCHANGED <<root, disk, dirs, nextId, folders, link, adding, plan, refresh, marks>>

\* PurgeAssetIDs, in one transaction.
Purge(ids) ==
    /\ row' = Purged(ids) /\ link' = link \ Rowless(row')
    /\ orphaned' = IF del.crossed THEN orphaned
                   ELSE orphaned \cup ((Rowless(row') \ Rowless(row)) \ del.absent)

PurgeRows ==
    /\ del.pc = "purge"
    /\ \/ Purge(del.ids) /\ UNCHANGED left
       \/ Spend /\ del.ids # {} /\ UNCHANGED <<row, link, orphaned>>
    /\ refresh' = IF del.how = "confirmed" /\ (del.ids # {} \/ (del.mode = "folder" /\ ~del.fails))
                  THEN Due ELSE refresh
    /\ del' = IF del.how = "batch" THEN [del EXCEPT !.pc = "next"] ELSE NoDel
    /\ UNCHANGED <<root, disk, dirs, nextId, folders, adding, plan, raced>>

\* The end of a batch: the rows to purge directly, the refresh if it was asked for.
PurgeDirect ==
    /\ del.pc = "records" /\ del' = NoDel
    /\ \/ Purge(del.direct) /\ UNCHANGED left /\ refresh' \in {refresh, Due}
       \/ Spend /\ del.direct # {} /\ UNCHANGED <<row, link, orphaned, refresh>>
    /\ UNCHANGED <<root, disk, dirs, nextId, folders, adding, plan, raced>>

(***************************************************************************)
(* What other operations do to the rows.                                   *)
(***************************************************************************)
\* startClearAllAssetsCleanup: MarkAllDeletedWithCache, then RefreshFolders.
ClearAll ==
    /\ row' = Struck(Seen) /\ refresh' = Due
    /\ UNCHANGED <<disk, dirs, nextId, folders, link, adding, plan, del, marks>>

\* ResetMediaLibrary: TRUNCATE ... RESTART IDENTITY.
TruncateLibrary ==
    /\ row' = [m \in Media |-> NoRow] /\ nextId' = 1 /\ folders' = {} /\ link' = {} /\ raced' = {}
    /\ del' = [del EXCEPT !.crossed = del.pc # "idle"]
    /\ UNCHANGED <<disk, dirs, adding, plan, refresh, orphaned>>

\* The process ends with its handlers and goroutines.
Forget ==
    /\ adding' = "none" /\ del' = NoDel /\ refresh' = [due |-> FALSE, drops |-> {}]
    /\ UNCHANGED <<disk, dirs, library, plan, marks>>

ScanNext == \E m \in Media : ScanFinds(m) \/ ScanMisses(m)
RowsNext ==
    \/ \E f \in File : FileChanges(f)
    \/ \E m \in Media : DeleteRecord(m)
    \/ ScanWrites \/ RefreshReads \/ RefreshWrites
DeleteNext ==
    \/ \E a \in Media : ShowPlan(a)
    \/ Confirm \/ NextOfBatch \/ MarkDeleted \/ RemoveDirs \/ MarkUnder \/ PurgeRows \/ PurgeDirect
    \/ \E S \in SUBSET Media : BeginBatch(S)
    \/ \E f \in File : RemoveFile(f)

(***************************************************************************)
(* Properties.                                                             *)
(***************************************************************************)
\* A confirmed deletion removes no file that was not in the plan the user saw,
\* whatever appeared in the folder since.
DeletesOnlyShown == del.how = "confirmed" => del.removed \subseteq del.shown

\* No deletion removes the file of another media than the one named or one that
\* shares its name, even where it takes a whole folder.
OnlyNamedMediaGoes ==
    \A m \in del.removed \cap Media : Dir[m] = Dir[del.asset] /\ Stem[m] = Stem[del.asset]

\* A deletion purges a row only if, since it began, the file was removed or
\* could not be reached; a reset in between starts the ids again and is left out.
PurgedWasGone == orphaned = {}

\* A refresh never takes the folders away from an asset that is shown, unless
\* the asset was added while the refresh was under way.
FoldersStay == \A m \in Seen \ raced : m \in link /\ Above[Dir[m]] \subseteq folders
=============================================================================
