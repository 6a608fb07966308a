------------------------------- MODULE Browse --------------------------------
(***************************************************************************)
(* How a list of assets is found again: the order of a list, its pages,    *)
(* the position of an asset, the anchors of the scroll bar, and the        *)
(* neighbours the viewer swipes to (db/assets.go, db/collections.go); and  *)
(* the duplicates among them, whose hashes are made file by file.          *)
(*                                                                         *)
(* Each of them runs SQL of its own.  A sort key is a tuple of numbers     *)
(* compared from the left, as ORDER BY compares its expressions, with      *)
(* descending expressions negated.  The column "time" stands for the two   *)
(* columns of seconds, "length" for those whose rows may be NULL and whose *)
(* neighbours are found by row number; searches are one Boolean of a row.  *)
(***************************************************************************)
EXTENDS Integers, Sequences, FiniteSets

CONSTANTS
    Entry,              \* ids of assets: 1..n
    Dir, Name, Images,  \* the folder of an asset, its name, those of the type asked for
    Numerals,           \* the first letters that are digits
    PageSize, Limit,    \* of a page, and of the neighbours of one side
    MaxAnchors,         \* of the scale of a scroll bar
    Thresholds,         \* between the size groups
    Shelves,            \* bound: the libraries a behaviour may start with
    Looks,              \* bound: kinds of list, and how they are narrowed
    MaxChanges          \* bound

VARIABLES
    shelf,      \* the asset rows
    view,       \* the list that is looked at
    hashing,    \* the file the duplicate scan has read: its asset and what was in it
    tainted,    \* history: rows that changed between the reading and the storing of their hash
    changes     \* what the bound leaves


Sorts == [col : {"time", "name", "size", "length"}, up : BOOLEAN]
Groups == {"", "folder", "day", "size", "letter"}
View == {[kind |-> l.kind, narrow |-> l.narrow, col |-> s.col, up |-> s.up, group |-> g] :
             l \in Looks, s \in Sorts, g \in Groups}
NoView == [kind |-> "none", narrow |-> "none", col |-> "time", up |-> FALSE, group |-> ""]
\* bound: a behaviour either looks at a list or hashes files
Unseen == [NoView EXCEPT !.kind = "unseen"]
Systems == {"hidden", "duplicates"}  \* system collections; the others are lists of their own
NULL == 0
NoFile == [id |-> 0, content |-> NULL]

AssetRow == [live : BOOLEAN, hidden : BOOLEAN, ready : BOOLEAN, tagged : BOOLEAN, imported : Nat,
             time : Nat, size : Nat, length : Nat, hash : Nat, content : Nat]

BrowseTypeOK ==
    /\ view \in View \cup {NoView, Unseen} /\ changes \in 0..MaxChanges
    /\ shelf \in [Entry -> AssetRow] /\ tainted \subseteq Entry
    /\ hashing \in [id : Entry \cup {0}, content : Nat] /\ (hashing = NoFile \/ hashing.id \in Entry)

-----------------------------------------------------------------------------
(* The rows of a list. *)
\* assetFilterSQL: "fast" asks for images with a thumbnail, "tags" for a tag node besides.
Passes(v, i) ==
    /\ shelf[i].live
    /\ v.kind = "hidden" \/ ~shelf[i].hidden
    /\ v.narrow # "none" => i \in Images /\ shelf[i].ready
    /\ v.narrow = "tags" => shelf[i].tagged
    /\ v.kind = "folder" => Dir[i] = 1

InCollection(v, i) ==
    /\ v.kind = "hidden" => shelf[i].hidden
    /\ v.kind = "duplicates" =>
         /\ shelf[i].hash # NULL
         /\ \E j \in Entry \ {i} : /\ shelf[j].live /\ ~shelf[j].hidden
                                    /\ shelf[j].hash = shelf[i].hash /\ shelf[j].size = shelf[i].size

Rows(v) == {i \in Entry : Passes(v, i) /\ InCollection(v, i)}

-----------------------------------------------------------------------------
(* Their order. *)
Less(a, b) == \E n \in 1..Len(a) : a[n] < b[n] /\ \A m \in 1..n-1 : a[m] = b[m]

\* ORDER BY: the rows of S by their numbers, ROW_NUMBER() OVER (ORDER BY key).
Numbered(S, key) == {<<Cardinality({j \in S : Less(key[j], key[i])}) + 1, i>> : i \in S}
Ordered(S, key) ==
    LET numbered == Numbered(S, key)
    IN [n \in 1..Cardinality(S) |-> CHOOSE i \in S : <<n, i>> \in numbered]

Signed(up, x) == IF up THEN x ELSE -x
Names(up, i) == <<Signed(up, Name[i].key), Signed(up, Name[i].low), Signed(up, i)>>

\* sortSQL
SortKey(v, i) ==
    CASE v.col = "name" -> Names(v.up, i)
      [] v.col = "length" -> <<IF shelf[i].length = NULL THEN 1 ELSE 0,
                               Signed(v.up, shelf[i].length), Signed(v.up, i)>>
      [] OTHER -> <<Signed(v.up, shelf[i][v.col]), Signed(v.up, i)>>

SizeGroup(s) == Cardinality({t \in Thresholds : s >= t})
Day(t) == t \div 2

\* groupedSortSQL
GroupedKey(v, i) ==
    (CASE v.group = "day" -> <<Signed(v.up, Day(shelf[i].time))>>
       [] v.group = "size" -> <<Signed(v.up, SizeGroup(shelf[i].size))>>
       [] v.group = "letter" -> <<Signed(v.up, Name[i].letter)>>
       [] OTHER -> <<>>) \o SortKey(v, i)

\* FIRST_VALUE(...) OVER (PARTITION BY ... ORDER BY sortSQL)
First(v, S) == CHOOSE i \in S : \A j \in S \ {i} : Less(SortKey(v, i), SortKey(v, j))
GroupOrder(v, first) ==
    CASE v.col = "name" -> Names(v.up, first)
      [] v.col = "length" -> <<-shelf[first].time, -first>>
      [] OTHER -> <<Signed(v.up, shelf[first][v.col]), Signed(v.up, first)>>

\* As folderGroupSortSQL would be without folder_id: folders with equal first values are mixed.
FolderKeyWithoutId(v, S, i) ==
    <<GroupOrder(v, First(v, {j \in S : Dir[j] = Dir[i]}))[1]>> \o SortKey(v, i)
\* folderGroupSortSQL
FolderKey(v, S, i) ==
    GroupOrder(v, First(v, {j \in S : Dir[j] = Dir[i]})) \o <<Dir[i]>> \o SortKey(v, i)

\* duplicateGroupedRankedSQL, duplicateGroupSortSQL
DuplicateKey(v, S, i) ==
    LET first == First(v, {j \in S : shelf[j].hash = shelf[i].hash /\ shelf[j].size = shelf[i].size})
    IN (IF v.group = "folder" THEN <<Dir[first]>> ELSE <<>>) \o GroupOrder(v, first)
         \o <<shelf[i].hash, shelf[i].size>> \o SortKey(v, i)

\* The order of anchorsForFilter, and that of the list.
PlainKey(v, S, i) == IF v.group = "folder" THEN FolderKey(v, S, i) ELSE GroupedKey(v, i)
ListKey(v, S, i) == IF v.kind = "duplicates" THEN DuplicateKey(v, S, i) ELSE PlainKey(v, S, i)
List(v) == LET S == Rows(v) IN Ordered(S, [i \in S |-> ListKey(v, S, i)])
AnchorList(v) == LET S == Rows(v) IN Ordered(S, [i \in S |-> PlainKey(v, S, i)])

-----------------------------------------------------------------------------
(* Pages and positions. *)
Fetched == PageSize + 1     \* LIMIT of a page

\* ListAssetsByFilterSQL: LIMIT and OFFSET, then the row too many is cut off.
Page(list, p) ==
    LET offset == (p - 1) * PageSize
        got == SubSeq(list, offset + 1, IF offset + Fetched < Len(list) THEN offset + Fetched ELSE Len(list))
    IN [items |-> IF Len(got) > PageSize THEN SubSeq(got, 1, PageSize) ELSE got, more |-> Len(got) > PageSize]

PageOf(index) == index \div PageSize + 1

\* assetPositionForFilter, SystemCollectionAssetPosition
Number(list, i) == CHOOSE n \in DOMAIN list : list[n] = i
Position(list, i) ==
    LET index == Number(list, i) - 1
    IN [index |-> index, page |-> PageOf(index)]

-----------------------------------------------------------------------------
(* Neighbours: sequences that start next to the asset. *)
FirstOnes(s) == SubSeq(s, 1, IF Len(s) < Limit THEN Len(s) ELSE Limit)

\* The condition below as it would be without the id.
BeyondTies(v, i, j, up) ==
    IF v.col = "name" THEN Less(Names(up, i), Names(up, j))
    ELSE Signed(up, shelf[j][v.col]) > Signed(up, shelf[i][v.col])
\* neighborCondition and fastMediaNeighborSizeCondition compare the sort column and the id with
\* those of the asset; ORDER BY goes the same way.  naturalFilenameNeighborSQL has three parts.
Beyond(v, i, j, up) ==
    IF v.col = "name" THEN Less(Names(up, i), Names(up, j))
    ELSE \/ Signed(up, shelf[j][v.col]) > Signed(up, shelf[i][v.col])
         \/ shelf[j][v.col] = shelf[i][v.col] /\ Signed(up, j) > Signed(up, i)

Keyset(v, S, i, previous) ==
    LET up == v.up # previous
        beyond == {j \in S : Beyond(v, i, j, up)}
    IN FirstOnes(Ordered(beyond, [j \in beyond |-> SortKey([v EXCEPT !.up = up], j)]))

\* fastMediaNeighborSide reads media_asset: it asks neither for hidden = false nor for tag nodes.
FastRows == {i \in Images : shelf[i].live /\ shelf[i].ready}
FastEligible(v) == v.kind = "library" /\ v.narrow # "none" /\ v.col = "size"

\* groupedNeighborSide and SystemCollectionNeighbors: the rows numbered next to the asset's.
ByNumber(list, i, previous) ==
    LET at == Number(list, i)
    IN FirstOnes(IF previous THEN [n \in 1..at-1 |-> list[at - n]] ELSE SubSeq(list, at + 1, Len(list)))

\* AssetFilterNeighbors for an asset of the list
Neighbours(v, list, i, previous) ==
    CASE v.kind \in Systems \/ v.group # "" \/ v.col = "length" -> ByNumber(list, i, previous)
      [] FastEligible(v) /\ v.group = "" -> Keyset(v, FastRows, i, previous)
      [] OTHER -> Keyset(v, Rows(v), i, previous)

-----------------------------------------------------------------------------
(* Anchors: a label, the index of the first row that has it, and its page. *)
\* sizeAnchorLabel tells the greatest threshold that is reached.
SizeLabel(s) == IF \E t \in Thresholds : s >= t
                THEN CHOOSE t \in Thresholds : s >= t /\ \A u \in Thresholds : s >= u => u <= t
                ELSE 0

\* folderAnchors, assetGroupAnchor; a list by name without groups has the letters of the names.
Label(v, i) ==
    CASE v.group = "folder" -> Dir[i]
      [] v.group = "day" -> Day(shelf[i].time)
      [] v.group = "size" -> SizeLabel(shelf[i].size)
      [] OTHER -> Name[i].letter

\* usesUniformAnchors
IsScale(v) == v.group = "" /\ v.col # "name"

\* uniformAnchors: math.Round rounds halves up.
ScaleIndex(k, count, total) ==
    IF count = 1 THEN 0 ELSE (2 * k * (total - 1) + count - 1) \div (2 * (count - 1))
Scale(total) ==
    LET count == IF total < MaxAnchors THEN total ELSE MaxAnchors
    IN {LET index == ScaleIndex(k, count, total) IN [index |-> index, page |-> PageOf(index)] : k \in 0..count-1}

\* folderAnchors, groupedAnchors
GroupStarts(v, list) ==
    {[index |-> n - 1, page |-> PageOf(n - 1)] :
        n \in {m \in DOMAIN list : \A k \in 1..m-1 : Label(v, list[k]) # Label(v, list[m])}}

Anchors(v) == LET list == AnchorList(v)
              IN IF IsScale(v) THEN Scale(Len(list)) ELSE GroupStarts(v, list)

-----------------------------------------------------------------------------
(* Duplicates. *)
Known(i) == shelf[i].live /\ ~shelf[i].hidden

\* DuplicateHashCandidatesAfterID
Candidates == {i \in Entry : /\ Known(i) /\ shelf[i].hash = NULL
                             /\ \E j \in Entry \ {i} : Known(j) /\ shelf[j].size = shelf[i].size}

\* DuplicateDeleteCandidateIDs: all but the first of PARTITION BY sha256, size
\* ORDER BY imported_at, id.
OlderOrSame(j, i) == shelf[j].imported <= shelf[i].imported
Older(j, i) == Less(<<shelf[j].imported, j>>, <<shelf[i].imported, i>>)
Twins(i) == {j \in Entry \ {i} : /\ Known(j) /\ shelf[j].hash # NULL
                                  /\ shelf[j].hash = shelf[i].hash /\ shelf[j].size = shelf[i].size}
Selection == {i \in Entry : Known(i) /\ \E j \in Twins(i) : Older(j, i)}

-----------------------------------------------------------------------------
BrowseInit ==
    /\ shelf \in Shelves /\ view \in {NoView, Unseen} /\ hashing = NoFile /\ tainted = {} /\ changes = MaxChanges

Look ==
    /\ view = NoView /\ view' \in View
    /\ UNCHANGED <<shelf, hashing, tainted, changes>>

\* runDuplicateScan: fileSHA256Hex reads the file, SetAssetSHA256Hex stores its hash in the
\* row, whatever the row is by then.
ReadFile ==
    /\ view = Unseen /\ hashing = NoFile
    /\ \E i \in Candidates : hashing' = [id |-> i, content |-> shelf[i].content]
    /\ UNCHANGED <<shelf, view, tainted, changes>>

StoreHash ==
    /\ hashing # NoFile /\ hashing' = NoFile
    /\ shelf' = [shelf EXCEPT ![hashing.id].hash = hashing.content]
    /\ tainted' = IF hashing.content = shelf[hashing.id].content THEN tainted ELSE tainted \cup {hashing.id}
    /\ UNCHANGED <<view, changes>>

\* A scan meets a changed file: the hash is forgotten, the thumbnail is made anew.
Rescanned(i, time, size, content) ==
    [shelf EXCEPT ![i].time = time, ![i].size = size, ![i].content = content,
                  ![i].hash = NULL, ![i].ready = FALSE]
RowChanges ==
    /\ changes > 0 /\ changes' = changes - 1 /\ UNCHANGED <<view, hashing>>
    /\ \E i \in Entry :
         /\ shelf[i].live
         /\ \/ /\ \/ \E time \in 0..3 : shelf' = Rescanned(i, time, shelf[i].size, shelf[i].content)
                  \/ \E size \in {0} \cup Thresholds : shelf' = Rescanned(i, shelf[i].time, size, shelf[i].content)
                  \/ \E content \in 1..2 : shelf' = Rescanned(i, shelf[i].time, shelf[i].size, content)
               /\ tainted' = tainted \ {i}
            \/ /\ shelf' \in {[shelf EXCEPT ![i].live = FALSE], [shelf EXCEPT ![i].hidden = ~@],
                               [shelf EXCEPT ![i].ready = TRUE], [shelf EXCEPT ![i].tagged = ~@]}
               /\ UNCHANGED tainted

BrowseNext == Look \/ RowChanges \/ ReadFile \/ StoreHash

-----------------------------------------------------------------------------
\* What the fast query looks through: the list as it is without tag nodes and with hidden rows.
Searched(v, list) ==
    IF FastEligible(v) /\ v.group = "" THEN Ordered(FastRows, [i \in FastRows |-> SortKey(v, i)]) ELSE list

(* Swiping follows the list: the neighbours of an asset are the rows next  *)
(* to it, whichever of the four queries finds them (AssetFilterNeighbors,  *)
(* SystemCollectionNeighbors).                                             *)
NeighboursFollowList ==
    view \in View =>
        LET list == List(view)
            around == Searched(view, list)
        IN \A n \in DOMAIN list :
             LET at == Number(around, list[n])
             IN /\ Neighbours(view, list, list[n], FALSE) = FirstOnes(SubSeq(around, at + 1, Len(around)))
                /\ Neighbours(view, list, list[n], TRUE) = FirstOnes([k \in 1..at-1 |-> around[at - k]])

(* Every way to a place in the list leads to the same row.  Reading page   *)
(* after page while there is more shows each row once and in its order     *)
(* (ListAssetsByFilterSQL).                                                *)
ReadToEnd(list) ==
    LET last == CHOOSE p \in 1..(Len(list) + 1) :
                    ~Page(list, p).more /\ \A q \in 1..p-1 : Page(list, q).more
        read[p \in 0..last] == IF p = 0 THEN <<>> ELSE read[p-1] \o Page(list, p).items
    IN read[last]
PagesCoverList(list) == ReadToEnd(list) = list

(* The page an asset is said to be on has it (assetPositionForFilter).     *)
PositionsAreRight(list) ==
    \A n \in DOMAIN list : LET at == Position(list, list[n])
                           IN Page(list, at.page).items[(at.index % PageSize) + 1] = list[n]

(* The anchors open every group at its first row, rows of one group are    *)
(* not parted by others, and a scale runs from the first row to the last;  *)
(* labels are made in Go, the order of the groups in SQL (anchorsForFilter).*)
(* A list by name has anchors without being grouped; there names that begin *)
(* with digits stand by their numbers (1, 2, 10) and may be parted.        *)
Grouped(n, list) == view.group # "" \/ Label(view, list[n]) \notin Numerals
AnchorsOpenGroups(list, anchors) ==
    LET opened == {a.index : a \in anchors}
        Opening(n) == CHOOSE x \in opened : x < n /\ \A y \in opened : y < n => y <= x
    IN /\ \A a \in anchors : \E n \in 1..PageSize :
             n \in DOMAIN Page(list, a.page).items /\ Page(list, a.page).items[n] = list[a.index + 1]
       /\ IF IsScale(view)
          THEN list # <<>> => {0, Len(list) - 1} \subseteq opened
          ELSE \A n \in DOMAIN list :
                 Grouped(n, list) => Label(view, list[n]) = Label(view, list[Opening(n) + 1])

(* The anchors of the collection of duplicates are left out: they follow   *)
(* an order that its list does not have.                                   *)
PlacesAgree ==
    view \in View =>
        LET list == List(view)
        IN /\ PagesCoverList(list) /\ PositionsAreRight(list)
           /\ view.kind # "duplicates" => AnchorsOpenGroups(list, Anchors(view))

(* What is proposed for deletion as duplicates leaves a copy of each file: *)
(* one that is shown, is not proposed itself, and has the same content,    *)
(* unless one of the two was changed while it was hashed.                  *)
SelectionKeepsOne ==
    \A i \in Selection : \E j \in Twins(i) \ Selection :
        shelf[j].content = shelf[i].content \/ {i, j} \cap tainted # {}
=============================================================================
