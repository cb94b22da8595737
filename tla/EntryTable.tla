----------------------------- MODULE EntryTable -----------------------------
(***************************************************************************)
(* The two tables of an open vault (components/vault/vault.cpp): entries_  *)
(* and cats_ in RAM, their sealed images in the store, and the import of   *)
(* components/vault_api that edits entries_ inside a bulk window.          *)
(*                                                                         *)
(* An entry is [id, cat, title, body]: `title' stands for title and        *)
(* username, which only ever matter together, `body' for the secret, url   *)
(* and comment.  Names longer than their field are cut by set_field and    *)
(* strncpy: every member of LongTitles is stored as TITLE, every member of *)
(* LongNames as NAME, the texts they share up to the field's width.        *)
(***************************************************************************)
EXTENDS Naturals, Sequences

CONSTANTS
  Titles, LongTitles, TITLE,    \* titles a client sends; see above
  Names, LongNames, NAME,       \* category names a client sends
  EMPTY,                        \* the empty title
  Bodies,
  MAX_ENTRIES, MAX_CATEGORIES,  \* VAULT_MAX_ENTRIES, VAULT_MAX_CATEGORIES
  ID_MAX,                       \* the largest entry id, 255
  Files,                        \* the import files a client may upload
  Bundles,                      \* the encrypted bundles that may be imported
  FaultOps,                     \* operations whose write of a table may throw
  CommitFaultOps,               \* ... or throw with the table already written
  CrashOps                      \* operations power may be lost in

ASSUME EntryTableConstants ==
  /\ LongTitles \subseteq Titles /\ LongNames \subseteq Names
  /\ TITLE \notin LongTitles /\ NAME \notin LongNames
  /\ EMPTY \notin LongTitles \cup LongNames \cup {NAME}
  /\ MAX_ENTRIES \in Nat /\ MAX_CATEGORIES \in Nat /\ ID_MAX \in Nat
  /\ MAX_ENTRIES < ID_MAX /\ MAX_CATEGORIES < ID_MAX

StoredTitle(t) == IF t \in LongTitles THEN TITLE ELSE t
StoredName(c)  == IF c \in LongNames THEN NAME ELSE c

Ids     == 1 .. ID_MAX
CatIds  == 0 .. ID_MAX
\* As a request or a file holds them, and as they are stored.
AnyTitle == Titles \cup {TITLE, EMPTY}
AnyName  == Names \cup {NAME, EMPTY}
Title    == AnyTitle \ LongTitles
Name     == AnyName \ (LongNames \cup {EMPTY})

Entry    == [id : Ids, cat : CatIds, title : Title, body : Bodies]
Cat      == [id : Ids, name : Name]
FileItem == [cat : AnyName, title : AnyTitle, body : Bodies]
Packed   == [cat : CatIds, title : Title, body : Bodies]
Listed   == [id : Ids, title : Title]

ASSUME FileContents == Files \subseteq Seq(FileItem) /\ Bundles \subseteq Seq(Packed)

VARIABLES
  unlocked,
  entries, cats,       \* entries_[0 .. count_-1], cats_[0 .. cat_count_-1]
  dEntries, dCats,     \* what the store holds of each
  op,                  \* "none", "catdel", "import" or "bundle" while under way
  todo,                \* import: the items of the file still to do
  list,                \* import: the handler's own list of ids and titles
  own,                 \* history: the entries, if the file is what an export
                       \* has just written of them
  stale,               \* history: tables whose last edit was reported as failed
  failed               \* history: an edit other than an add was, at some time,
                       \* reported as failed or cut short

ram  == <<entries, cats>>
disk == <<dEntries, dCats>>
hist == <<stale, failed>>
vars == <<unlocked, ram, disk, op, todo, list, own, hist>>

\* The tables, in RAM and in flash, hold no more than there is room for.
TypeOK ==
  /\ unlocked \in BOOLEAN
  /\ entries \in Seq(Entry) /\ Len(entries) <= MAX_ENTRIES
  /\ dEntries \in Seq(Entry) /\ Len(dEntries) <= MAX_ENTRIES
  /\ cats \in Seq(Cat) /\ Len(cats) <= MAX_CATEGORIES
  /\ dCats \in Seq(Cat) /\ Len(dCats) <= MAX_CATEGORIES
  /\ op \in {"none", "catdel", "import", "bundle"}
  /\ op = "import" => todo \in Seq(FileItem)
  /\ op = "bundle" => todo \in Seq(Packed)
  /\ list \in Seq(Listed)
  /\ own \subseteq Seq(Entry) /\ stale \subseteq {"entries", "cats"} /\ failed \in BOOLEAN

Idle == op = "none"
bulk == op = "import"
Merging == op \in {"import", "bundle"}

(***************************************************************************)
(* Helpers of the class.                                                   *)
(***************************************************************************)
IdsOf(s) == {s[i].id : i \in DOMAIN s}

\* The first of the indices a loop looks for; 0 is NULL.
First(hits) == IF hits = {} THEN 0 ELSE CHOOSE i \in hits : \A j \in hits : i <= j

WithId(s, id)       == {i \in DOMAIN s : s[i].id = id}
WithTitle(s, title) == {i \in DOMAIN s : s[i].title = title}

find(id) == First(WithId(entries, id))

\* Mutant (UniqueIds): the id after the number of elements.
NextId(s) == Len(s) + 1

\* alloc_id and alloc_cat_id: the lowest id not in use.
LowestFree(s) == CHOOSE i \in Ids : /\ i \notin IdsOf(s)
                                    /\ \A j \in 1 .. i - 1 : j \in IdsOf(s)

category_valid(c) == c = 0 \/ c \in IdsOf(cats)
KeepCat(c) == IF category_valid(c) THEN c ELSE 0

\* Mutant (ImplementsCatalogue): the last element goes instead.
SwapOutLast(s, i) == SubSeq(s, 1, Len(s) - 1)

\* Deleting moves the last element into the gap.
SwapOut(s, i) == LET n == Len(s)
                 IN  SubSeq([s EXCEPT ![i] = s[n]], 1, n - 1)

(***************************************************************************)
(* persist_entries and persist_cats at the end of operation o: the table   *)
(* reaches the store, or its write throws and the store keeps the old one, *)
(* or the commit after the write throws.                                   *)
(***************************************************************************)
Saves(o, table, table_, new, threw) ==
  \/ ~threw /\ table_ = new
  \/ threw /\ o \in FaultOps /\ table_ = table
  \/ threw /\ o \in CommitFaultOps /\ table_ = new

Mark(t, threw) == /\ stale' = IF threw THEN stale \cup {t} ELSE stale \ {t}
                  /\ failed' = (failed \/ threw)

\* An edit that leaves `new' in entries_ whether or not it can be saved.
EditEntries(o, new) ==
  /\ entries' = new
  /\ \E threw \in BOOLEAN : Saves(o, dEntries, dEntries', new, threw) /\ Mark("entries", threw)

(***************************************************************************)
(* Entries.                                                                *)
(***************************************************************************)
Init == /\ unlocked = TRUE
        /\ entries = <<>> /\ cats = <<>> /\ dEntries = <<>> /\ dCats = <<>>
        /\ op = "none" /\ todo = <<>> /\ list = <<>> /\ own = {}
        /\ stale = {} /\ failed = FALSE

Record(id, cat, title, body) ==
  [id |-> id, cat |-> KeepCat(cat), title |-> StoredTitle(title), body |-> body]

\* Mutant (SurvivesReboot): a failed add stays in RAM.
AddNoRollback(title, body, cat) ==
  /\ Idle /\ unlocked
  /\ Len(entries) < MAX_ENTRIES
  /\ LET new == Append(entries, Record(LowestFree(entries), cat, title, body))
     IN  \E threw \in BOOLEAN :
           /\ Saves("add", dEntries, dEntries', new, threw)
           /\ entries' = new
           /\ stale' = IF threw THEN stale ELSE stale \ {"entries"}
  /\ UNCHANGED <<unlocked, cats, dCats, op, todo, list, own, failed>>

\* add takes its insertion back when it cannot be saved.
Add(title, body, cat) ==
  /\ Idle /\ unlocked
  /\ Len(entries) < MAX_ENTRIES
  /\ LET new == Append(entries, Record(LowestFree(entries), cat, title, body))
     IN  \E threw \in BOOLEAN :
           /\ Saves("add", dEntries, dEntries', new, threw)
           /\ entries' = IF threw THEN entries ELSE new
           /\ stale' = IF threw THEN stale ELSE stale \ {"entries"}
  /\ UNCHANGED <<unlocked, cats, dCats, op, todo, list, own, failed>>

Update(id, title, body, cat) ==
  /\ Idle /\ unlocked
  /\ find(id) # 0
  /\ EditEntries("update", [entries EXCEPT ![find(id)] = Record(id, cat, title, body)])
  /\ UNCHANGED <<unlocked, cats, dCats, op, todo, list, own>>

Remove(id) ==
  /\ Idle /\ unlocked
  /\ find(id) # 0
  /\ EditEntries("remove", SwapOut(entries, find(id)))
  /\ UNCHANGED <<unlocked, cats, dCats, op, todo, list, own>>

ClearEntries ==
  /\ Idle /\ unlocked
  /\ EditEntries("clear", <<>>)
  /\ UNCHANGED <<unlocked, cats, dCats, op, todo, list, own>>

(***************************************************************************)
(* Categories.                                                             *)
(***************************************************************************)
\* The name is compared as sent, and stored cut to its field.
CategoryAdd(name) ==
  /\ Idle /\ unlocked
  /\ name # EMPTY
  /\ Len(cats) < MAX_CATEGORIES
  /\ \A i \in DOMAIN cats : cats[i].name # name
  /\ cats' = Append(cats, [id |-> LowestFree(cats), name |-> StoredName(name)])
  /\ \E threw \in BOOLEAN : Saves("catadd", dCats, dCats', cats', threw) /\ Mark("cats", threw)
  /\ UNCHANGED <<unlocked, entries, dEntries, op, todo, list, own>>

\* Mutant (CategoriesExistIfSaved): the moved entries are not saved.
CategoryDeleteCatsOnly(id) ==
  /\ Idle /\ unlocked
  /\ id # 0 /\ id \in IdsOf(cats)
  /\ entries' = [i \in DOMAIN entries |->
                   IF entries[i].cat = id THEN [entries[i] EXCEPT !.cat = 0] ELSE entries[i]]
  /\ cats' = SwapOut(cats, CHOOSE i \in DOMAIN cats : cats[i].id = id)
  /\ dCats' = cats'
  /\ UNCHANGED <<unlocked, dEntries, op, todo, list, own, hist>>

\* category_delete moves the category's entries to Uncategorized and saves the
\* categories; the entries, if any moved, are saved next.
CategoryDelete(id) ==
  /\ Idle /\ unlocked
  /\ id # 0 /\ id \in IdsOf(cats)
  /\ entries' = [i \in DOMAIN entries |->
                   IF entries[i].cat = id THEN [entries[i] EXCEPT !.cat = 0] ELSE entries[i]]
  /\ cats' = SwapOut(cats, CHOOSE i \in DOMAIN cats : cats[i].id = id)
  /\ \E threw \in BOOLEAN :
       /\ Saves("catdel", dCats, dCats', cats', threw)
       /\ op' = IF ~threw /\ entries' # entries THEN "catdel" ELSE "none"
       /\ stale' = (stale \ {"cats"}) \cup (IF threw THEN {"cats", "entries"} ELSE {})
       /\ failed' = (failed \/ threw)
  /\ UNCHANGED <<unlocked, dEntries, todo, list, own>>

CategoryDeleteEntries ==
  /\ op = "catdel"
  /\ EditEntries("catdel", entries)
  /\ op' = "none"
  /\ UNCHANGED <<unlocked, cats, dCats, todo, list, own>>

(***************************************************************************)
(* h_export writes every entry with the name of its category, and          *)
(* export_bundle every record as it is.                                    *)
(***************************************************************************)
\* Mutant (ReimportChangesNothing): the id is taken for a position.
CatNameAt(id) == IF id \in DOMAIN cats THEN cats[id].name ELSE EMPTY

CatName(id) == IF id \in IdsOf(cats) THEN cats[First(WithId(cats, id))].name ELSE EMPTY

Exported == [i \in DOMAIN entries |->
               [title |-> entries[i].title, body |-> entries[i].body,
                cat |-> CatName(entries[i].cat)]]

ExportedBundle == [i \in DOMAIN entries |->
                     [title |-> entries[i].title, body |-> entries[i].body,
                      cat |-> entries[i].cat]]

(***************************************************************************)
(* h_import: a list of what there is, one edit per item inside the bulk    *)
(* window, one save at the end.                                            *)
(***************************************************************************)
ImportBegin(file) ==
  /\ Idle /\ unlocked
  /\ op' = "import" /\ todo' = file /\ own' = IF file = Exported THEN {entries} ELSE {}
  /\ list' = [i \in DOMAIN entries |-> [id |-> entries[i].id, title |-> entries[i].title]]
  /\ UNCHANGED <<unlocked, ram, disk, hist>>

CatNamed(name) == LET i == First({j \in DOMAIN cats : cats[j].name = name})
                  IN  IF name = EMPTY \/ i = 0 THEN 0 ELSE cats[i].id

\* Mutant (ImportAllOrNothing): every item is saved.
ImportItemSaved ==
  /\ bulk /\ todo # <<>>
  /\ LET item == Head(todo)
     IN  /\ item.title # EMPTY /\ Len(entries) < MAX_ENTRIES
         /\ entries' = Append(entries, Record(LowestFree(entries), CatNamed(item.cat),
                                              item.title, item.body))
  /\ dEntries' = entries'
  /\ todo' = Tail(todo)
  /\ UNCHANGED <<unlocked, cats, dCats, op, list, own, hist>>

\* Mutant (ImportCollapses): items are matched against the old entries only.
ImportItemOldList ==
  /\ bulk /\ todo # <<>>
  /\ LET item == Head(todo)
     IN  /\ item.title # EMPTY /\ Len(entries) < MAX_ENTRIES
         /\ \A i \in DOMAIN list : list[i].title # item.title
         /\ entries' = Append(entries, Record(LowestFree(entries), CatNamed(item.cat),
                                              item.title, item.body))
  /\ todo' = Tail(todo)
  /\ UNCHANGED <<unlocked, cats, disk, op, list, own, hist>>

\* Mutant (TypeOK): no check for room.
ImportItemNoRoom ==
  /\ bulk /\ todo # <<>>
  /\ entries' = Append(entries, Record(LowestFree(entries), CatNamed(Head(todo).cat),
                                       Head(todo).title, Head(todo).body))
  /\ todo' = Tail(todo)
  /\ UNCHANGED <<unlocked, cats, disk, op, list, own, hist>>

ImportItem ==
  /\ bulk /\ todo # <<>>
  /\ LET item   == Head(todo)
         match  == First(WithTitle(list, item.title))
         id     == IF match = 0 THEN LowestFree(entries) ELSE list[match].id
         record == Record(id, CatNamed(item.cat), item.title, item.body)
     IN  \/ /\ item.title = EMPTY
            /\ UNCHANGED <<entries, list>>
         \/ /\ item.title # EMPTY /\ match # 0
            /\ entries' = IF find(id) = 0 THEN entries
                                          ELSE [entries EXCEPT ![find(id)] = record]
            /\ UNCHANGED list
         \/ /\ item.title # EMPTY /\ match = 0
            /\ IF Len(entries) < MAX_ENTRIES
                 THEN /\ entries' = Append(entries, record)
                      /\ list' = Append(list, [id |-> id, title |-> StoredTitle(item.title)])
                 ELSE UNCHANGED <<entries, list>>
  /\ todo' = Tail(todo)
  /\ UNCHANGED <<unlocked, cats, disk, op, own, hist>>

\* bulk_commit; a failure is reported, but the merge stays in RAM.
ImportEnd ==
  /\ bulk /\ todo = <<>>
  /\ EditEntries("import", entries)
  /\ op' = "none" /\ list' = <<>> /\ own' = {}
  /\ UNCHANGED <<unlocked, cats, dCats, todo>>

(***************************************************************************)
(* import_bundle, of a bundle that opens: every record is merged into the  *)
(* entries there are by then, and the table is saved once.                 *)
(***************************************************************************)
BundleBegin(bundle) ==
  /\ Idle /\ unlocked
  /\ op' = "bundle" /\ todo' = bundle
  /\ own' = IF bundle = ExportedBundle THEN {entries} ELSE {}
  /\ UNCHANGED <<unlocked, ram, disk, list, hist>>

BundleItem ==
  /\ op = "bundle" /\ todo # <<>>
  /\ LET item  == Head(todo)
         match == First(WithTitle(entries, item.title))
     IN  \/ /\ match # 0
            /\ entries' = [entries EXCEPT ![match].cat = KeepCat(item.cat), ![match].body = item.body]
         \/ /\ match = 0 /\ Len(entries) < MAX_ENTRIES
            /\ entries' = Append(entries, Record(LowestFree(entries), item.cat, item.title, item.body))
         \/ /\ match = 0 /\ Len(entries) >= MAX_ENTRIES
            /\ UNCHANGED entries
  /\ todo' = Tail(todo)
  /\ UNCHANGED <<unlocked, cats, disk, op, list, own, hist>>

BundleEnd ==
  /\ op = "bundle" /\ todo = <<>>
  /\ EditEntries("bundle", entries)
  /\ op' = "none" /\ own' = {}
  /\ UNCHANGED <<unlocked, cats, dCats, todo, list>>

(***************************************************************************)
(* Locking, unlocking and power.                                           *)
(***************************************************************************)
Wiped == /\ unlocked' = FALSE
         /\ entries' = <<>> /\ cats' = <<>>
         /\ op' = "none" /\ todo' = <<>> /\ list' = <<>> /\ own' = {}
         /\ stale' = {}
         /\ UNCHANGED disk

Lock == Idle /\ Wiped /\ UNCHANGED failed

\* Power loss in an import leaves the old table; in a deletion, half of it done.
PowerLoss == /\ Idle \/ op \in CrashOps
             /\ Wiped
             /\ failed' = (failed \/ op = "catdel")

\* load_entries and load_cats; a second login reloads over what is in RAM.
Unlock == /\ Idle
          /\ unlocked' = TRUE
          /\ entries' = dEntries /\ cats' = dCats
          /\ stale' = {}
          /\ UNCHANGED <<disk, op, todo, list, own, failed>>

Next ==
  \/ \E t \in Titles, b \in Bodies, c \in CatIds : Add(t, b, c) \/ \E id \in Ids : Update(id, t, b, c)
  \/ \E id \in Ids : Remove(id) \/ CategoryDelete(id)
  \/ \E n \in Names : CategoryAdd(n)
  \/ \E f \in Files \cup {Exported} : ImportBegin(f)
  \/ \E bundle \in Bundles \cup {ExportedBundle} : BundleBegin(bundle)
  \/ ClearEntries \/ CategoryDeleteEntries
  \/ ImportItem \/ ImportEnd \/ BundleItem \/ BundleEnd
  \/ Lock \/ PowerLoss \/ Unlock

Spec == Init /\ [][Next]_vars

-----------------------------------------------------------------------------
\* An id names one entry, and one category, in RAM and on flash: deletion,
\* reuse of the lowest free id, imports and reloads never produce two.
Distinct(s) == \A i, j \in DOMAIN s : s[i].id = s[j].id => i = j

UniqueIds == Distinct(entries) /\ Distinct(dEntries) /\ Distinct(cats) /\ Distinct(dCats)

CategoriesExist == unlocked => \A i \in DOMAIN entries : category_valid(entries[i].cat)

\* As long as every edit but an add has been reported as saved and no deletion
\* was cut short, every entry is Uncategorized or in a category that exists:
\* deletion moves them, and no reload, import or reuse of a category's id
\* brings a dangling one back.
CategoriesExistIfSaved == ~failed => CategoriesExist

\* Deleting a category moves its entries to Uncategorized: whatever fails and
\* whenever power is lost, no entry is left in a category that is gone.
EntriesMoveToUncategorized == CategoriesExist

\* What the client sees is what a reboot brings back, except for a table whose
\* last edit was reported as failed; a failed add is no exception.
SurvivesReboot ==
  /\ unlocked /\ Idle /\ "entries" \notin stale => entries = dEntries
  /\ unlocked /\ Idle /\ "cats" \notin stale => cats = dCats

\* An import is all or nothing on flash: the entries there change once, when
\* the whole file is merged, and to the merged table.
ImportAllOrNothing ==
  [][Merging /\ disk' # disk => todo = <<>> /\ dEntries' = entries /\ UNCHANGED dCats]_vars

\* No two entries share title and username, no two categories their stored name,
\* and every entry's category exists.
Unambiguous(s) == /\ \A i, j \in DOMAIN s : s[i].title = s[j].title => i = j
                  /\ \A i, j \in DOMAIN cats : cats[i].name = cats[j].name => i = j
                  /\ \A i \in DOMAIN s : category_valid(s[i].cat)

\* The device takes back the file, or the bundle, it has just written: no entry
\* is added twice, none is dropped at a full table, and every entry finds its
\* category again by name, whatever ids and positions deletions have left.
ReimportChangesNothing == \A before \in own : todo = <<>> /\ Unambiguous(before) => entries = before

\* The same of any table.  Entries that share title and username, or categories
\* that share a stored name, are not told apart by an import.
ReimportAlwaysChangesNothing == \A before \in own : todo = <<>> => entries = before

Duplicated == {t \in Title : \E i, j \in DOMAIN entries :
                               i # j /\ entries[i].title = t /\ entries[j].title = t}

\* An import collapses duplicates instead of adding them: no title (with its
\* username) that was unique before an item occurs twice after it.
ImportCollapses == [][Merging => Duplicated' \subseteq Duplicated]_vars

\* By id, the tables are those of the abstract specification: deletions that
\* move an element, the import's own list, the reuse of ids and the reloads
\* each touch the records they name, and no record is filed under a category
\* that is not there.
ById(s) == [id \in IdsOf(s) |-> s[CHOOSE i \in DOMAIN s : s[i].id = id]]

C == INSTANCE Catalogue WITH entries <- ById(entries), cats <- ById(cats),
                             dEntries <- ById(dEntries), dCats <- ById(dCats)

ImplementsCatalogue == C!Spec
=============================================================================
