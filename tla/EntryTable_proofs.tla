------------------------- MODULE EntryTable_proofs -------------------------
(***************************************************************************)
(* Theorems about EntryTable, for every set of titles, names, files and    *)
(* bundles and every size of the tables.                                   *)
(***************************************************************************)
EXTENDS EntryTable, FiniteSetTheorems, WellFoundedInduction, TLAPS

LEMMA Sizes ==
  /\ MAX_ENTRIES \in Nat /\ MAX_CATEGORIES \in Nat /\ ID_MAX \in Nat
  /\ MAX_ENTRIES < ID_MAX /\ MAX_CATEGORIES < ID_MAX
  BY EntryTableConstants

-----------------------------------------------------------------------------
(***************************************************************************)
(* The loops of the class: the first index, the lowest free id.            *)
(***************************************************************************)
LEMMA LeastNatural ==
  ASSUME NEW T, T \subseteq Nat, T # {}
  PROVE  \E x \in T : \A y \in T : x <= y
<1> DEFINE R == OpToRel(<, Nat)
<1>1. IsWellFoundedOn(R, Nat)
  BY NatLessThanWellFounded
<1>2. PICK x \in T : \A y \in T : ~ (<<y, x>> \in R)
  <2> HIDE DEF R
  <2> QED BY <1>1, WFMin
<1>3. ASSUME NEW y \in T PROVE x <= y
  <2>1. ~ (y < x)
    BY <1>2 DEF OpToRel
  <2> QED BY <2>1
<1> QED BY <1>3

LEMMA FirstFound ==
  ASSUME NEW n \in Nat, NEW hits, hits \subseteq 1 .. n, hits # {}
  PROVE  First(hits) \in hits /\ \A j \in hits : First(hits) <= j
<1>1. \E i \in hits : \A j \in hits : i <= j
  <2>1. hits \subseteq Nat
    OBVIOUS
  <2> QED BY <2>1, LeastNatural
<1> QED BY <1>1 DEF First

LEMMA FirstNone == First({}) = 0
  BY DEF First

\* There is a free id while the table is not as long as there are ids.
LEMMA FreeId ==
  ASSUME NEW T, NEW s \in Seq(T), Len(s) < ID_MAX
  PROVE  \E i \in Ids : i \notin IdsOf(s)
<1> SUFFICES ASSUME \A i \in Ids : i \in IdsOf(s) PROVE FALSE
  OBVIOUS
<1> DEFINE n == Len(s)
           pos == [i \in Ids |-> CHOOSE j \in 1 .. n : s[j].id = i]
<1>1. \A i \in Ids : \E j \in 1 .. n : s[j].id = i
  BY DEF IdsOf
<1>2. \A i \in Ids : pos[i] \in 1 .. n /\ s[pos[i]].id = i
  BY <1>1
<1>3. n \in Nat /\ n < ID_MAX
  OBVIOUS
<1> HIDE DEF pos
<1>4. pos \in [Ids -> 1 .. n]
  BY <1>2 DEF pos
<1>5. /\ IsFiniteSet(Ids) /\ Cardinality(Ids) = ID_MAX
      /\ IsFiniteSet(1 .. n) /\ Cardinality(1 .. n) = n
  <2>1. ASSUME NEW m \in Nat PROVE IsFiniteSet(1 .. m) /\ Cardinality(1 .. m) = m
    BY FS_Interval
  <2> HIDE DEF n
  <2> QED BY <1>3, <2>1, Sizes DEF Ids
<1>6. PICK x, y \in Ids : x # y /\ pos[x] = pos[y]
  BY <1>3, <1>4, <1>5, FS_PigeonHole
<1> QED BY <1>2, <1>6

LEMMA LowestFreeIsFree ==
  ASSUME NEW T, NEW s \in Seq(T), Len(s) < ID_MAX
  PROVE  LowestFree(s) \in Ids /\ LowestFree(s) \notin IdsOf(s)
<1> DEFINE free == {i \in Ids : i \notin IdsOf(s)}
<1>1. free # {} /\ free \subseteq Nat
  BY FreeId DEF Ids
<1>2. PICK i \in free : \A j \in free : i <= j
  <2> HIDE DEF free
  <2> QED BY <1>1, LeastNatural
<1>3. \A j \in 1 .. i - 1 : j \in IdsOf(s)
  BY <1>2, Sizes DEF Ids
<1> QED BY <1>2, <1>3 DEF LowestFree

-----------------------------------------------------------------------------
(***************************************************************************)
(* A table: the ids in it are distinct, and it is no longer than it may    *)
(* be.  Each edit of a table makes a table.                                *)
(***************************************************************************)
Table(T, max, s) == s \in Seq(T) /\ Len(s) <= max /\ Distinct(s)

LEMMA AppendTable ==
  ASSUME NEW T, NEW max \in Nat, max < ID_MAX, NEW s, Table(T, max, s), Len(s) < max,
         NEW r \in T, r.id = LowestFree(s)
  PROVE  Table(T, max, Append(s, r))
<1> DEFINE n == Len(s)
<1>1. s \in Seq(T) /\ n \in Nat /\ n < ID_MAX
  BY Sizes DEF Table
<1>2. \A i \in 1 .. n : s[i].id # r.id
  BY <1>1, LowestFreeIsFree DEF IdsOf
<1>3. /\ Append(s, r) \in Seq(T) /\ Len(Append(s, r)) = n + 1 /\ Append(s, r)[n + 1] = r
      /\ DOMAIN Append(s, r) = 1 .. n + 1
      /\ \A i \in 1 .. n : Append(s, r)[i] = s[i]
  BY <1>1
<1>4. \A i, j \in 1 .. n : s[i].id = s[j].id => i = j
  BY <1>1 DEF Table, Distinct
<1>5. Distinct(Append(s, r))
  <2> SUFFICES ASSUME NEW i \in 1 .. n + 1, NEW j \in 1 .. n + 1,
                      Append(s, r)[i].id = Append(s, r)[j].id
               PROVE  i = j
    BY <1>3 DEF Distinct
  <2>1. CASE i \in 1 .. n /\ j \in 1 .. n
    BY <1>3, <1>4, <2>1
  <2>2. CASE i = n + 1 \/ j = n + 1
    BY <1>1, <1>2, <1>3, <2>2
  <2> QED BY <1>1, <2>1, <2>2
<1> QED BY <1>1, <1>3, <1>5 DEF Table

LEMMA ExceptTable ==
  ASSUME NEW T, NEW max, NEW s, Table(T, max, s), NEW i \in DOMAIN s,
         NEW r \in T, r.id = s[i].id
  PROVE  Table(T, max, [s EXCEPT ![i] = r])
<1> DEFINE e == [s EXCEPT ![i] = r]
<1>1. e \in Seq(T) /\ Len(e) = Len(s) /\ DOMAIN e = DOMAIN s
  BY DEF Table
<1>2. \A j \in DOMAIN s : e[j].id = s[j].id
  OBVIOUS
<1> HIDE DEF e
<1>3. Distinct(e)
  BY <1>1, <1>2 DEF Table, Distinct
<1> QED BY <1>1, <1>3 DEF Table, e

LEMMA SwapOutAt ==
  ASSUME NEW T, NEW s \in Seq(T), NEW i \in DOMAIN s
  PROVE  /\ SwapOut(s, i) \in Seq(T)
         /\ Len(SwapOut(s, i)) = Len(s) - 1
         /\ \A j \in 1 .. Len(s) - 1 : SwapOut(s, i)[j] = IF j = i THEN s[Len(s)] ELSE s[j]
<1> DEFINE n == Len(s)
           e == [s EXCEPT ![i] = s[n]]
           t == SwapOut(s, i)
<1>1. n \in Nat /\ n >= 1 /\ i \in 1 .. n /\ DOMAIN s = 1 .. n
  OBVIOUS
<1>2. e \in Seq(T) /\ Len(e) = n
  BY <1>1
<1>3. \A j \in 1 .. n : e[j] = IF j = i THEN s[n] ELSE s[j]
  BY <1>1
<1>4. t = SubSeq(e, 1, n - 1)
  BY DEF SwapOut
<1> HIDE DEF e, t
<1>5. t \in Seq(T) /\ Len(t) = n - 1 /\ \A j \in 1 .. n - 1 : t[j] = e[j]
  BY <1>1, <1>2, <1>4
<1>6. \A j \in 1 .. n - 1 : t[j] = IF j = i THEN s[n] ELSE s[j]
  BY <1>1, <1>3, <1>5
<1> QED BY <1>5, <1>6 DEF t

LEMMA SwapOutTable ==
  ASSUME NEW T, NEW max \in Nat, NEW s, Table(T, max, s), NEW i \in DOMAIN s
  PROVE  Table(T, max, SwapOut(s, i))
<1> DEFINE n == Len(s)
           t == SwapOut(s, i)
<1>1. s \in Seq(T) /\ n \in Nat /\ n >= 1 /\ i \in 1 .. n /\ DOMAIN s = 1 .. n /\ n <= max
  BY DEF Table
<1>2. t \in Seq(T) /\ Len(t) = n - 1
  BY <1>1, SwapOutAt
<1>3. \A j \in 1 .. n - 1 : t[j] = IF j = i THEN s[n] ELSE s[j]
  BY <1>1, SwapOutAt
<1> HIDE DEF t
<1>4. Distinct(t)
  <2> SUFFICES ASSUME NEW j \in 1 .. n - 1, NEW k \in 1 .. n - 1, t[j].id = t[k].id
               PROVE  j = k
    BY <1>2 DEF Distinct
  <2> DEFINE at(x) == IF x = i THEN n ELSE x
  <2>1. at(j) \in 1 .. n /\ at(k) \in 1 .. n /\ s[at(j)].id = s[at(k)].id
    BY <1>1, <1>3
  <2>2. at(j) = at(k)
    BY <1>1, <2>1 DEF Table, Distinct
  <2> QED BY <1>1, <2>2
<1> QED BY <1>1, <1>2, <1>4 DEF Table, t

LEMMA EmptyTable ==
  ASSUME NEW T, NEW max \in Nat PROVE Table(T, max, <<>>)
  BY DEF Table, Distinct

-----------------------------------------------------------------------------
(***************************************************************************)
(* The state: four tables, and the handler's list of an import, which      *)
(* shows the entries as they are, those the import itself added included.  *)
(***************************************************************************)
EntryTab(s) == Table(Entry, MAX_ENTRIES, s)
CatTab(s)   == Table(Cat, MAX_CATEGORIES, s)

Tables == EntryTab(entries) /\ EntryTab(dEntries) /\ CatTab(cats) /\ CatTab(dCats)

Others ==
  /\ unlocked \in BOOLEAN
  /\ op \in {"none", "catdel", "import", "bundle"}
  /\ op = "import" => todo \in Seq(FileItem)
  /\ op = "bundle" => todo \in Seq(Packed)
  /\ list \in Seq(Listed)
  /\ own \subseteq Seq(Entry) /\ stale \subseteq {"entries", "cats"} /\ failed \in BOOLEAN

Mirror ==
  op = "import" => /\ Len(list) = Len(entries)
                   /\ \A i \in 1 .. Len(entries) : /\ list[i].id = entries[i].id
                                                   /\ list[i].title = entries[i].title

Inv == Tables /\ Others /\ Mirror

LEMMA InvMeans == Inv => TypeOK /\ UniqueIds
  BY DEF Inv, Tables, EntryTab, CatTab, Table, Others, TypeOK, UniqueIds

\* How elements of a table look.
LEMMA EntryAt ==
  ASSUME Tables, NEW i \in DOMAIN entries
  PROVE  /\ entries[i] \in Entry /\ entries[i].id \in Ids /\ entries[i].cat \in CatIds
         /\ entries[i].title \in Title /\ entries[i].body \in Bodies
<1>1. entries[i] \in Entry
  BY DEF Tables, EntryTab, Table
<1> QED BY <1>1 DEF Entry

LEMMA CatAt ==
  ASSUME Tables, NEW i \in DOMAIN cats
  PROVE  cats[i] \in Cat /\ cats[i].id \in Ids /\ cats[i].name \in Name
<1>1. cats[i] \in Cat
  BY DEF Tables, CatTab, Table
<1> QED BY <1>1 DEF Cat

LEMMA Lengths ==
  ASSUME Tables
  PROVE  /\ Len(entries) \in Nat /\ DOMAIN entries = 1 .. Len(entries)
         /\ Len(cats) \in Nat /\ DOMAIN cats = 1 .. Len(cats)
         /\ entries \in Seq(Entry) /\ cats \in Seq(Cat)
  BY DEF Tables, EntryTab, CatTab, Table

\* A title is stored cut, a title that is not too long as it is.
LEMMA Stored ==
  /\ \A t \in AnyTitle : StoredTitle(t) \in Title
  /\ \A t \in Title : StoredTitle(t) = t
  /\ \A c \in Names : c # EMPTY => StoredName(c) \in Name
  BY EntryTableConstants DEF StoredTitle, StoredName, AnyTitle, Title, AnyName, Name

LEMMA Recorded ==
  ASSUME NEW id \in Ids, NEW c \in CatIds, NEW t \in AnyTitle, NEW b \in Bodies
  PROVE  /\ Record(id, c, t, b) \in Entry
         /\ Record(id, c, t, b).id = id /\ Record(id, c, t, b).cat = KeepCat(c)
         /\ Record(id, c, t, b).title = StoredTitle(t) /\ Record(id, c, t, b).body = b
<1>1. KeepCat(c) \in CatIds
  BY EntryTableConstants DEF KeepCat, CatIds
<1>2. StoredTitle(t) \in Title
  BY Stored
<1> QED BY <1>1, <1>2 DEF Record, Entry

\* An id, and with distinct ids only one element, answers to find.
LEMMA Found ==
  ASSUME Tables, NEW i \in DOMAIN entries
  PROVE  find(entries[i].id) = i
<1>1. WithId(entries, entries[i].id) = {i}
  BY DEF WithId, Tables, EntryTab, Table, Distinct
<1>2. {i} \subseteq 1 .. Len(entries) /\ Len(entries) \in Nat
  BY Lengths
<1>3. First({i}) = i
  BY <1>2, FirstFound
<1> QED BY <1>1, <1>3 DEF find

LEMMA FindsSomething ==
  ASSUME Tables, NEW id, find(id) # 0
  PROVE  find(id) \in DOMAIN entries /\ entries[find(id)].id = id
<1>1. WithId(entries, id) # {} /\ WithId(entries, id) \subseteq 1 .. Len(entries)
  BY Lengths, FirstNone DEF find, WithId
<1>2. find(id) \in WithId(entries, id)
  BY <1>1, Lengths, FirstFound DEF find
<1> QED BY <1>2 DEF WithId

-----------------------------------------------------------------------------
(***************************************************************************)
(* One item of a file or a bundle: the entry with its title is overwritten,*)
(* or it is added while there is room, or nothing happens.  The two        *)
(* imports differ only in how they look for the entry and the category.    *)
(***************************************************************************)
Overwrites(item, c, i) ==
  /\ entries[i].title = item.title
  /\ entries' = [entries EXCEPT ![i] = Record(entries[i].id, c, item.title, item.body)]

Adds(item, c) ==
  /\ \A i \in DOMAIN entries : entries[i].title # item.title
  /\ Len(entries) < MAX_ENTRIES
  /\ entries' = Append(entries, Record(LowestFree(entries), c, item.title, item.body))

Puts(item, c) ==
  \/ UNCHANGED entries
  \/ Adds(item, c)
  \/ \E i \in DOMAIN entries : Overwrites(item, c, i)

LEMMA PutsTable ==
  ASSUME Tables, NEW c \in CatIds, NEW item, item.title \in AnyTitle, item.body \in Bodies,
         Puts(item, c)
  PROVE  EntryTab(entries')
<1> USE Sizes, Lengths
<1>1. CASE UNCHANGED entries
  BY <1>1 DEF Tables
<1>2. CASE Adds(item, c)
  <2>1. LowestFree(entries) \in Ids
    BY <1>2, LowestFreeIsFree DEF Adds
  <2>2. Record(LowestFree(entries), c, item.title, item.body) \in Entry
        /\ Record(LowestFree(entries), c, item.title, item.body).id = LowestFree(entries)
    BY <2>1, Recorded
  <2> QED BY <1>2, <2>2, AppendTable DEF Adds, Tables, EntryTab
<1>3. ASSUME NEW i \in DOMAIN entries, Overwrites(item, c, i) PROVE EntryTab(entries')
  <2>1. Record(entries[i].id, c, item.title, item.body) \in Entry
        /\ Record(entries[i].id, c, item.title, item.body).id = entries[i].id
    BY EntryAt, Recorded
  <2> QED BY <1>3, <2>1, ExceptTable DEF Overwrites, Tables, EntryTab
<1> QED BY <1>1, <1>2, <1>3 DEF Puts

LEMMA CatNamedType == ASSUME Tables, NEW name PROVE CatNamed(name) \in CatIds
<1> DEFINE hits == {j \in DOMAIN cats : cats[j].name = name}
<1>1. hits # {} => First(hits) \in DOMAIN cats
  BY Lengths, FirstFound
<1>2. hits = {} => First(hits) = 0
  BY FirstNone
<1>3. \A j \in DOMAIN cats : cats[j].id \in CatIds
  BY CatAt, Sizes DEF Ids, CatIds
<1>4. 0 \in CatIds
  BY Sizes DEF CatIds
<1> HIDE DEF hits
<1> QED BY <1>1, <1>2, <1>3, <1>4 DEF CatNamed, hits

LEMMA ImportHead ==
  ASSUME Inv, ImportItem
  PROVE  /\ Head(todo) \in FileItem /\ Tail(todo) \in Seq(FileItem)
         /\ Head(todo).title \in AnyTitle /\ Head(todo).body \in Bodies
         /\ Head(todo).cat \in AnyName
<1>1. todo \in Seq(FileItem) /\ todo # <<>>
  BY DEF Inv, Others, ImportItem, bulk
<1>2. Head(todo) \in FileItem /\ Tail(todo) \in Seq(FileItem)
  BY <1>1
<1> QED BY <1>2 DEF FileItem

LEMMA BundleHead ==
  ASSUME Inv, BundleItem
  PROVE  /\ Head(todo) \in Packed /\ Tail(todo) \in Seq(Packed)
         /\ Head(todo).title \in Title /\ Head(todo).title \in AnyTitle
         /\ Head(todo).body \in Bodies /\ Head(todo).cat \in CatIds
<1>1. todo \in Seq(Packed) /\ todo # <<>>
  BY DEF Inv, Others, BundleItem
<1>2. Head(todo) \in Packed /\ Tail(todo) \in Seq(Packed)
  BY <1>1
<1> QED BY <1>2 DEF Packed, Title

\* The list finds the entry with the item's title, at its place.
LEMMA ImportItemPuts ==
  ASSUME Inv, ImportItem
  PROVE  LET item == Head(todo)
             c    == CatNamed(item.cat)
         IN  \/ UNCHANGED <<entries, list>>
             \/ /\ Adds(item, c)
                /\ list' = Append(list, [id |-> LowestFree(entries),
                                         title |-> StoredTitle(item.title)])
             \/ /\ \E i \in DOMAIN entries : Overwrites(item, c, i)
                /\ UNCHANGED list
<1> DEFINE item  == Head(todo)
           c     == CatNamed(item.cat)
           hits  == WithTitle(list, item.title)
           match == First(hits)
<1>1. /\ Tables /\ Len(list) = Len(entries) /\ DOMAIN list = DOMAIN entries
      /\ \A i \in DOMAIN entries : list[i].id = entries[i].id /\ list[i].title = entries[i].title
  <2>1. list \in Seq(Listed)
    BY DEF Inv, Others
  <2> QED BY <2>1, Lengths DEF Inv, Mirror, ImportItem, bulk
<1>2. hits = {i \in DOMAIN entries : entries[i].title = item.title}
  BY <1>1 DEF WithTitle
<1>3. hits = {} => match = 0
  BY FirstNone
<1>4. hits # {} => match \in DOMAIN entries /\ entries[match].title = item.title
  BY <1>1, <1>2, Lengths, FirstFound
<1>5. match = 0 => hits = {}
  BY <1>1, <1>4, Lengths
<1>6. CASE item.title = EMPTY /\ UNCHANGED <<entries, list>>
  BY <1>6
<1>7. CASE /\ match # 0
           /\ entries' = IF find(list[match].id) = 0 THEN entries
                          ELSE [entries EXCEPT ![find(list[match].id)] =
                                  Record(list[match].id, c, item.title, item.body)]
           /\ UNCHANGED list
  <2>1. match \in DOMAIN entries /\ entries[match].title = item.title
        /\ list[match].id = entries[match].id
    BY <1>1, <1>3, <1>4, <1>7
  <2>2. find(list[match].id) = match
    BY <1>1, <2>1, Found
  <2>3. Overwrites(item, c, match)
    BY <1>7, <2>1, <2>2 DEF Overwrites
  <2> QED BY <1>7, <2>1, <2>3
<1>8. CASE /\ match = 0 /\ Len(entries) < MAX_ENTRIES
           /\ entries' = Append(entries, Record(LowestFree(entries), c, item.title, item.body))
           /\ list' = Append(list, [id |-> LowestFree(entries), title |-> StoredTitle(item.title)])
  BY <1>2, <1>5, <1>8 DEF Adds
<1>9. CASE UNCHANGED <<entries, list>>
  BY <1>9
<1> HIDE DEF hits, c
<1> QED BY <1>6, <1>7, <1>8, <1>9 DEF ImportItem, hits, c

LEMMA Rewritten ==
  ASSUME NEW e \in Entry, NEW c \in CatIds, NEW b
  PROVE  [[e EXCEPT !.cat = c] EXCEPT !.body = b] = [id |-> e.id, cat |-> c, title |-> e.title, body |-> b]
<1>1. PICK f \in Entry : f = [e EXCEPT !.cat = c]
  BY DEF Entry
<1>2. f.id = e.id /\ f.cat = c /\ f.title = e.title /\ f.body = e.body
  BY <1>1 DEF Entry
<1>3. [f EXCEPT !.body = b] = [id |-> f.id, cat |-> f.cat, title |-> f.title, body |-> b]
  BY DEF Entry
<1> QED BY <1>1, <1>2, <1>3

\* A bundle's record keeps id and title of the entry it overwrites.
LEMMA BundleItemPuts ==
  ASSUME Inv, BundleItem
  PROVE  LET item == Head(todo)
         IN  \/ UNCHANGED entries
             \/ Adds(item, item.cat)
             \/ \E i \in DOMAIN entries : Overwrites(item, item.cat, i)
<1> DEFINE item  == Head(todo)
           hits  == WithTitle(entries, item.title)
           match == First(hits)
<1>1. Tables /\ item.title \in Title
  BY BundleHead DEF Inv
<1>2. hits = {} <=> \A i \in DOMAIN entries : entries[i].title # item.title
  BY DEF WithTitle
<1>3. hits # {} => match \in DOMAIN entries /\ entries[match].title = item.title
  BY <1>1, Lengths, FirstFound DEF WithTitle
<1>4. match = 0 <=> hits = {}
  <2>1. hits = {} => match = 0
    BY FirstNone
  <2>2. hits # {} => match # 0
    BY <1>1, <1>3, Lengths
  <2> QED BY <2>1, <2>2
<1>5. CASE /\ match # 0
           /\ entries' = [entries EXCEPT ![match].cat = KeepCat(item.cat), ![match].body = item.body]
  <2>1. match \in DOMAIN entries /\ entries[match] \in Entry /\ entries[match].title = item.title
    BY <1>1, <1>3, <1>4, <1>5, EntryAt
  <2>2. StoredTitle(item.title) = item.title
    BY <1>1, Stored
  <2> HIDE DEF match
  <2> DEFINE old == entries[match]
             new == [[old EXCEPT !.cat = KeepCat(item.cat)] EXCEPT !.body = item.body]
  <2>3. new = Record(old.id, item.cat, item.title, item.body)
    <3>1. new = [id |-> old.id, cat |-> KeepCat(item.cat), title |-> old.title, body |-> item.body]
      <4>1. KeepCat(item.cat) \in CatIds
        BY BundleHead, Sizes DEF KeepCat, CatIds
      <4> QED BY <2>1, <4>1, Rewritten
    <3> QED BY <2>1, <2>2, <3>1 DEF Record
  <2>4. entries' = [entries EXCEPT ![match] = new]
    BY <1>5, <2>1
  <2>5. Overwrites(item, item.cat, match)
    BY <2>1, <2>3, <2>4 DEF Overwrites
  <2> QED BY <2>1, <2>5
<1>6. CASE /\ match = 0 /\ Len(entries) < MAX_ENTRIES
           /\ entries' = Append(entries, Record(LowestFree(entries), item.cat, item.title, item.body))
  BY <1>2, <1>4, <1>6 DEF Adds
<1>7. CASE UNCHANGED entries
  BY <1>7
<1> HIDE DEF hits
<1> QED BY <1>5, <1>6, <1>7 DEF BundleItem, hits

-----------------------------------------------------------------------------
(***************************************************************************)
(* Every step keeps the tables, ...                                        *)
(***************************************************************************)
LEMMA EditKeeps ==
  ASSUME Tables, Others, NEW o, NEW new, EntryTab(new), EditEntries(o, new), UNCHANGED <<cats, dCats>>
  PROVE  Tables' /\ stale' \subseteq {"entries", "cats"} /\ failed' \in BOOLEAN
<1>1. PICK threw \in BOOLEAN : Saves(o, dEntries, dEntries', new, threw) /\ Mark("entries", threw)
  BY DEF EditEntries
<1>2. dEntries' = dEntries \/ dEntries' = new
  BY <1>1 DEF Saves
<1>3. entries' = new
  BY DEF EditEntries
<1>4. Tables'
  BY <1>2, <1>3 DEF Tables, EntryTab, CatTab
<1>5. stale' \subseteq {"entries", "cats"}
  BY <1>1 DEF Mark, Others
<1>6. failed' \in BOOLEAN
  BY <1>1 DEF Mark, Others
<1> QED BY <1>4, <1>5, <1>6

\* A deletion moves its category's entries, and changes nothing else of them.
Moved(id) == [i \in DOMAIN entries |->
                IF entries[i].cat = id THEN [entries[i] EXCEPT !.cat = 0] ELSE entries[i]]

LEMMA MovedTable ==
  ASSUME Tables, NEW id
  PROVE  EntryTab(Moved(id))
<1> DEFINE m == Moved(id)
<1>1. \A i \in 1 .. Len(entries) : m[i] \in Entry /\ m[i].id = entries[i].id
  <2> SUFFICES ASSUME NEW i \in 1 .. Len(entries) PROVE m[i] \in Entry /\ m[i].id = entries[i].id
    OBVIOUS
  <2>1. entries[i] \in Entry /\ 0 \in CatIds
    BY EntryAt, Lengths, Sizes DEF CatIds
  <2>2. m[i] = IF entries[i].cat = id THEN [entries[i] EXCEPT !.cat = 0] ELSE entries[i]
    BY Lengths DEF Moved
  <2> QED BY <2>1, <2>2 DEF Entry
<1>2. DOMAIN m = 1 .. Len(entries) /\ Len(entries) \in Nat
  BY Lengths DEF Moved
<1>3. m = [i \in 1 .. Len(entries) |-> m[i]]
  BY <1>2 DEF Moved
<1> HIDE DEF m
<1>4. m \in Seq(Entry) /\ Len(m) = Len(entries)
  BY <1>1, <1>2, <1>3
<1>5. Distinct(m)
  BY <1>1, <1>2, Lengths DEF Tables, EntryTab, Table, Distinct
<1> QED BY <1>4, <1>5 DEF EntryTab, Table, Tables, m

LEMMA AddKeeps ==
  ASSUME Inv, NEW t \in Titles, NEW b \in Bodies, NEW c \in CatIds, Add(t, b, c)
  PROVE  Inv'
<1> DEFINE r   == Record(LowestFree(entries), c, t, b)
           new == Append(entries, r)
<1>1. Tables /\ Others /\ Len(entries) < MAX_ENTRIES /\ t \in AnyTitle
  BY DEF Inv, Add, AnyTitle
<1>2. LowestFree(entries) \in Ids
  BY <1>1, Lengths, Sizes, LowestFreeIsFree
<1>3. r \in Entry /\ r.id = LowestFree(entries)
  BY <1>1, <1>2, Recorded
<1> HIDE DEF r
<1>4. EntryTab(new)
  BY <1>1, <1>3, Sizes, AppendTable DEF Tables, EntryTab
<1> HIDE DEF new
<1>5. PICK threw \in BOOLEAN :
           /\ Saves("add", dEntries, dEntries', new, threw)
           /\ entries' = IF threw THEN entries ELSE new
           /\ stale' = IF threw THEN stale ELSE stale \ {"entries"}
  BY DEF Add, new, r
<1>6. Tables'
  <2>1. EntryTab(entries')
    BY <1>1, <1>4, <1>5 DEF Tables
  <2>2. EntryTab(dEntries')
    BY <1>1, <1>4, <1>5 DEF Tables, Saves
  <2> QED BY <1>1, <2>1, <2>2 DEF Tables, Add, CatTab
<1>7. Others'
  BY <1>1, <1>5 DEF Others, Add, Idle
<1>8. Mirror'
  BY DEF Mirror, Add, Idle
<1> QED BY <1>6, <1>7, <1>8 DEF Inv

LEMMA UpdateKeeps ==
  ASSUME Inv, NEW id \in Ids, NEW t \in Titles, NEW b \in Bodies, NEW c \in CatIds, Update(id, t, b, c)
  PROVE  Inv'
<1> DEFINE new == [entries EXCEPT ![find(id)] = Record(id, c, t, b)]
<1>1. Tables /\ Others /\ t \in AnyTitle /\ op' = "none" /\ UNCHANGED <<unlocked, cats, dCats, op, todo, list, own>>
  BY DEF Inv, Update, AnyTitle, Idle
<1>2. find(id) \in DOMAIN entries /\ entries[find(id)].id = id
  BY <1>1, FindsSomething DEF Update
<1>3. Record(id, c, t, b) \in Entry /\ Record(id, c, t, b).id = id
  BY <1>1, Recorded
<1>4. EntryTab(new)
  BY <1>1, <1>2, <1>3, ExceptTable DEF Tables, EntryTab
<1> HIDE DEF new
<1>5. EditEntries("update", new)
  BY DEF Update, new
<1>6. Tables' /\ stale' \subseteq {"entries", "cats"} /\ failed' \in BOOLEAN
  BY <1>1, <1>4, <1>5, EditKeeps
<1> QED BY <1>1, <1>6 DEF Inv, Others, Mirror

LEMMA RemoveKeeps ==
  ASSUME Inv, NEW id \in Ids, Remove(id)
  PROVE  Inv'
<1> DEFINE new == SwapOut(entries, find(id))
<1>1. Tables /\ Others /\ op' = "none" /\ UNCHANGED <<unlocked, cats, dCats, op, todo, list, own>>
  BY DEF Inv, Remove, Idle
<1>2. find(id) \in DOMAIN entries
  BY <1>1, FindsSomething DEF Remove
<1>3. EntryTab(new)
  BY <1>1, <1>2, Sizes, SwapOutTable DEF Tables, EntryTab
<1> HIDE DEF new
<1>4. EditEntries("remove", new)
  BY DEF Remove, new
<1>5. Tables' /\ stale' \subseteq {"entries", "cats"} /\ failed' \in BOOLEAN
  BY <1>1, <1>3, <1>4, EditKeeps
<1> QED BY <1>1, <1>5 DEF Inv, Others, Mirror

LEMMA SavesKeep ==
  ASSUME Inv, ClearEntries \/ CategoryDeleteEntries \/ ImportEnd \/ BundleEnd
  PROVE  Inv'
<1>1. Tables /\ Others /\ op' = "none" /\ UNCHANGED <<unlocked, cats, dCats, todo>>
  BY DEF Inv, ClearEntries, CategoryDeleteEntries, ImportEnd, BundleEnd, Idle
<1>2. list' \in Seq(Listed)
  <2>1. list' = list \/ list' = <<>>
    BY DEF ClearEntries, CategoryDeleteEntries, ImportEnd, BundleEnd
  <2>2. list \in Seq(Listed) /\ <<>> \in Seq(Listed)
    BY <1>1 DEF Others
  <2> QED BY <2>1, <2>2
<1>3. own' \subseteq Seq(Entry)
  <2>1. own' = own \/ own' = {}
    BY DEF ClearEntries, CategoryDeleteEntries, ImportEnd, BundleEnd
  <2> QED BY <1>1, <2>1 DEF Others
<1>4. EntryTab(entries) /\ EntryTab(<<>>)
  BY <1>1, EmptyTable, Sizes DEF Tables, EntryTab
<1>5. Tables' /\ stale' \subseteq {"entries", "cats"} /\ failed' \in BOOLEAN
  BY <1>1, <1>4, EditKeeps DEF ClearEntries, CategoryDeleteEntries, ImportEnd, BundleEnd
<1>6. Others'
  BY <1>1, <1>2, <1>3, <1>5 DEF Others
<1> QED BY <1>1, <1>5, <1>6 DEF Inv, Mirror

LEMMA CategoryAddKeeps ==
  ASSUME Inv, NEW n \in Names, CategoryAdd(n)
  PROVE  Inv'
<1> DEFINE r   == [id |-> LowestFree(cats), name |-> StoredName(n)]
           new == Append(cats, r)
<1>1. Tables /\ Others /\ Len(cats) < MAX_CATEGORIES /\ op' = "none"
      /\ UNCHANGED <<unlocked, entries, dEntries, op, todo, list, own>>
  BY DEF Inv, CategoryAdd, Idle
<1>2. LowestFree(cats) \in Ids /\ StoredName(n) \in Name
  BY <1>1, Lengths, Sizes, LowestFreeIsFree, Stored DEF CategoryAdd
<1>3. r \in Cat /\ r.id = LowestFree(cats)
  BY <1>2 DEF Cat
<1> HIDE DEF r
<1>4. CatTab(new)
  BY <1>1, <1>3, Sizes, AppendTable DEF Tables, CatTab
<1> HIDE DEF new
<1>5. cats' = new /\ (dCats' = dCats \/ dCats' = new)
  BY DEF CategoryAdd, Saves, new, r
<1>6. PICK threw \in BOOLEAN : Mark("cats", threw)
  BY DEF CategoryAdd
<1>7. stale' \subseteq {"entries", "cats"} /\ failed' \in BOOLEAN
  <2>1. stale' \subseteq stale \cup {"cats"}
    BY <1>6 DEF Mark
  <2>2. failed' \in BOOLEAN
    BY <1>6 DEF Mark
  <2> QED BY <1>1, <2>1, <2>2 DEF Others
<1>8. Tables'
  BY <1>1, <1>4, <1>5 DEF Tables, EntryTab, CatTab
<1>9. Others'
  BY <1>1, <1>7 DEF Others
<1> QED BY <1>1, <1>8, <1>9 DEF Inv, Mirror

\* What category_delete does, in terms of the tables.
LEMMA Deletes ==
  ASSUME Inv, NEW id \in Ids, CategoryDelete(id)
  PROVE  /\ entries' = Moved(id)
         /\ \E i \in DOMAIN cats : cats[i].id = id /\ cats' = SwapOut(cats, i)
<1>1. PICK i \in DOMAIN cats : cats[i].id = id
  BY DEF CategoryDelete, IdsOf
<1>2. LET k == CHOOSE j \in DOMAIN cats : cats[j].id = id
      IN  k \in DOMAIN cats /\ cats[k].id = id
  BY <1>1
<1> QED BY <1>2 DEF CategoryDelete, Moved

LEMMA CategoryDeleteKeeps ==
  ASSUME Inv, NEW id \in Ids, CategoryDelete(id)
  PROVE  Inv'
<1>1. Tables /\ Others /\ UNCHANGED <<unlocked, dEntries, todo, list, own>>
  BY DEF Inv, CategoryDelete
<1>2. EntryTab(entries')
  BY <1>1, Deletes, MovedTable
<1>3. CatTab(cats')
  BY <1>1, Deletes, Sizes, SwapOutTable DEF Tables, CatTab
<1>4. PICK threw \in BOOLEAN :
         /\ Saves("catdel", dCats, dCats', cats', threw)
         /\ op' = IF ~threw /\ entries' # entries THEN "catdel" ELSE "none"
         /\ stale' = (stale \ {"cats"}) \cup (IF threw THEN {"cats", "entries"} ELSE {})
         /\ failed' = (failed \/ threw)
  BY DEF CategoryDelete
<1>5. dCats' = dCats \/ dCats' = cats'
  BY <1>4 DEF Saves
<1>6. Tables'
  BY <1>1, <1>2, <1>3, <1>5 DEF Tables, EntryTab, CatTab
<1>7. stale' \subseteq {"entries", "cats"}
  BY <1>1, <1>4 DEF Others
<1>8. failed' \in BOOLEAN
  BY <1>1, <1>4 DEF Others
<1>9. op' \in {"none", "catdel"}
  BY <1>4
<1>10. Others'
  BY <1>1, <1>7, <1>8, <1>9 DEF Others
<1> QED BY <1>6, <1>9, <1>10 DEF Inv, Mirror

\* An export names the category of every entry, or none.
LEMMA CatNameAtId ==
  ASSUME Tables, NEW i \in DOMAIN cats
  PROVE  CatName(cats[i].id) = cats[i].name
<1>1. WithId(cats, cats[i].id) = {i}
  BY DEF WithId, Tables, CatTab, Table, Distinct
<1>2. First({i}) = i
  <2>1. {i} \subseteq 1 .. Len(cats) /\ Len(cats) \in Nat
    BY Lengths
  <2> QED BY <2>1, FirstFound
<1>3. cats[i].id \in IdsOf(cats)
  BY DEF IdsOf
<1> QED BY <1>1, <1>2, <1>3 DEF CatName

LEMMA CatNameType == ASSUME Tables, NEW id PROVE CatName(id) \in AnyName
<1>1. CASE id \in IdsOf(cats)
  <2>1. PICK i \in DOMAIN cats : cats[i].id = id
    BY <1>1 DEF IdsOf
  <2> QED BY <2>1, CatNameAtId, CatAt DEF Name
<1>2. CASE id \notin IdsOf(cats)
  BY <1>2 DEF CatName, AnyName
<1> QED BY <1>1, <1>2

LEMMA ExportedType == ASSUME Tables PROVE Exported \in Seq(FileItem)
<1>1. \A i \in 1 .. Len(entries) :
        [title |-> entries[i].title, body |-> entries[i].body, cat |-> CatName(entries[i].cat)] \in FileItem
  BY EntryAt, Lengths, CatNameType DEF FileItem, Title
<1>2. Exported = [i \in 1 .. Len(entries) |->
        [title |-> entries[i].title, body |-> entries[i].body, cat |-> CatName(entries[i].cat)]]
  BY Lengths DEF Exported
<1> QED BY <1>1, <1>2, Lengths

LEMMA ExportedBundleType == ASSUME Tables PROVE ExportedBundle \in Seq(Packed)
<1>1. \A i \in 1 .. Len(entries) :
        [title |-> entries[i].title, body |-> entries[i].body, cat |-> entries[i].cat] \in Packed
  BY EntryAt, Lengths DEF Packed
<1>2. ExportedBundle = [i \in 1 .. Len(entries) |->
        [title |-> entries[i].title, body |-> entries[i].body, cat |-> entries[i].cat]]
  BY Lengths DEF ExportedBundle
<1> QED BY <1>1, <1>2, Lengths

LEMMA ImportBeginKeeps ==
  ASSUME Inv, NEW file \in Files \cup {Exported}, ImportBegin(file)
  PROVE  Inv'
<1>1. Tables /\ Others /\ op' = "import" /\ todo' = file /\ own' \subseteq {entries}
      /\ UNCHANGED <<unlocked, ram, disk, hist>>
  BY DEF Inv, ImportBegin
<1>2. file \in Seq(FileItem)
  BY <1>1, ExportedType, FileContents
<1>3. /\ list' \in Seq(Listed) /\ Len(list') = Len(entries)
      /\ \A i \in 1 .. Len(entries) : list'[i].id = entries[i].id /\ list'[i].title = entries[i].title
  <2>1. list' = [i \in 1 .. Len(entries) |-> [id |-> entries[i].id, title |-> entries[i].title]]
    BY <1>1, Lengths DEF ImportBegin
  <2>2. \A i \in 1 .. Len(entries) : [id |-> entries[i].id, title |-> entries[i].title] \in Listed
    BY <1>1, EntryAt, Lengths DEF Listed
  <2> QED BY <1>1, <2>1, <2>2, Lengths
<1>4. Tables'
  BY <1>1 DEF Tables, EntryTab, CatTab, ram, disk
<1>5. own' \subseteq Seq(Entry)
  BY <1>1, Lengths
<1>6. Others'
  BY <1>1, <1>2, <1>3, <1>5 DEF Others, hist
<1>7. Mirror'
  <2>1. entries' = entries
    BY <1>1 DEF ram
  <2> QED BY <1>3, <2>1 DEF Mirror
<1> QED BY <1>4, <1>6, <1>7 DEF Inv

LEMMA BundleBeginKeeps ==
  ASSUME Inv, NEW bundle \in Bundles \cup {ExportedBundle}, BundleBegin(bundle)
  PROVE  Inv'
<1>1. Tables /\ Others /\ op' = "bundle" /\ todo' = bundle /\ own' \subseteq {entries}
      /\ UNCHANGED <<unlocked, ram, disk, list, hist>>
  BY DEF Inv, BundleBegin
<1>2. bundle \in Seq(Packed)
  BY <1>1, ExportedBundleType, FileContents
<1>3. Tables'
  BY <1>1 DEF Tables, EntryTab, CatTab, ram, disk
<1>4. own' \subseteq Seq(Entry)
  BY <1>1, Lengths
<1>5. Others'
  BY <1>1, <1>2, <1>4 DEF Others, hist
<1> QED BY <1>1, <1>3, <1>5 DEF Inv, Mirror

LEMMA ImportItemKeeps == ASSUME Inv, ImportItem PROVE Inv'
<1> DEFINE item == Head(todo)
           c    == CatNamed(item.cat)
           id   == LowestFree(entries)
<1>1. Tables /\ Others /\ Mirror /\ op = "import" /\ todo' = Tail(todo)
      /\ UNCHANGED <<unlocked, cats, disk, op, own, hist>>
  BY DEF Inv, ImportItem, bulk
<1>2. /\ Tail(todo) \in Seq(FileItem) /\ c \in CatIds
      /\ item.title \in AnyTitle /\ item.body \in Bodies
  BY <1>1, ImportHead, CatNamedType
<1> HIDE DEF item, c
<1>3. \/ UNCHANGED <<entries, list>>
      \/ Adds(item, c) /\ list' = Append(list, [id |-> id, title |-> StoredTitle(item.title)])
      \/ (\E i \in DOMAIN entries : Overwrites(item, c, i)) /\ UNCHANGED list
  BY ImportItemPuts DEF item, c
<1>4. EntryTab(entries')
  BY <1>1, <1>2, <1>3, PutsTable DEF Puts
<1>5. list' \in Seq(Listed) /\ Mirror'
  <2>1. list \in Seq(Listed) /\ Len(list) = Len(entries) /\ Len(entries) \in Nat
        /\ \A i \in 1 .. Len(entries) : list[i].id = entries[i].id /\ list[i].title = entries[i].title
    BY <1>1, Lengths DEF Others, Mirror
  <2>2. CASE UNCHANGED <<entries, list>>
    BY <1>1, <2>1, <2>2 DEF Mirror
  <2>3. CASE Adds(item, c) /\ list' = Append(list, [id |-> id, title |-> StoredTitle(item.title)])
    <3> DEFINE r == Record(id, c, item.title, item.body)
               l == [id |-> id, title |-> StoredTitle(item.title)]
    <3>1. id \in Ids
      BY <1>1, <2>3, Lengths, Sizes, LowestFreeIsFree DEF Adds
    <3>2. r \in Entry /\ r.id = id /\ r.title = StoredTitle(item.title)
      BY <1>2, <3>1, Recorded
    <3>3. l \in Listed /\ l.id = id /\ l.title = StoredTitle(item.title)
      BY <1>2, <3>1, Stored DEF Listed
    <3>4. entries' = Append(entries, r) /\ list' = Append(list, l)
      BY <2>3 DEF Adds
    <3> HIDE DEF r, l, id
    <3>5. /\ list' \in Seq(Listed) /\ Len(list') = Len(entries) + 1 /\ Len(entries') = Len(entries) + 1
          /\ list'[Len(entries) + 1] = l /\ entries'[Len(entries) + 1] = r
          /\ \A i \in 1 .. Len(entries) : list'[i] = list[i] /\ entries'[i] = entries[i]
      BY <1>1, <2>1, <3>2, <3>3, <3>4, Lengths
    <3> QED BY <1>1, <2>1, <3>2, <3>3, <3>5 DEF Mirror
  <2>4. ASSUME NEW i \in DOMAIN entries, Overwrites(item, c, i), UNCHANGED list
        PROVE  list' \in Seq(Listed) /\ Mirror'
    <3> DEFINE r == Record(entries[i].id, c, item.title, item.body)
    <3>1. r \in Entry /\ r.id = entries[i].id /\ r.title = entries[i].title
      BY <1>1, <1>2, <2>4, EntryAt, Recorded, Stored DEF Overwrites
    <3>2. entries' = [entries EXCEPT ![i] = r]
      BY <2>4 DEF Overwrites
    <3> HIDE DEF r
    <3>3. Len(entries') = Len(entries)
          /\ \A j \in 1 .. Len(entries) : entries'[j] = IF j = i THEN r ELSE entries[j]
      BY <1>1, <3>1, <3>2, Lengths
    <3> QED BY <2>1, <2>4, <3>1, <3>3 DEF Mirror
  <2> QED BY <1>3, <2>2, <2>3, <2>4
<1>6. Tables'
  BY <1>1, <1>4 DEF Tables, EntryTab, CatTab, disk
<1>7. Others'
  BY <1>1, <1>2, <1>5 DEF Others, hist
<1> QED BY <1>5, <1>6, <1>7 DEF Inv

LEMMA BundleItemKeeps == ASSUME Inv, BundleItem PROVE Inv'
<1> DEFINE item == Head(todo)
<1>1. Tables /\ Others /\ op = "bundle" /\ todo' = Tail(todo)
      /\ UNCHANGED <<unlocked, cats, disk, op, list, own, hist>>
  BY DEF Inv, BundleItem
<1>2. Puts(item, item.cat)
  BY BundleItemPuts DEF Puts
<1>3. EntryTab(entries')
  BY <1>1, <1>2, BundleHead, PutsTable
<1>4. Tables'
  BY <1>1, <1>3 DEF Tables, EntryTab, CatTab, disk
<1>5. Others'
  BY <1>1, BundleHead DEF Others, hist
<1> QED BY <1>1, <1>4, <1>5 DEF Inv, Mirror

LEMMA PowerKeeps == ASSUME Inv, Lock \/ PowerLoss \/ Unlock PROVE Inv'
<1>1. Tables /\ Others /\ op' = "none" /\ UNCHANGED disk
  BY DEF Inv, Lock, PowerLoss, Unlock, Wiped, Idle
<1>2. EntryTab(<<>>) /\ CatTab(<<>>)
  BY EmptyTable, Sizes DEF EntryTab, CatTab
<1>3. /\ (entries' = <<>> /\ cats' = <<>>) \/ (entries' = dEntries /\ cats' = dCats)
      /\ unlocked' \in BOOLEAN
      /\ list' = list \/ list' = <<>>
      /\ own' = own \/ own' = {}
      /\ stale' = {}
  BY DEF Lock, PowerLoss, Unlock, Wiped
<1>4. failed' \in BOOLEAN
  BY <1>1 DEF Lock, PowerLoss, Unlock, Others
<1>5. Tables'
  BY <1>1, <1>2, <1>3 DEF Tables, EntryTab, CatTab, disk
<1>6. list' \in Seq(Listed)
  <2>1. list \in Seq(Listed) /\ <<>> \in Seq(Listed)
    BY <1>1 DEF Others
  <2> QED BY <1>3, <2>1
<1>7. own' \subseteq Seq(Entry)
  BY <1>1, <1>3 DEF Others
<1>8. Others'
  BY <1>1, <1>3, <1>4, <1>6, <1>7 DEF Others
<1> QED BY <1>1, <1>5, <1>8 DEF Inv, Mirror

LEMMA InvInit == Init => Inv
<1> SUFFICES ASSUME Init PROVE Inv
  OBVIOUS
<1>1. EntryTab(<<>>) /\ CatTab(<<>>)
  BY EmptyTable, Sizes DEF EntryTab, CatTab
<1>2. <<>> \in Seq(Listed)
  OBVIOUS
<1> QED BY <1>1, <1>2 DEF Init, Inv, Tables, Others, Mirror

LEMMA InvNext == Inv /\ [Next]_vars => Inv'
<1> SUFFICES ASSUME Inv, [Next]_vars PROVE Inv'
  OBVIOUS
<1>1. ASSUME NEW t \in Titles, NEW b \in Bodies, NEW c \in CatIds, Add(t, b, c) PROVE Inv'
  BY <1>1, AddKeeps
<1>2. ASSUME NEW t \in Titles, NEW b \in Bodies, NEW c \in CatIds, NEW id \in Ids, Update(id, t, b, c)
      PROVE Inv'
  BY <1>2, UpdateKeeps
<1>3. ASSUME NEW id \in Ids, Remove(id) \/ CategoryDelete(id) PROVE Inv'
  BY <1>3, RemoveKeeps, CategoryDeleteKeeps
<1>4. ASSUME NEW n \in Names, CategoryAdd(n) PROVE Inv'
  BY <1>4, CategoryAddKeeps
<1>5. ASSUME NEW f \in Files \cup {Exported}, ImportBegin(f) PROVE Inv'
  BY <1>5, ImportBeginKeeps
<1>6. ASSUME NEW bundle \in Bundles \cup {ExportedBundle}, BundleBegin(bundle) PROVE Inv'
  BY <1>6, BundleBeginKeeps
<1>7. CASE ClearEntries \/ CategoryDeleteEntries \/ ImportEnd \/ BundleEnd
  BY <1>7, SavesKeep
<1>8. CASE ImportItem
  BY <1>8, ImportItemKeeps
<1>9. CASE BundleItem
  BY <1>9, BundleItemKeeps
<1>10. CASE Lock \/ PowerLoss \/ Unlock
  BY <1>10, PowerKeeps
<1>11. CASE UNCHANGED vars
  BY <1>11 DEF vars, ram, disk, hist, Inv, Tables, EntryTab, CatTab, Others, Mirror
<1> QED BY <1>1, <1>2, <1>3, <1>4, <1>5, <1>6, <1>7, <1>8, <1>9, <1>10, <1>11 DEF Next

LEMMA Invariant == Spec => []Inv
  BY InvInit, InvNext, PTL DEF Spec

(***************************************************************************)
(* The tables hold what the records of the program can hold, no more than  *)
(* there is room for, and names and titles cut to their fields: for every  *)
(* size of the tables, and however files, bundles, failures and power      *)
(* losses follow one another.                                              *)
(***************************************************************************)
THEOREM TablesTyped == Spec => []TypeOK
<1>1. Inv => TypeOK
  BY InvMeans
<1> QED BY <1>1, Invariant, PTL

(***************************************************************************)
(* No two entries share an id, and no two categories do, in RAM and on     *)
(* flash, although ids are given again after a deletion.                   *)
(***************************************************************************)
THEOREM IdsAreUnique == Spec => []UniqueIds
<1>1. Inv => UniqueIds
  BY InvMeans
<1> QED BY <1>1, Invariant, PTL

-----------------------------------------------------------------------------
(***************************************************************************)
(* RAM and flash.  The categories of an open vault agree with flash at     *)
(* every step, the entries between operations, unless the last edit of the *)
(* table was reported as failed.  It rests on what add takes back: nothing *)
(* of it may be on flash when its save throws.                             *)
(***************************************************************************)
SaveInv ==
  /\ op # "none" => unlocked
  /\ unlocked /\ op = "none" /\ "entries" \notin stale => entries = dEntries
  /\ unlocked /\ "cats" \notin stale => cats = dCats

\* After an edit the entries are saved or known not to be.
LEMMA EditSaves ==
  ASSUME NEW o, NEW new, EditEntries(o, new)
  PROVE  /\ entries' = new
         /\ "entries" \notin stale' => entries' = dEntries'
         /\ "cats" \in stale' <=> "cats" \in stale
         /\ ~failed' => ~failed /\ dEntries' = new /\ stale' = stale \ {"entries"}
<1>1. PICK threw \in BOOLEAN : Saves(o, dEntries, dEntries', new, threw) /\ Mark("entries", threw)
  BY DEF EditEntries
<1>2. entries' = new
  BY DEF EditEntries
<1>3. CASE threw
  BY <1>1, <1>2, <1>3 DEF Saves, Mark
<1>4. CASE ~threw
  BY <1>1, <1>2, <1>4 DEF Saves, Mark
<1> QED BY <1>3, <1>4

LEMMA SaveNext ==
  ASSUME "add" \notin CommitFaultOps, SaveInv, [Next]_vars
  PROVE  SaveInv'
<1> USE DEF SaveInv
<1>1. ASSUME NEW t \in Titles, NEW b \in Bodies, NEW c \in CatIds, Add(t, b, c) PROVE SaveInv'
  BY <1>1 DEF Add, Saves, Idle
<1>2. ASSUME NEW o, NEW new, EditEntries(o, new), UNCHANGED <<unlocked, cats, dCats>>,
             op' = "none"
      PROVE  SaveInv'
  BY <1>2, EditSaves
<1>3. ASSUME NEW t \in Titles, NEW b \in Bodies, NEW c \in CatIds, NEW id \in Ids, Update(id, t, b, c)
      PROVE SaveInv'
  BY <1>2, <1>3 DEF Update, Idle
<1>4. ASSUME NEW id \in Ids, Remove(id) PROVE SaveInv'
  BY <1>2, <1>4 DEF Remove, Idle
<1>5. ASSUME NEW id \in Ids, CategoryDelete(id) PROVE SaveInv'
  <2>1. PICK threw \in BOOLEAN :
           /\ Saves("catdel", dCats, dCats', cats', threw)
           /\ op' = IF ~threw /\ entries' # entries THEN "catdel" ELSE "none"
           /\ stale' = (stale \ {"cats"}) \cup (IF threw THEN {"cats", "entries"} ELSE {})
    BY <1>5 DEF CategoryDelete
  <2>2. op = "none" /\ unlocked /\ UNCHANGED <<unlocked, dEntries>>
    BY <1>5 DEF CategoryDelete, Idle
  <2>3. CASE threw
    BY <2>1, <2>2, <2>3
  <2>4. CASE ~threw
    BY <2>1, <2>2, <2>4 DEF Saves
  <2> QED BY <2>3, <2>4
<1>6. ASSUME NEW n \in Names, CategoryAdd(n) PROVE SaveInv'
  <2>1. PICK threw \in BOOLEAN : Saves("catadd", dCats, dCats', cats', threw) /\ Mark("cats", threw)
    BY <1>6 DEF CategoryAdd
  <2>2. op = "none" /\ UNCHANGED <<unlocked, entries, dEntries, op>>
    BY <1>6 DEF CategoryAdd, Idle
  <2> QED BY <2>1, <2>2 DEF Saves, Mark
<1>7. CASE ClearEntries \/ CategoryDeleteEntries \/ ImportEnd \/ BundleEnd
  BY <1>2, <1>7 DEF ClearEntries, CategoryDeleteEntries, ImportEnd, BundleEnd, Idle
<1>8. ASSUME NEW f, ImportBegin(f) \/ BundleBegin(f) PROVE SaveInv'
  BY <1>8 DEF ImportBegin, BundleBegin, ram, disk, hist
<1>9. CASE ImportItem \/ BundleItem
  BY <1>9 DEF ImportItem, BundleItem, bulk, disk, hist
<1>10. CASE Lock \/ PowerLoss
  BY <1>10 DEF Lock, PowerLoss, Wiped
<1>11. CASE Unlock
  BY <1>11 DEF Unlock, disk, Idle
<1>12. CASE UNCHANGED vars
  BY <1>12 DEF vars, ram, disk, hist
<1> QED BY <1>1, <1>3, <1>4, <1>5, <1>6, <1>7, <1>8, <1>9, <1>10, <1>11, <1>12 DEF Next

(***************************************************************************)
(* What the client sees is what a reboot brings back, except for a table   *)
(* whose last edit was reported as failed, provided a failed save of add   *)
(* leaves flash as it was.                                                 *)
(***************************************************************************)
THEOREM ShownSurvivesReboot ==
  ASSUME "add" \notin CommitFaultOps
  PROVE  Spec => []SurvivesReboot
<1>1. Init => SaveInv
  BY DEF Init, SaveInv
<1>2. SaveInv /\ [Next]_vars => SaveInv'
  BY SaveNext
<1>3. SaveInv => SurvivesReboot
  BY DEF SaveInv, SurvivesReboot, Idle
<1> QED BY <1>1, <1>2, <1>3, PTL DEF Spec

-----------------------------------------------------------------------------
(***************************************************************************)
(* Entries and their categories, in RAM at every step and on flash outside *)
(* a deletion.  One edit of one table keeps this only because the other    *)
(* table agrees with flash (SaveInv) while nothing has failed.             *)
(***************************************************************************)
Filed(es, cs) == \A i \in DOMAIN es : es[i].cat = 0 \/ es[i].cat \in IdsOf(cs)

FileInv == ~failed => /\ stale = {}
                      /\ Filed(entries, cats)
                      /\ op # "catdel" => Filed(dEntries, dCats)

LEMMA EmptyFiled == ASSUME NEW cs PROVE Filed(<<>>, cs)
  BY DEF Filed

LEMMA KeepCatKept == ASSUME NEW c PROVE KeepCat(c) = 0 \/ KeepCat(c) \in IdsOf(cats)
  BY DEF KeepCat, category_valid

LEMMA AppendFiled ==
  ASSUME Tables, Filed(entries, cats), NEW r \in Entry, r.cat = 0 \/ r.cat \in IdsOf(cats)
  PROVE  Filed(Append(entries, r), cats)
<1> DEFINE n == Len(entries)
<1>1. n \in Nat /\ entries \in Seq(Entry) /\ DOMAIN entries = 1 .. n
  BY Lengths
<1>2. /\ DOMAIN Append(entries, r) = 1 .. n + 1 /\ Append(entries, r)[n + 1] = r
      /\ \A i \in 1 .. n : Append(entries, r)[i] = entries[i]
  BY <1>1
<1>3. \A i \in 1 .. n + 1 : i \in 1 .. n \/ i = n + 1
  BY <1>1
<1> HIDE DEF n
<1> QED BY <1>1, <1>2, <1>3 DEF Filed

LEMMA ExceptFiled ==
  ASSUME Tables, Filed(entries, cats), NEW i \in DOMAIN entries,
         NEW r, r.cat = 0 \/ r.cat \in IdsOf(cats)
  PROVE  Filed([entries EXCEPT ![i] = r], cats)
  BY DEF Filed

LEMMA SwapOutFiled ==
  ASSUME Tables, Filed(entries, cats), NEW i \in DOMAIN entries
  PROVE  Filed(SwapOut(entries, i), cats)
<1> DEFINE n == Len(entries)
           t == SwapOut(entries, i)
<1>1. n \in Nat /\ DOMAIN entries = 1 .. n /\ entries \in Seq(Entry)
  BY Lengths
<1>2. t \in Seq(Entry) /\ Len(t) = n - 1
  BY <1>1, SwapOutAt
<1>3. \A j \in 1 .. n - 1 : t[j] = IF j = i THEN entries[n] ELSE entries[j]
  BY <1>1, SwapOutAt
<1> HIDE DEF t
<1>4. \A j \in 1 .. n - 1 : \E k \in 1 .. n : t[j] = entries[k]
  BY <1>1, <1>3
<1>5. Filed(t, cats)
  BY <1>1, <1>2, <1>4 DEF Filed
<1> QED BY <1>5 DEF t

LEMMA PutsFiled ==
  ASSUME Tables, Filed(entries, cats), NEW c \in CatIds, NEW item, item.title \in AnyTitle,
         item.body \in Bodies, Puts(item, c)
  PROVE  Filed(entries', cats)
<1>1. CASE UNCHANGED entries
  BY <1>1
<1>2. CASE Adds(item, c)
  <2> DEFINE r == Record(LowestFree(entries), c, item.title, item.body)
  <2>1. LowestFree(entries) \in Ids
    BY <1>2, Lengths, Sizes, LowestFreeIsFree DEF Adds
  <2>2. r \in Entry /\ r.cat = KeepCat(c)
    BY <2>1, Recorded
  <2>3. entries' = Append(entries, r)
    BY <1>2 DEF Adds
  <2> HIDE DEF r
  <2> QED BY <2>2, <2>3, KeepCatKept, AppendFiled
<1>3. ASSUME NEW i \in DOMAIN entries, Overwrites(item, c, i) PROVE Filed(entries', cats)
  <2> DEFINE r == Record(entries[i].id, c, item.title, item.body)
  <2>1. r \in Entry /\ r.cat = KeepCat(c)
    BY EntryAt, Recorded
  <2>2. entries' = [entries EXCEPT ![i] = r]
    BY <1>3 DEF Overwrites
  <2> HIDE DEF r
  <2> QED BY <2>1, <2>2, KeepCatKept, ExceptFiled
<1> QED BY <1>1, <1>2, <1>3 DEF Puts

\* A category that is added takes no entry's category away; ...
LEMMA AddedFiled ==
  ASSUME Tables, NEW es, Filed(es, cats), NEW r \in Cat
  PROVE  Filed(es, Append(cats, r))
<1> DEFINE n == Len(cats)
<1>1. n \in Nat /\ cats \in Seq(Cat) /\ DOMAIN cats = 1 .. n
  BY Lengths
<1>2. /\ DOMAIN Append(cats, r) = 1 .. n + 1
      /\ \A i \in 1 .. n : Append(cats, r)[i] = cats[i]
  BY <1>1
<1>3. \A i \in 1 .. n : i \in 1 .. n + 1
  BY <1>1
<1> HIDE DEF n
<1>4. IdsOf(cats) \subseteq IdsOf(Append(cats, r))
  BY <1>1, <1>2, <1>3 DEF IdsOf
<1> QED BY <1>4 DEF Filed

\* ... one that is deleted takes only that of the entries which are moved.
LEMMA MovedFiled ==
  ASSUME Tables, Filed(entries, cats), NEW i \in DOMAIN cats
  PROVE  Filed(Moved(cats[i].id), SwapOut(cats, i))
<1> DEFINE n == Len(cats)
           t == SwapOut(cats, i)
           m == Moved(cats[i].id)
<1>1. n \in Nat /\ n >= 1 /\ DOMAIN cats = 1 .. n /\ i \in 1 .. n /\ cats \in Seq(Cat)
  BY Lengths
<1>2. t \in Seq(Cat) /\ Len(t) = n - 1
  BY <1>1, SwapOutAt
<1>3. \A j \in 1 .. n - 1 : t[j] = IF j = i THEN cats[n] ELSE cats[j]
  BY <1>1, SwapOutAt
<1> HIDE DEF t
<1>4. ASSUME NEW j \in DOMAIN cats, cats[j].id # cats[i].id PROVE cats[j].id \in IdsOf(t)
  <2>1. DOMAIN t = 1 .. n - 1
    BY <1>1, <1>2
  <2>2. CASE j = n
    <3>1. i \in 1 .. n - 1 /\ t[i] = cats[j]
      BY <1>1, <1>3, <1>4, <2>2
    <3> QED BY <2>1, <3>1 DEF IdsOf
  <2>3. CASE j # n
    <3>1. j \in 1 .. n - 1 /\ t[j] = cats[j]
      BY <1>1, <1>3, <1>4, <2>3
    <3> QED BY <2>1, <3>1 DEF IdsOf
  <2> QED BY <2>2, <2>3
<1>5. DOMAIN m = DOMAIN entries
  BY DEF Moved
<1>6. ASSUME NEW k \in DOMAIN entries PROVE m[k].cat = 0 \/ m[k].cat \in IdsOf(t)
  <2>1. CASE entries[k].cat = cats[i].id
    <3>1. m[k] = [entries[k] EXCEPT !.cat = 0]
      BY <2>1 DEF Moved
    <3>2. entries[k] \in Entry
      BY EntryAt
    <3> HIDE DEF m
    <3> QED BY <3>1, <3>2 DEF Entry
  <2>2. CASE entries[k].cat # cats[i].id
    <3>1. m[k] = entries[k]
      BY <2>2 DEF Moved
    <3> HIDE DEF m
    <3>2. entries[k].cat = 0 \/ \E j \in DOMAIN cats : cats[j].id = entries[k].cat
      BY DEF Filed, IdsOf
    <3> QED BY <1>4, <2>2, <3>1, <3>2
  <2> QED BY <2>1, <2>2
<1>7. Filed(m, t)
  <2> HIDE DEF m
  <2> QED BY <1>5, <1>6 DEF Filed
<1> QED BY <1>7 DEF t

LEMMA FileNext ==
  ASSUME "add" \notin CommitFaultOps, Inv, SaveInv, FileInv, [Next]_vars
  PROVE  FileInv'
<1>1. Tables /\ Others
  BY DEF Inv
<1>2. ASSUME NEW o, NEW new, EditEntries(o, new), UNCHANGED <<unlocked, cats, dCats>>, op' = "none",
             unlocked, ~failed => Filed(new, cats)
      PROVE  FileInv'
  <2>1. ASSUME ~failed' PROVE stale' = {} /\ entries' = new /\ dEntries' = new /\ ~failed
    BY <1>2, <2>1, EditSaves DEF FileInv
  <2>2. ~failed => cats = dCats
    BY <1>2 DEF FileInv, SaveInv
  <2> QED BY <1>2, <2>1, <2>2 DEF FileInv
<1>3. ASSUME NEW t \in Titles, NEW b \in Bodies, NEW c \in CatIds, Add(t, b, c) PROVE FileInv'
  <2> DEFINE r == Record(LowestFree(entries), c, t, b)
             new == Append(entries, r)
  <2>1. unlocked /\ op = "none" /\ UNCHANGED <<unlocked, cats, dCats, op, failed>>
    BY <1>3 DEF Add, Idle
  <2>2. r \in Entry /\ r.cat = KeepCat(c)
    <3>1. LowestFree(entries) \in Ids /\ t \in AnyTitle
      BY <1>1, <1>3, Lengths, Sizes, LowestFreeIsFree DEF Add, AnyTitle
    <3> QED BY <3>1, Recorded
  <2> HIDE DEF r
  <2>3. ~failed => Filed(new, cats)
    BY <1>1, <2>2, KeepCatKept, AppendFiled DEF FileInv
  <2> HIDE DEF new
  <2>4. PICK threw \in BOOLEAN :
           /\ Saves("add", dEntries, dEntries', new, threw)
           /\ entries' = IF threw THEN entries ELSE new
           /\ stale' = IF threw THEN stale ELSE stale \ {"entries"}
    BY <1>3 DEF Add, new, r
  <2>5. ~failed => cats = dCats
    BY <2>1 DEF FileInv, SaveInv
  <2>6. CASE threw
    BY <2>1, <2>4, <2>6 DEF FileInv, Saves
  <2>7. CASE ~threw
    BY <2>1, <2>3, <2>4, <2>5, <2>7 DEF FileInv, Saves
  <2> QED BY <2>6, <2>7
<1>4. ASSUME NEW t \in Titles, NEW b \in Bodies, NEW c \in CatIds, NEW id \in Ids, Update(id, t, b, c)
      PROVE FileInv'
  <2> DEFINE r == Record(id, c, t, b)
             new == [entries EXCEPT ![find(id)] = r]
  <2>1. find(id) \in DOMAIN entries
    BY <1>1, <1>4, FindsSomething DEF Update
  <2>2. r.cat = KeepCat(c)
    BY Recorded, <1>4 DEF AnyTitle
  <2> HIDE DEF r
  <2>3. ~failed => Filed(new, cats)
    BY <1>1, <2>1, <2>2, KeepCatKept, ExceptFiled DEF FileInv
  <2>4. EditEntries("update", new) /\ UNCHANGED <<unlocked, cats, dCats>> /\ op' = "none" /\ unlocked
    BY <1>4 DEF Update, Idle, r
  <2> HIDE DEF new
  <2> QED BY <1>2, <2>3, <2>4
<1>5. ASSUME NEW id \in Ids, Remove(id) PROVE FileInv'
  <2> DEFINE new == SwapOut(entries, find(id))
  <2>1. find(id) \in DOMAIN entries
    BY <1>1, <1>5, FindsSomething DEF Remove
  <2>2. ~failed => Filed(new, cats)
    BY <1>1, <2>1, SwapOutFiled DEF FileInv
  <2>3. EditEntries("remove", new) /\ UNCHANGED <<unlocked, cats, dCats>> /\ op' = "none" /\ unlocked
    BY <1>5 DEF Remove, Idle
  <2> HIDE DEF new
  <2> QED BY <1>2, <2>2, <2>3
<1>6. ASSUME NEW id \in Ids, CategoryDelete(id) PROVE FileInv'
  <2>1. Filed(entries, cats) => Filed(entries', cats')
    BY <1>1, <1>6, Deletes, MovedFiled
  <2>2. PICK threw \in BOOLEAN :
           /\ Saves("catdel", dCats, dCats', cats', threw)
           /\ op' = IF ~threw /\ entries' # entries THEN "catdel" ELSE "none"
           /\ stale' = (stale \ {"cats"}) \cup (IF threw THEN {"cats", "entries"} ELSE {})
           /\ failed' = (failed \/ threw)
    BY <1>6 DEF CategoryDelete
  <2>3. op = "none" /\ unlocked /\ UNCHANGED <<unlocked, dEntries>>
    BY <1>6 DEF CategoryDelete, Idle
  <2>4. SUFFICES ASSUME ~failed' PROVE /\ stale' = {} /\ Filed(entries', cats')
                                       /\ op' # "catdel" => Filed(dEntries', dCats')
    BY DEF FileInv
  <2>5. ~failed /\ ~threw
    BY <1>1, <2>2, <2>4 DEF Others
  <2>6. stale' = {} /\ dCats' = cats' /\ entries = dEntries
    BY <2>2, <2>3, <2>5 DEF FileInv, SaveInv, Saves
  <2> QED BY <2>1, <2>2, <2>3, <2>5, <2>6 DEF FileInv
<1>7. ASSUME NEW n \in Names, CategoryAdd(n) PROVE FileInv'
  <2> DEFINE r == [id |-> LowestFree(cats), name |-> StoredName(n)]
  <2>1. unlocked /\ op = "none" /\ UNCHANGED <<unlocked, entries, dEntries, op>>
    BY <1>7 DEF CategoryAdd, Idle
  <2>2. r \in Cat
    BY <1>1, <1>7, Lengths, Sizes, LowestFreeIsFree, Stored DEF CategoryAdd, Cat
  <2>3. cats' = Append(cats, r)
    BY <1>7 DEF CategoryAdd
  <2> HIDE DEF r
  <2>4. Filed(entries, cats) => Filed(entries, cats')
    BY <1>1, <2>2, <2>3, AddedFiled
  <2>5. PICK threw \in BOOLEAN : Saves("catadd", dCats, dCats', cats', threw) /\ Mark("cats", threw)
    BY <1>7 DEF CategoryAdd
  <2>6. ASSUME ~failed' PROVE ~failed /\ stale' = {} /\ dCats' = cats' /\ entries = dEntries
    BY <2>1, <2>5, <2>6 DEF Mark, Saves, FileInv, SaveInv
  <2> QED BY <2>1, <2>4, <2>6 DEF FileInv
<1>8. CASE ClearEntries \/ CategoryDeleteEntries \/ ImportEnd \/ BundleEnd
  <2>1. \/ EditEntries("clear", <<>>)
        \/ \E o \in {"catdel", "import", "bundle"} : EditEntries(o, entries)
    BY <1>8 DEF ClearEntries, CategoryDeleteEntries, ImportEnd, BundleEnd
  <2>2. UNCHANGED <<unlocked, cats, dCats>> /\ op' = "none" /\ unlocked
    BY <1>8 DEF ClearEntries, CategoryDeleteEntries, ImportEnd, BundleEnd, Idle, bulk, SaveInv
  <2> QED BY <1>2, <2>1, <2>2, EmptyFiled DEF FileInv
<1>9. ASSUME NEW f, ImportBegin(f) \/ BundleBegin(f) PROVE FileInv'
  BY <1>9 DEF ImportBegin, BundleBegin, ram, disk, hist, FileInv, Idle
<1>10. CASE ImportItem \/ BundleItem
  <2>1. UNCHANGED <<cats, disk, op, hist>>
    BY <1>10 DEF ImportItem, BundleItem
  <2>2. Filed(entries, cats) => Filed(entries', cats)
    <3>1. CASE ImportItem
      BY <1>1, <3>1, ImportItemPuts, ImportHead, CatNamedType, PutsFiled DEF Puts
    <3>2. CASE BundleItem
      BY <1>1, <3>2, BundleItemPuts, BundleHead, PutsFiled DEF Puts
    <3> QED BY <1>10, <3>1, <3>2
  <2> QED BY <2>1, <2>2 DEF FileInv, disk, hist
<1>11. CASE Lock \/ PowerLoss
  BY <1>11, EmptyFiled DEF Lock, PowerLoss, Wiped, disk, Idle, FileInv
<1>12. CASE Unlock
  BY <1>12 DEF Unlock, disk, Idle, FileInv
<1>13. CASE UNCHANGED vars
  BY <1>13 DEF vars, ram, disk, hist, FileInv
<1> QED BY <1>3, <1>4, <1>5, <1>6, <1>7, <1>8, <1>9, <1>10, <1>11, <1>12, <1>13 DEF Next

(***************************************************************************)
(* As long as no edit but an add has failed, and no deletion was cut       *)
(* short, every entry is Uncategorized or in a category that exists.       *)
(***************************************************************************)
THEOREM CategoriesDoExist ==
  ASSUME "add" \notin CommitFaultOps
  PROVE  Spec => []CategoriesExistIfSaved
<1>1. Init => SaveInv /\ FileInv
  BY EmptyFiled DEF Init, SaveInv, FileInv
<1>2. Inv /\ SaveInv /\ FileInv /\ [Next]_vars => SaveInv' /\ FileInv'
  BY SaveNext, FileNext
<1>3. FileInv => CategoriesExistIfSaved
  BY DEF FileInv, Filed, CategoriesExistIfSaved, CategoriesExist, category_valid
<1> QED BY <1>1, <1>2, <1>3, Invariant, PTL DEF Spec

-----------------------------------------------------------------------------
(***************************************************************************)
(* An export taken back.  While it is, every item still to do is a copy of *)
(* an entry, so the import overwrites that entry with what it is.          *)
(***************************************************************************)
CategoryOf(item) == IF op = "import" THEN CatNamed(item.cat) ELSE item.cat

Copies(item, i) == /\ item.title = entries[i].title /\ item.body = entries[i].body
                   /\ CategoryOf(item) = entries[i].cat

BackInv ==
  /\ own # {} => Merging
  /\ \A before \in own : Unambiguous(before) =>
       /\ entries = before
       /\ \A k \in DOMAIN todo : \E i \in DOMAIN entries : Copies(todo[k], i)

\* The name of a category leads back to it, if no other has the name.
LEMMA NamedBack ==
  ASSUME Tables, NEW c, category_valid(c),
         \A i, j \in DOMAIN cats : cats[i].name = cats[j].name => i = j
  PROVE  CatNamed(CatName(c)) = c
<1>1. CASE c \in IdsOf(cats)
  <2>1. PICK i \in DOMAIN cats : cats[i].id = c
    BY <1>1 DEF IdsOf
  <2>2. CatName(c) = cats[i].name
    BY <2>1, CatNameAtId
  <2>3. cats[i].name # EMPTY
    BY CatAt DEF Name
  <2>4. {j \in DOMAIN cats : cats[j].name = cats[i].name} = {i}
    OBVIOUS
  <2>5. First({i}) = i /\ i # 0
    <3>1. {i} \subseteq 1 .. Len(cats) /\ Len(cats) \in Nat
      BY Lengths
    <3> QED BY <3>1, FirstFound
  <2> QED BY <2>1, <2>2, <2>3, <2>4, <2>5 DEF CatNamed
<1>2. CASE c \notin IdsOf(cats)
  <2>1. c = 0 /\ CatName(c) = EMPTY
    BY <1>2 DEF category_valid, CatName
  <2> QED BY <2>1 DEF CatNamed
<1> QED BY <1>1, <1>2

\* A copy of an entry leaves the entries as they are.
LEMMA CopyChangesNothing ==
  ASSUME Tables, Unambiguous(entries), NEW item, NEW c, Puts(item, c),
         NEW k \in DOMAIN entries, item.title = entries[k].title, item.body = entries[k].body,
         c = entries[k].cat
  PROVE  entries' = entries
<1>1. CASE UNCHANGED entries
  BY <1>1
<1>2. CASE Adds(item, c)
  BY <1>2 DEF Adds
<1>3. ASSUME NEW i \in DOMAIN entries, Overwrites(item, c, i) PROVE entries' = entries
  <2>1. i = k
    BY <1>3 DEF Overwrites, Unambiguous
  <2>2. StoredTitle(item.title) = item.title
    BY EntryAt, Stored
  <2>3. KeepCat(c) = c
    BY DEF Unambiguous, KeepCat
  <2>4. Record(entries[i].id, c, item.title, item.body) = entries[i]
    <3>1. entries[k] \in Entry
      BY EntryAt
    <3> QED BY <2>1, <2>2, <2>3, <3>1 DEF Record, Entry
  <2>5. entries \in Seq(Entry)
    BY Lengths
  <2> QED BY <1>3, <2>4, <2>5 DEF Overwrites
<1> QED BY <1>1, <1>2, <1>3 DEF Puts

LEMMA BackNext ==
  ASSUME Inv, BackInv, [Next]_vars
  PROVE  BackInv'
<1>1. Tables
  BY DEF Inv
<1>2. ASSUME own' = {} PROVE BackInv'
  BY <1>2 DEF BackInv
<1>3. ASSUME NEW f, ImportBegin(f) PROVE BackInv'
  <2>1. CASE f # Exported
    BY <1>2, <1>3, <2>1 DEF ImportBegin
  <2>2. CASE f = Exported
    <3>1. /\ op' = "import" /\ todo' = Exported /\ own' = {entries}
          /\ UNCHANGED <<entries, cats>>
      BY <1>3, <2>2 DEF ImportBegin, ram
    <3>2. ASSUME Unambiguous(entries), NEW k \in DOMAIN entries
          PROVE  /\ Exported[k].title = entries[k].title /\ Exported[k].body = entries[k].body
                 /\ CatNamed(Exported[k].cat) = entries[k].cat
      <4>1. Exported[k] = [title |-> entries[k].title, body |-> entries[k].body,
                           cat |-> CatName(entries[k].cat)]
        BY DEF Exported
      <4>2. CatNamed(CatName(entries[k].cat)) = entries[k].cat
        BY <1>1, <3>2, NamedBack DEF Unambiguous
      <4> QED BY <4>1, <4>2
    <3>3. DOMAIN Exported = DOMAIN entries
      BY DEF Exported
    <3>4. Unambiguous(entries)' <=> Unambiguous(entries)
      BY <3>1 DEF Unambiguous, category_valid
    <3>5. \A name : CatNamed(name)' = CatNamed(name)
      BY <3>1 DEF CatNamed
    <3> QED BY <3>1, <3>2, <3>3, <3>4, <3>5 DEF BackInv, Merging, Copies, CategoryOf
  <2> QED BY <2>1, <2>2
<1>4. ASSUME NEW f, BundleBegin(f) PROVE BackInv'
  <2>1. CASE f # ExportedBundle
    BY <1>2, <1>4, <2>1 DEF BundleBegin
  <2>2. CASE f = ExportedBundle
    <3>1. /\ op' = "bundle" /\ todo' = ExportedBundle /\ own' = {entries}
          /\ UNCHANGED <<entries, cats>>
      BY <1>4, <2>2 DEF BundleBegin, ram
    <3>2. ASSUME NEW k \in DOMAIN entries
          PROVE  /\ ExportedBundle[k].title = entries[k].title
                 /\ ExportedBundle[k].body = entries[k].body
                 /\ ExportedBundle[k].cat = entries[k].cat
      BY DEF ExportedBundle
    <3>3. DOMAIN ExportedBundle = DOMAIN entries
      BY DEF ExportedBundle
    <3> QED BY <3>1, <3>2, <3>3 DEF BackInv, Merging, Copies, CategoryOf
  <2> QED BY <2>1, <2>2
<1>5. CASE ImportItem \/ BundleItem
  <2>1. /\ todo # <<>> /\ todo' = Tail(todo) /\ UNCHANGED <<cats, op, own>>
        /\ \E T : todo \in Seq(T)
    BY <1>5 DEF ImportItem, BundleItem, bulk, Inv, Others
  <2>2. Puts(Head(todo), CategoryOf(Head(todo)))
    <3>1. CASE ImportItem
      BY <3>1, ImportItemPuts DEF Puts, CategoryOf, ImportItem, bulk
    <3>2. CASE BundleItem
      BY <3>2, BundleItemPuts DEF Puts, CategoryOf, BundleItem
    <3> QED BY <1>5, <3>1, <3>2
  <2>3. /\ Head(todo) = todo[1] /\ 1 \in DOMAIN todo
        /\ \A k \in DOMAIN Tail(todo) : k + 1 \in DOMAIN todo /\ Tail(todo)[k] = todo[k + 1]
    BY <2>1
  <2>4. ASSUME NEW before \in own, Unambiguous(before) PROVE entries' = entries /\ entries = before
    <3>1. entries = before /\ \E i \in DOMAIN entries : Copies(Head(todo), i)
      BY <2>3, <2>4 DEF BackInv
    <3> QED BY <1>1, <2>2, <2>4, <3>1, CopyChangesNothing DEF Copies
  <2>5. \A before : Unambiguous(before)' <=> Unambiguous(before)
    BY <2>1 DEF Unambiguous, category_valid
  <2>6. ASSUME NEW before \in own, Unambiguous(before), NEW k \in DOMAIN todo'
        PROVE  \E i \in DOMAIN entries' : Copies(todo[k], i)'
    <3>1. PICK i \in DOMAIN entries : Copies(todo[k + 1], i)
      BY <2>1, <2>3, <2>6 DEF BackInv
    <3>2. \A item : CategoryOf(item)' = CategoryOf(item)
      BY <2>1 DEF CategoryOf, CatNamed
    <3> QED BY <2>1, <2>3, <2>4, <2>6, <3>1, <3>2 DEF Copies
  <2> QED BY <2>1, <2>4, <2>5, <2>6 DEF BackInv, Merging
<1>6. CASE ImportEnd \/ BundleEnd \/ Lock \/ PowerLoss
  BY <1>2, <1>6 DEF ImportEnd, BundleEnd, Lock, PowerLoss, Wiped
<1>7. ASSUME ~ Merging, own' = own PROVE BackInv'
  BY <1>2, <1>7 DEF BackInv
<1>8. ASSUME NEW t \in Titles, NEW b \in Bodies, NEW c \in CatIds,
             Add(t, b, c) \/ \E id \in Ids : Update(id, t, b, c)
      PROVE  BackInv'
  BY <1>7, <1>8 DEF Add, Update, Idle, Merging
<1>9. ASSUME NEW id \in Ids, Remove(id) \/ CategoryDelete(id) PROVE BackInv'
  BY <1>7, <1>9 DEF Remove, CategoryDelete, Idle, Merging
<1>10. ASSUME NEW n \in Names, CategoryAdd(n) PROVE BackInv'
  BY <1>7, <1>10 DEF CategoryAdd, Idle, Merging
<1>11. CASE ClearEntries \/ CategoryDeleteEntries \/ Unlock
  BY <1>7, <1>11 DEF ClearEntries, CategoryDeleteEntries, Unlock, Idle, Merging
<1>12. CASE UNCHANGED vars
  BY <1>12 DEF vars, ram, BackInv, Merging, Copies, CategoryOf, CatNamed, Unambiguous, category_valid
<1> QED BY <1>3, <1>4, <1>5, <1>6, <1>8, <1>9, <1>10, <1>11, <1>12 DEF Next

(***************************************************************************)
(* The device takes back the file, or the bundle, it has just written, and *)
(* its entries are what they were: at every size of the tables, a full one *)
(* included, and whatever ids deletions have left.                         *)
(***************************************************************************)
THEOREM ExportsComeBack == Spec => []ReimportChangesNothing
<1>1. Init => BackInv
  BY DEF Init, BackInv
<1>2. Inv /\ BackInv /\ [Next]_vars => BackInv'
  BY BackNext
<1>3. BackInv => ReimportChangesNothing
  BY DEF BackInv, ReimportChangesNothing
<1> QED BY <1>1, <1>2, <1>3, Invariant, PTL DEF Spec

-----------------------------------------------------------------------------
(***************************************************************************)
(* The same said of what a client can see to: names that fit their field,  *)
(* edits that succeed and titles used once are an unambiguous table.       *)
(***************************************************************************)
NamesDistinct(s) == \A i, j \in DOMAIN s : s[i].name = s[j].name => i = j

NameInv == NamesDistinct(cats) /\ NamesDistinct(dCats)

LEMMA AppendNames ==
  ASSUME Tables, NamesDistinct(cats), NEW r \in Cat, \A i \in DOMAIN cats : cats[i].name # r.name
  PROVE  NamesDistinct(Append(cats, r))
<1> DEFINE n == Len(cats)
<1>1. n \in Nat /\ cats \in Seq(Cat) /\ DOMAIN cats = 1 .. n
  BY Lengths
<1>2. /\ DOMAIN Append(cats, r) = 1 .. n + 1 /\ Append(cats, r)[n + 1] = r
      /\ \A i \in 1 .. n : Append(cats, r)[i] = cats[i]
  BY <1>1
<1>3. \A i \in 1 .. n + 1 : i \in 1 .. n \/ i = n + 1
  BY <1>1
<1> HIDE DEF n
<1> QED BY <1>1, <1>2, <1>3 DEF NamesDistinct

LEMMA SwapOutNames ==
  ASSUME Tables, NamesDistinct(cats), NEW i \in DOMAIN cats
  PROVE  NamesDistinct(SwapOut(cats, i))
<1> DEFINE n == Len(cats)
           t == SwapOut(cats, i)
           at(j) == IF j = i THEN n ELSE j
<1>1. n \in Nat /\ DOMAIN cats = 1 .. n /\ i \in 1 .. n /\ cats \in Seq(Cat)
  BY Lengths
<1>2. t \in Seq(Cat) /\ Len(t) = n - 1
  BY <1>1, SwapOutAt
<1>3. \A j \in 1 .. n - 1 : t[j] = IF j = i THEN cats[n] ELSE cats[j]
  BY <1>1, SwapOutAt
<1> HIDE DEF t
<1>4. \A j \in 1 .. n - 1 : at(j) \in 1 .. n /\ t[j] = cats[at(j)]
  BY <1>1, <1>3
<1>5. \A j, k \in 1 .. n - 1 : at(j) = at(k) => j = k
  BY <1>1
<1> HIDE DEF at
<1>6. NamesDistinct(t)
  BY <1>1, <1>2, <1>4, <1>5 DEF NamesDistinct
<1> QED BY <1>6 DEF t

LEMMA NameNext ==
  ASSUME LongNames = {}, Inv, NameInv, [Next]_vars
  PROVE  NameInv'
<1>1. Tables /\ NamesDistinct(<<>>)
  BY DEF Inv, NamesDistinct
<1>2. ASSUME NEW n \in Names, CategoryAdd(n) PROVE NameInv'
  <2> DEFINE r == [id |-> LowestFree(cats), name |-> StoredName(n)]
  <2>1. r \in Cat /\ r.name = n
    BY <1>1, <1>2, Lengths, Sizes, LowestFreeIsFree, Stored DEF CategoryAdd, Cat, StoredName
  <2>2. cats' = Append(cats, r) /\ \A i \in DOMAIN cats : cats[i].name # n
    BY <1>2 DEF CategoryAdd
  <2> HIDE DEF r
  <2>3. NamesDistinct(cats')
    BY <1>1, <2>1, <2>2, AppendNames DEF NameInv
  <2>4. dCats' = dCats \/ dCats' = cats'
    BY <1>2 DEF CategoryAdd, Saves
  <2> QED BY <2>3, <2>4 DEF NameInv
<1>3. ASSUME NEW id \in Ids, CategoryDelete(id) PROVE NameInv'
  <2>1. NamesDistinct(cats')
    BY <1>1, <1>3, Deletes, SwapOutNames DEF NameInv
  <2>2. dCats' = dCats \/ dCats' = cats'
    BY <1>3 DEF CategoryDelete, Saves
  <2> QED BY <2>1, <2>2 DEF NameInv
<1>4. CASE Lock \/ PowerLoss \/ Unlock
  BY <1>1, <1>4 DEF Lock, PowerLoss, Unlock, Wiped, disk, NameInv
<1>5. ASSUME UNCHANGED <<cats, dCats>> PROVE NameInv'
  BY <1>5 DEF NameInv
<1>6. ASSUME NEW t \in Titles, NEW b \in Bodies, NEW c \in CatIds,
             Add(t, b, c) \/ \E id \in Ids : Update(id, t, b, c)
      PROVE  NameInv'
  BY <1>5, <1>6 DEF Add, Update
<1>7. ASSUME NEW id \in Ids, Remove(id) PROVE NameInv'
  BY <1>5, <1>7 DEF Remove
<1>8. ASSUME NEW f, ImportBegin(f) \/ BundleBegin(f) PROVE NameInv'
  BY <1>5, <1>8 DEF ImportBegin, BundleBegin, ram, disk
<1>9. CASE ClearEntries \/ CategoryDeleteEntries \/ ImportEnd \/ BundleEnd
  BY <1>5, <1>9 DEF ClearEntries, CategoryDeleteEntries, ImportEnd, BundleEnd
<1>10. CASE ImportItem \/ BundleItem
  BY <1>5, <1>10 DEF ImportItem, BundleItem, disk
<1>11. CASE UNCHANGED vars
  BY <1>5, <1>11 DEF vars, ram, disk
<1> QED BY <1>2, <1>3, <1>4, <1>6, <1>7, <1>8, <1>9, <1>10, <1>11 DEF Next

\* While a file or a bundle is merged, only its own steps and a power loss happen.
LEMMA MergingSteps ==
  ASSUME Merging, Next
  PROVE  ImportItem \/ ImportEnd \/ BundleItem \/ BundleEnd \/ PowerLoss
<1>1. op # "none" /\ op # "catdel"
  BY DEF Merging
<1> QED BY <1>1 DEF Next, Add, Update, Remove, CategoryDelete, CategoryAdd, ImportBegin, BundleBegin,
                    ClearEntries, CategoryDeleteEntries, Lock, Unlock, Idle

OwnFiled == \A before \in own : ~failed => Filed(before, cats)

LEMMA OwnFiledNext ==
  ASSUME Inv, BackInv, FileInv, OwnFiled, [Next]_vars
  PROVE  OwnFiled'
<1>1. ASSUME own' = {} PROVE OwnFiled'
  BY <1>1 DEF OwnFiled
<1>2. ASSUME own' = own, UNCHANGED <<cats, failed>> PROVE OwnFiled'
  BY <1>2 DEF OwnFiled
<1>3. ASSUME Next, Merging PROVE OwnFiled'
  <2>1. CASE ImportItem \/ BundleItem
    BY <1>2, <2>1 DEF ImportItem, BundleItem, hist
  <2>2. CASE ImportEnd \/ BundleEnd \/ PowerLoss
    BY <1>1, <2>2 DEF ImportEnd, BundleEnd, PowerLoss, Wiped
  <2> QED BY <1>3, <2>1, <2>2, MergingSteps
<1>4. ASSUME Next, ~ Merging PROVE OwnFiled'
  <2>1. own = {}
    BY <1>4 DEF BackInv
  <2>2. CASE own' = own
    BY <1>1, <2>1, <2>2
  <2>3. CASE \E f : ImportBegin(f) \/ BundleBegin(f)
    BY <2>3 DEF ImportBegin, BundleBegin, ram, hist, OwnFiled, FileInv
  <2>4. CASE ImportItem \/ BundleItem \/ ImportEnd \/ BundleEnd
    BY <1>4, <2>4 DEF ImportItem, BundleItem, ImportEnd, BundleEnd, bulk, Merging
  <2>5. CASE Lock \/ PowerLoss
    BY <1>1, <2>5 DEF Lock, PowerLoss, Wiped
  <2> QED BY <1>4, <2>2, <2>3, <2>4, <2>5
          DEF Next, Add, Update, Remove, CategoryDelete, CategoryAdd, ClearEntries,
              CategoryDeleteEntries, Unlock
<1>5. CASE UNCHANGED vars
  BY <1>2, <1>5 DEF vars, ram, hist
<1> QED BY <1>3, <1>4, <1>5

TitlesDistinct(s) == \A i, j \in DOMAIN s : s[i].title = s[j].title => i = j

(***************************************************************************)
(* While no edit but an add has failed and names fit their field, an       *)
(* export comes back unchanged if no two of its entries share a title: its *)
(* categories need no look.                                                *)
(***************************************************************************)
THEOREM SavedExportsComeBack ==
  ASSUME LongNames = {}, "add" \notin CommitFaultOps
  PROVE  Spec => [](\A before \in own :
                      todo = <<>> /\ ~failed /\ TitlesDistinct(before) => entries = before)
<1>1. Init => SaveInv /\ FileInv /\ BackInv /\ NameInv /\ OwnFiled
  BY EmptyFiled DEF Init, SaveInv, FileInv, BackInv, NameInv, NamesDistinct, OwnFiled
<1>2. Inv /\ SaveInv /\ FileInv /\ BackInv /\ NameInv /\ OwnFiled /\ [Next]_vars
        => SaveInv' /\ FileInv' /\ BackInv' /\ NameInv' /\ OwnFiled'
  BY SaveNext, FileNext, BackNext, NameNext, OwnFiledNext
<1>3. BackInv /\ NameInv /\ OwnFiled =>
        \A before \in own : todo = <<>> /\ ~failed /\ TitlesDistinct(before) => entries = before
  BY DEF BackInv, NameInv, NamesDistinct, OwnFiled, Filed, TitlesDistinct, Unambiguous, category_valid
<1> QED BY <1>1, <1>2, <1>3, Invariant, PTL DEF Spec

-----------------------------------------------------------------------------
(***************************************************************************)
(* What a step of an import may do, to flash and to the titles.            *)
(***************************************************************************)
(***************************************************************************)
(* An import is all or nothing on flash, whether it runs to its end, its   *)
(* one save fails or power is lost in it.                                  *)
(***************************************************************************)
THEOREM ImportsAreAllOrNothing == Spec => ImportAllOrNothing
<1>1. ASSUME [Next]_vars
      PROVE  [Merging /\ disk' # disk => todo = <<>> /\ dEntries' = entries /\ UNCHANGED dCats]_vars
  <2> SUFFICES ASSUME Next, Merging, disk' # disk
               PROVE  todo = <<>> /\ dEntries' = entries /\ UNCHANGED dCats
    BY <1>1
  <2>1. CASE ImportItem \/ BundleItem \/ PowerLoss
    BY <2>1 DEF ImportItem, BundleItem, PowerLoss, Wiped
  <2>2. CASE ImportEnd \/ BundleEnd
    <3>1. todo = <<>> /\ UNCHANGED dCats /\ \E o \in {"import", "bundle"} : EditEntries(o, entries)
      BY <2>2 DEF ImportEnd, BundleEnd
    <3>2. dEntries' = dEntries \/ dEntries' = entries
      BY <3>1 DEF EditEntries, Saves
    <3> QED BY <3>1, <3>2 DEF disk
  <2> QED BY <2>1, <2>2, MergingSteps
<1> QED BY <1>1, PTL DEF Spec, ImportAllOrNothing

\* Only a title that is cut can come to stand twice.
LEMMA PutsCollapses ==
  ASSUME Tables, NEW c \in CatIds, NEW item, item.title \in AnyTitle, item.body \in Bodies,
         Puts(item, c), NEW t \in Duplicated', t \notin Duplicated
  PROVE  item.title \in LongTitles /\ t = StoredTitle(item.title)
<1>1. PICK i, j \in DOMAIN entries' : i # j /\ entries'[i].title = t /\ entries'[j].title = t
  BY DEF Duplicated
<1>2. t \in Title
  BY DEF Duplicated
<1>3. ~ \E k, l \in DOMAIN entries : k # l /\ entries[k].title = t /\ entries[l].title = t
  BY <1>2 DEF Duplicated
<1>4. Len(entries) \in Nat /\ entries \in Seq(Entry) /\ DOMAIN entries = 1 .. Len(entries)
  BY Lengths
<1>5. CASE UNCHANGED entries
  BY <1>1, <1>3, <1>5
<1>6. CASE Adds(item, c)
  <2> DEFINE r == Record(LowestFree(entries), c, item.title, item.body)
             n == Len(entries)
  <2>1. r \in Entry /\ r.title = StoredTitle(item.title)
    <3>1. LowestFree(entries) \in Ids
      BY <1>4, <1>6, Sizes, LowestFreeIsFree DEF Adds
    <3> QED BY <3>1, Recorded
  <2>2. entries' = Append(entries, r)
    BY <1>6 DEF Adds
  <2> HIDE DEF r
  <2>3. /\ DOMAIN entries' = 1 .. n + 1 /\ entries'[n + 1] = r
        /\ \A k \in 1 .. n : entries'[k] = entries[k]
    BY <1>4, <2>1, <2>2
  <2>4. PICK k \in 1 .. n : entries[k].title = t /\ r.title = t
    <3>1. \A k \in 1 .. n + 1 : k \in 1 .. n \/ k = n + 1
      BY <1>4
    <3> QED BY <1>1, <1>3, <1>4, <2>3, <3>1
  <2>5. item.title # t
    BY <1>4, <1>6, <2>4 DEF Adds
  <2> QED BY <2>1, <2>4, <2>5 DEF StoredTitle
<1>7. ASSUME NEW k \in DOMAIN entries, Overwrites(item, c, k)
      PROVE  item.title \in LongTitles /\ t = StoredTitle(item.title)
  <2> DEFINE r == Record(entries[k].id, c, item.title, item.body)
  <2>1. r.title = entries[k].title
    BY <1>7, EntryAt, Recorded, Stored DEF Overwrites
  <2>2. entries' = [entries EXCEPT ![k] = r]
    BY <1>7 DEF Overwrites
  <2> HIDE DEF r
  <2>3. DOMAIN entries' = DOMAIN entries /\ \A l \in DOMAIN entries : entries'[l].title = entries[l].title
    BY <1>4, <2>1, <2>2
  <2> QED BY <1>1, <1>3, <2>3
<1> QED BY <1>5, <1>6, <1>7 DEF Puts

LEMMA MergingCollapses ==
  ASSUME Inv, Merging, Next, NEW t \in Duplicated', t \notin Duplicated
  PROVE  op = "import" /\ t \in {StoredTitle(l) : l \in LongTitles}
<1>1. Tables
  BY DEF Inv
<1>2. CASE ImportItem
  <2>1. Puts(Head(todo), CatNamed(Head(todo).cat))
    BY <1>2, ImportItemPuts DEF Puts
  <2>2. CatNamed(Head(todo).cat) \in CatIds /\ Head(todo).title \in AnyTitle /\ Head(todo).body \in Bodies
    BY <1>1, <1>2, ImportHead, CatNamedType
  <2>3. Head(todo).title \in LongTitles /\ t = StoredTitle(Head(todo).title)
    BY <1>1, <2>1, <2>2, PutsCollapses
  <2> QED BY <1>2, <2>3 DEF ImportItem, bulk
<1>3. CASE BundleItem
  <2>1. Puts(Head(todo), Head(todo).cat)
    BY <1>3, BundleItemPuts DEF Puts
  <2>2. Head(todo).title \in LongTitles
    BY <1>1, <1>3, <2>1, BundleHead, PutsCollapses
  <2> QED BY <1>3, <2>2, BundleHead DEF Title
<1>4. CASE ImportEnd \/ BundleEnd
  BY <1>4 DEF ImportEnd, BundleEnd, EditEntries, Duplicated
<1>5. CASE PowerLoss
  <2>1. entries' = <<>>
    BY <1>5 DEF PowerLoss, Wiped
  <2> QED BY <2>1 DEF Duplicated
<1> QED BY <1>2, <1>3, <1>4, <1>5, MergingSteps

(***************************************************************************)
(* A title that was unique before an item is unique after it, except for   *)
(* what a file's titles longer than their field are cut to; a bundle adds  *)
(* no duplicate at all.                                                    *)
(***************************************************************************)
THEOREM OnlyCutTitlesCollide ==
  Spec => [][Merging => Duplicated' \subseteq Duplicated \cup
               (IF op = "import" THEN {StoredTitle(l) : l \in LongTitles} ELSE {})]_vars
<1>1. ASSUME Inv, [Next]_vars
      PROVE  [Merging => Duplicated' \subseteq Duplicated \cup
                (IF op = "import" THEN {StoredTitle(l) : l \in LongTitles} ELSE {})]_vars
  <2> SUFFICES ASSUME Next, Merging, NEW t \in Duplicated', t \notin Duplicated
               PROVE  t \in IF op = "import" THEN {StoredTitle(l) : l \in LongTitles} ELSE {}
    BY <1>1
  <2> QED BY <1>1, MergingCollapses
<1> QED BY <1>1, Invariant, PTL DEF Spec

(***************************************************************************)
(* If every title a client sends fits its field, an import collapses the   *)
(* duplicates of its file.                                                 *)
(***************************************************************************)
THEOREM ImportsCollapse ==
  ASSUME LongTitles = {}
  PROVE  Spec => ImportCollapses
<1>1. ASSUME Inv, [Next]_vars PROVE [Merging => Duplicated' \subseteq Duplicated]_vars
  BY <1>1, MergingCollapses
<1> QED BY <1>1, Invariant, PTL DEF Spec, ImportCollapses

-----------------------------------------------------------------------------
(***************************************************************************)
(* The tables seen by id.  Appending and overwriting put a record, moving  *)
(* the last one into the gap removes one.                                  *)
(***************************************************************************)
LEMMA ByIdAt ==
  ASSUME NEW s, Distinct(s), NEW i \in DOMAIN s
  PROVE  ById(s)[s[i].id] = s[i]
<1>1. s[i].id \in IdsOf(s)
  BY DEF IdsOf
<1>2. (CHOOSE j \in DOMAIN s : s[j].id = s[i].id) = i
  BY DEF Distinct
<1> QED BY <1>1, <1>2 DEF ById

LEMMA ByIdIs ==
  ASSUME NEW s, Distinct(s), NEW f, f = [k \in IdsOf(s) |-> f[k]],
         \A i \in DOMAIN s : f[s[i].id] = s[i]
  PROVE  ById(s) = f
<1>1. ASSUME NEW k \in IdsOf(s) PROVE ById(s)[k] = f[k]
  <2>1. PICK i \in DOMAIN s : s[i].id = k
    BY DEF IdsOf
  <2> QED BY <2>1, ByIdAt
<1>2. ById(s) = [k \in IdsOf(s) |-> ById(s)[k]]
  BY DEF ById
<1> QED BY <1>1, <1>2

LEMMA ByIdEmpty == ById(<<>>) = C!Empty
<1>1. IdsOf(<<>>) = {}
  BY DEF IdsOf
<1> QED BY <1>1 DEF ById, C!Empty

LEMMA ByIdAppend ==
  ASSUME NEW T, NEW s \in Seq(T), NEW r \in T, Distinct(s), Distinct(Append(s, r)), r.id \notin IdsOf(s)
  PROVE  /\ IdsOf(Append(s, r)) = IdsOf(s) \cup {r.id}
         /\ ById(Append(s, r)) = C!With(ById(s), r.id, r)
<1> DEFINE n == Len(s)
           a == Append(s, r)
           f == C!With(ById(s), r.id, r)
<1>1. n \in Nat /\ DOMAIN s = 1 .. n
  OBVIOUS
<1>2. DOMAIN a = 1 .. n + 1 /\ a[n + 1] = r /\ \A i \in 1 .. n : a[i] = s[i]
  BY <1>1
<1>3. \A i \in 1 .. n + 1 : i \in 1 .. n \/ i = n + 1
  BY <1>1
<1>4. \A i \in 1 .. n : i \in 1 .. n + 1
  BY <1>1
<1>5. n + 1 \in 1 .. n + 1
  BY <1>1
<1> HIDE DEF n, a
<1>6. IdsOf(a) = IdsOf(s) \cup {r.id}
  BY <1>1, <1>2, <1>3, <1>4, <1>5 DEF IdsOf
<1>7. DOMAIN ById(s) = IdsOf(s)
  BY DEF ById
<1>8. f = [k \in IdsOf(a) |-> f[k]]
  BY <1>6, <1>7 DEF C!With
<1>9. ASSUME NEW i \in DOMAIN a PROVE f[a[i].id] = a[i]
  <2>1. CASE i = n + 1
    BY <1>2, <1>6, <1>7, <2>1 DEF C!With
  <2>2. CASE i \in 1 .. n
    <3>1. s[i].id \in IdsOf(s) /\ s[i].id # r.id
      BY <1>1, <2>2 DEF IdsOf
    <3>2. ById(s)[s[i].id] = s[i]
      BY <1>1, <2>2, ByIdAt
    <3> QED BY <1>2, <1>7, <2>2, <3>1, <3>2 DEF C!With
  <2> QED BY <1>2, <1>3, <2>1, <2>2
<1>10. Distinct(a)
  BY DEF a
<1> HIDE DEF f
<1>11. ById(a) = f
  BY <1>8, <1>9, <1>10, ByIdIs
<1> QED BY <1>6, <1>11 DEF a, f

LEMMA ByIdExcept ==
  ASSUME NEW s, Distinct(s), NEW i \in DOMAIN s, NEW r, r.id = s[i].id
  PROVE  /\ IdsOf([s EXCEPT ![i] = r]) = IdsOf(s)
         /\ ById([s EXCEPT ![i] = r]) = C!With(ById(s), r.id, r)
<1> DEFINE e == [s EXCEPT ![i] = r]
           f == C!With(ById(s), r.id, r)
<1>1. DOMAIN e = DOMAIN s /\ \A j \in DOMAIN s : e[j].id = s[j].id /\ e[j] = IF j = i THEN r ELSE s[j]
  OBVIOUS
<1> HIDE DEF e
<1>2. IdsOf(e) = IdsOf(s) /\ Distinct(e) /\ r.id \in IdsOf(s)
  BY <1>1 DEF IdsOf, Distinct
<1>3. DOMAIN ById(s) = IdsOf(s)
  BY DEF ById
<1>4. f = [k \in IdsOf(e) |-> f[k]]
  BY <1>2, <1>3 DEF C!With
<1>5. ASSUME NEW j \in DOMAIN e PROVE f[e[j].id] = e[j]
  <2>1. CASE j = i
    BY <1>1, <1>2, <1>3, <2>1 DEF C!With
  <2>2. CASE j # i
    <3>1. s[j].id \in IdsOf(s) /\ s[j].id # r.id
      BY <1>1, <2>2 DEF IdsOf, Distinct
    <3>2. ById(s)[s[j].id] = s[j]
      BY <1>1, ByIdAt
    <3> QED BY <1>1, <1>3, <2>2, <3>1, <3>2 DEF C!With
  <2> QED BY <2>1, <2>2
<1> HIDE DEF f
<1>6. ById(e) = f
  BY <1>2, <1>4, <1>5, ByIdIs
<1> QED BY <1>2, <1>6 DEF e, f

LEMMA ByIdSwapOut ==
  ASSUME NEW T, NEW max \in Nat, NEW s, Table(T, max, s), NEW i \in DOMAIN s
  PROVE  ById(SwapOut(s, i)) = C!Without(ById(s), s[i].id)
<1> DEFINE n == Len(s)
           t == SwapOut(s, i)
           f == C!Without(ById(s), s[i].id)
           at(j) == IF j = i THEN n ELSE j
<1>1. s \in Seq(T) /\ n \in Nat /\ n >= 1 /\ i \in 1 .. n /\ DOMAIN s = 1 .. n /\ Distinct(s)
  BY DEF Table
<1>2. t \in Seq(T) /\ Len(t) = n - 1
  BY <1>1, SwapOutAt
<1>3. \A j \in 1 .. n - 1 : t[j] = IF j = i THEN s[n] ELSE s[j]
  BY <1>1, SwapOutAt
<1>4. Distinct(t)
  BY SwapOutTable DEF Table
<1> HIDE DEF t
<1>5. \A j \in 1 .. n - 1 : at(j) \in 1 .. n /\ at(j) # i /\ t[j] = s[at(j)]
  BY <1>1, <1>3
<1>6. \A k \in 1 .. n : k # i => \E j \in 1 .. n - 1 : at(j) = k
  <2> SUFFICES ASSUME NEW k \in 1 .. n, k # i PROVE \E j \in 1 .. n - 1 : at(j) = k
    OBVIOUS
  <2>1. CASE k = n
    <3>1. i \in 1 .. n - 1 /\ at(i) = k
      BY <1>1, <2>1
    <3> QED BY <3>1
  <2>2. CASE k # n
    <3>1. k \in 1 .. n - 1
      <4>1. n \in Nat
        BY <1>1
      <4> HIDE DEF n
      <4> QED BY <2>2, <4>1
    <3>2. at(k) = k
      OBVIOUS
    <3> QED BY <3>1, <3>2
  <2> QED BY <2>1, <2>2
<1>7. DOMAIN t = 1 .. n - 1
  BY <1>1, <1>2
<1> HIDE DEF n, at
<1>8. IdsOf(t) = IdsOf(s) \ {s[i].id}
  <2>1. ASSUME NEW id \in IdsOf(t) PROVE id \in IdsOf(s) \ {s[i].id}
    <3>1. PICK j \in 1 .. n - 1 : t[j].id = id
      BY <1>7 DEF IdsOf
    <3> QED BY <1>1, <1>5, <3>1 DEF IdsOf, Distinct
  <2>2. ASSUME NEW id \in IdsOf(s), id # s[i].id PROVE id \in IdsOf(t)
    <3>1. PICK k \in 1 .. n : s[k].id = id
      BY <1>1 DEF IdsOf
    <3>2. PICK j \in 1 .. n - 1 : at(j) = k
      BY <1>6, <2>2, <3>1
    <3> QED BY <1>5, <1>7, <3>1, <3>2 DEF IdsOf
  <2> QED BY <2>1, <2>2
<1>9. f = [k \in IdsOf(t) |-> f[k]]
  BY <1>8 DEF C!Without, ById
<1>10. ASSUME NEW j \in DOMAIN t PROVE f[t[j].id] = t[j]
  <2>1. t[j].id \in IdsOf(t)
    BY DEF IdsOf
  <2>2. ById(s)[t[j].id] = t[j]
    BY <1>1, <1>5, <1>7, ByIdAt
  <2> QED BY <1>8, <2>1, <2>2 DEF C!Without, ById
<1> HIDE DEF f
<1>11. ById(t) = f
  BY <1>4, <1>9, <1>10, ByIdIs
<1> QED BY <1>11 DEF t, f

LEMMA ByIdMoved ==
  ASSUME Tables, NEW id
  PROVE  ById(Moved(id)) =
           [k \in DOMAIN ById(entries) |->
              IF ById(entries)[k].cat = id THEN [ById(entries)[k] EXCEPT !.cat = 0] ELSE ById(entries)[k]]
<1> DEFINE m == Moved(id)
           f == [k \in DOMAIN ById(entries) |->
              IF ById(entries)[k].cat = id THEN [ById(entries)[k] EXCEPT !.cat = 0] ELSE ById(entries)[k]]
<1>1. DOMAIN m = DOMAIN entries
  BY DEF Moved
<1>2. \A i \in DOMAIN entries :
        m[i] = IF entries[i].cat = id THEN [entries[i] EXCEPT !.cat = 0] ELSE entries[i]
  BY DEF Moved
<1> HIDE DEF m
<1>3. \A i \in DOMAIN entries : m[i].id = entries[i].id
  BY <1>2, EntryAt DEF Entry
<1>4. Distinct(entries) /\ Distinct(m)
  BY <1>1, <1>3 DEF Tables, EntryTab, Table, Distinct
<1>5. IdsOf(m) = IdsOf(entries) /\ DOMAIN ById(entries) = IdsOf(entries)
  BY <1>1, <1>3 DEF IdsOf, ById
<1>6. f = [k \in IdsOf(m) |-> f[k]]
  BY <1>5
<1>7. ASSUME NEW i \in DOMAIN m PROVE f[m[i].id] = m[i]
  <2>1. entries[i].id \in IdsOf(entries) /\ ById(entries)[entries[i].id] = entries[i]
    BY <1>1, <1>4, ByIdAt DEF IdsOf
  <2> QED BY <1>1, <1>2, <1>3, <1>5, <2>1
<1> HIDE DEF f
<1>8. ById(m) = f
  BY <1>4, <1>6, <1>7, ByIdIs
<1> QED BY <1>8 DEF m, f

(***************************************************************************)
(* Every step of the tables is a step of the catalogue, or none.           *)
(***************************************************************************)
Busy == op # "none" => unlocked

LEMMA BusyNext == ASSUME Busy, [Next]_vars PROVE Busy'
<1>1. CASE UNCHANGED vars
  BY <1>1 DEF Busy, vars
<1>2. CASE op' = "none"
  BY <1>2 DEF Busy
<1>3. ASSUME unlocked, unlocked' = unlocked PROVE Busy'
  BY <1>3 DEF Busy
<1> QED
  BY <1>1, <1>2, <1>3 DEF Next, Add, Update, Remove, CategoryDelete, CategoryAdd, ImportBegin,
     BundleBegin, ClearEntries, CategoryDeleteEntries, ImportItem, ImportEnd, BundleItem, BundleEnd,
     Lock, PowerLoss, Unlock, Wiped, Idle, bulk, Busy

\* A record put into entries, at the end or over the one with its id.
LEMMA AppendPuts ==
  ASSUME Tables, Len(entries) < MAX_ENTRIES, NEW r \in Entry, r.id = LowestFree(entries),
         r.cat = 0 \/ r.cat \in IdsOf(cats)
  PROVE  C!Puts(r.id, ById(Append(entries, r))) /\ r.id \notin IdsOf(entries) /\ r.id \in Ids
<1> DEFINE a == Append(entries, r)
<1>1. entries \in Seq(Entry) /\ Len(entries) < ID_MAX /\ Distinct(entries)
  BY Lengths, Sizes DEF Tables, EntryTab, Table
<1>2. r.id \notin IdsOf(entries) /\ r.id \in Ids
  BY <1>1, LowestFreeIsFree
<1>3. Distinct(a)
  BY Sizes, AppendTable DEF Tables, EntryTab, Table
<1>4. IdsOf(a) = IdsOf(entries) \cup {r.id} /\ ById(a) = C!With(ById(entries), r.id, r)
  BY <1>1, <1>2, <1>3, ByIdAppend
<1>5. DOMAIN ById(a) = IdsOf(a) /\ DOMAIN ById(cats) = IdsOf(cats)
  BY DEF ById
<1> HIDE DEF a
<1>6. ById(a)[r.id] = r
  BY <1>4, <1>5 DEF C!With
<1>7. C!Puts(r.id, ById(a))
  BY <1>4, <1>5, <1>6 DEF C!Puts
<1> QED BY <1>2, <1>7 DEF a

LEMMA ExceptPuts ==
  ASSUME Tables, NEW i \in DOMAIN entries, NEW r \in Entry, r.id = entries[i].id,
         r.cat = 0 \/ r.cat \in IdsOf(cats)
  PROVE  C!Puts(r.id, ById([entries EXCEPT ![i] = r])) /\ r.id \in Ids
<1> DEFINE e == [entries EXCEPT ![i] = r]
<1>1. Distinct(entries)
  BY DEF Tables, EntryTab, Table
<1>2. IdsOf(e) = IdsOf(entries) /\ ById(e) = C!With(ById(entries), r.id, r)
  BY <1>1, ByIdExcept
<1>3. DOMAIN ById(e) = IdsOf(e) /\ DOMAIN ById(cats) = IdsOf(cats)
  BY DEF ById
<1>4. r.id \in IdsOf(e) /\ r.id \in Ids
  BY <1>2, EntryAt DEF IdsOf
<1> HIDE DEF e
<1>5. ById(e)[r.id] = r
  BY <1>2, <1>3, <1>4 DEF C!With
<1>6. C!Puts(r.id, ById(e))
  BY <1>2, <1>3, <1>4, <1>5 DEF C!Puts
<1> QED BY <1>4, <1>6 DEF e

LEMMA PutsItem ==
  ASSUME Tables, NEW c \in CatIds, NEW item, item.title \in AnyTitle, item.body \in Bodies,
         Puts(item, c)
  PROVE  entries' = entries \/ \E id \in Ids : C!Puts(id, ById(entries'))
<1>1. CASE UNCHANGED entries
  BY <1>1
<1>2. CASE Adds(item, c)
  <2> DEFINE r == Record(LowestFree(entries), c, item.title, item.body)
  <2>1. LowestFree(entries) \in Ids
    BY <1>2, Lengths, Sizes, LowestFreeIsFree DEF Adds
  <2>2. r \in Entry /\ r.id = LowestFree(entries) /\ r.cat = KeepCat(c)
    BY <2>1, Recorded
  <2>3. entries' = Append(entries, r) /\ Len(entries) < MAX_ENTRIES
    BY <1>2 DEF Adds
  <2> HIDE DEF r
  <2> QED BY <2>2, <2>3, KeepCatKept, AppendPuts
<1>3. ASSUME NEW i \in DOMAIN entries, Overwrites(item, c, i)
      PROVE  \E id \in Ids : C!Puts(id, ById(entries'))
  <2> DEFINE r == Record(entries[i].id, c, item.title, item.body)
  <2>1. r \in Entry /\ r.id = entries[i].id /\ r.cat = KeepCat(c)
    BY EntryAt, Recorded
  <2>2. entries' = [entries EXCEPT ![i] = r]
    BY <1>3 DEF Overwrites
  <2> HIDE DEF r
  <2> QED BY <2>1, <2>2, KeepCatKept, ExceptPuts
<1> QED BY <1>1, <1>2, <1>3 DEF Puts

\* What the store holds after an edit, by id.
LEMMA EntriesById ==
  ASSUME NEW o, NEW new, EditEntries(o, new)
  PROVE  entries' = new /\ ById(dEntries') \in {ById(dEntries), ById(new)}
<1>1. entries' = new /\ (dEntries' = dEntries \/ dEntries' = new)
  BY DEF EditEntries, Saves
<1> QED BY <1>1

LEMMA CatsById ==
  ASSUME NEW o, NEW threw, Saves(o, dCats, dCats', cats', threw)
  PROVE  ById(dCats') \in {ById(dCats), ById(cats')}
<1>1. dCats' = dCats \/ dCats' = cats'
  BY DEF Saves
<1> QED BY <1>1

\* ById of a table in the next state.
LEMMA ByIdNext ==
  /\ ById(entries)' = ById(entries') /\ ById(cats)' = ById(cats')
  /\ ById(dEntries)' = ById(dEntries') /\ ById(dCats)' = ById(dCats')
  BY DEF ById, IdsOf

LEMMA CatalogueNext ==
  ASSUME Inv, Busy, Next
  PROVE  C!Next \/ UNCHANGED C!vars
<1>1. Tables
  BY DEF Inv
<1> USE ByIdNext
<1>2. ASSUME NEW t \in Titles, NEW b \in Bodies, NEW c \in CatIds, Add(t, b, c)
      PROVE  C!Next \/ UNCHANGED C!vars
  <2> DEFINE r   == Record(LowestFree(entries), c, t, b)
             new == Append(entries, r)
  <2>1. unlocked /\ Len(entries) < MAX_ENTRIES /\ t \in AnyTitle /\ UNCHANGED <<unlocked, cats, dCats>>
    BY <1>2 DEF Add, AnyTitle
  <2>2. r \in Entry /\ r.id = LowestFree(entries) /\ r.cat = KeepCat(c)
    BY <1>1, <2>1, Lengths, Sizes, LowestFreeIsFree, Recorded
  <2> HIDE DEF r
  <2>3. C!Puts(r.id, ById(new)) /\ r.id \notin IdsOf(entries) /\ r.id \in Ids
    BY <1>1, <2>1, <2>2, KeepCatKept, AppendPuts
  <2> HIDE DEF new
  <2>4. \/ entries' = new /\ (dEntries' = dEntries \/ dEntries' = new)
        \/ entries' = entries /\ (dEntries' = dEntries \/ dEntries' = new)
    BY <1>2 DEF Add, Saves, new, r
  <2>5. DOMAIN ById(entries) = IdsOf(entries)
    BY DEF ById
  <2>6. CASE entries' = new /\ (dEntries' = dEntries \/ dEntries' = new)
    BY <2>1, <2>3, <2>6 DEF C!Next, C!PutEntry
  <2>7. CASE entries' = entries /\ dEntries' = new
    BY <2>1, <2>3, <2>5, <2>7 DEF C!Next, C!FailedAdd
  <2>8. CASE entries' = entries /\ dEntries' = dEntries
    BY <2>1, <2>8 DEF C!vars
  <2> QED BY <2>4, <2>6, <2>7, <2>8
<1>3. ASSUME NEW t \in Titles, NEW b \in Bodies, NEW c \in CatIds, NEW id \in Ids, Update(id, t, b, c)
      PROVE  C!Next
  <2> DEFINE r   == Record(id, c, t, b)
             new == [entries EXCEPT ![find(id)] = r]
  <2>1. find(id) \in DOMAIN entries /\ entries[find(id)].id = id
    BY <1>1, <1>3, FindsSomething DEF Update
  <2>2. r \in Entry /\ r.id = id /\ r.cat = KeepCat(c)
    <3>1. t \in AnyTitle
      BY DEF AnyTitle
    <3> QED BY <3>1, Recorded
  <2>3. EditEntries("update", new) /\ unlocked /\ UNCHANGED <<unlocked, cats, dCats>>
    BY <1>3 DEF Update
  <2> HIDE DEF r
  <2>4. C!Puts(id, ById(new))
    BY <1>1, <2>1, <2>2, KeepCatKept, ExceptPuts
  <2> HIDE DEF new
  <2> QED BY <2>3, <2>4, EntriesById DEF C!Next, C!PutEntry
<1>4. ASSUME NEW id \in Ids, Remove(id) PROVE C!Next
  <2> DEFINE new == SwapOut(entries, find(id))
  <2>1. find(id) \in DOMAIN entries /\ entries[find(id)].id = id
    BY <1>1, <1>4, FindsSomething DEF Remove
  <2>2. ById(new) = C!Without(ById(entries), id)
    BY <1>1, <2>1, Sizes, ByIdSwapOut DEF Tables, EntryTab
  <2>3. EditEntries("remove", new) /\ unlocked /\ UNCHANGED <<unlocked, cats, dCats>>
    BY <1>4 DEF Remove
  <2>4. id \in DOMAIN ById(entries)
    BY <2>1 DEF ById, IdsOf
  <2> HIDE DEF new
  <2> QED BY <2>2, <2>3, <2>4, EntriesById DEF C!Next, C!RemoveEntry
<1>5. ASSUME NEW id \in Ids, CategoryDelete(id) PROVE C!Next
  <2>1. PICK i \in DOMAIN cats : cats[i].id = id /\ cats' = SwapOut(cats, i)
    BY <1>5, Deletes
  <2>2. ById(cats') = C!Without(ById(cats), id)
    BY <1>1, <2>1, Sizes, ByIdSwapOut DEF Tables, CatTab
  <2>3. ById(entries') = [k \in DOMAIN ById(entries) |->
              IF ById(entries)[k].cat = id THEN [ById(entries)[k] EXCEPT !.cat = 0] ELSE ById(entries)[k]]
    BY <1>1, <1>5, Deletes, ByIdMoved
  <2>4. id \in DOMAIN ById(cats)
    BY <2>1 DEF ById, IdsOf
  <2>5. unlocked /\ UNCHANGED <<unlocked, dEntries>> /\ \E threw : Saves("catdel", dCats, dCats', cats', threw)
    BY <1>5 DEF CategoryDelete
  <2> QED BY <2>2, <2>3, <2>4, <2>5, CatsById DEF C!Next, C!DeleteCategory
<1>6. ASSUME NEW n \in Names, CategoryAdd(n) PROVE C!Next
  <2> DEFINE r == [id |-> LowestFree(cats), name |-> StoredName(n)]
  <2>1. /\ cats \in Seq(Cat) /\ Len(cats) < MAX_CATEGORIES /\ Len(cats) < ID_MAX
    BY <1>1, <1>6, Lengths, Sizes DEF CategoryAdd
  <2>2. r \in Cat /\ r.id = LowestFree(cats) /\ r.id \in Ids /\ r.id \notin IdsOf(cats)
    BY <1>6, <2>1, LowestFreeIsFree, Stored DEF CategoryAdd, Cat
  <2>3. cats' = Append(cats, r)
    BY <1>6 DEF CategoryAdd
  <2> HIDE DEF r
  <2>4. Distinct(cats) /\ Distinct(cats')
    BY <1>1, <2>1, <2>2, <2>3, Sizes, AppendTable DEF Tables, CatTab, Table
  <2>5. IdsOf(cats') = IdsOf(cats) \cup {r.id} /\ ById(cats') = C!With(ById(cats), r.id, r)
    BY <2>1, <2>2, <2>3, <2>4, ByIdAppend
  <2>6. DOMAIN ById(cats') = IdsOf(cats') /\ DOMAIN ById(cats) = IdsOf(cats)
    BY DEF ById
  <2>7. ById(cats')[r.id] = r
    BY <2>5, <2>6 DEF C!With
  <2>8. unlocked /\ UNCHANGED <<unlocked, entries, dEntries>> /\ \E threw : Saves("catadd", dCats, dCats', cats', threw)
    BY <1>6 DEF CategoryAdd
  <2>9. C!AddCategory(r.id)
    BY <2>2, <2>5, <2>6, <2>7, <2>8, CatsById DEF C!AddCategory
  <2> QED BY <2>2, <2>9 DEF C!Next
<1>7. CASE ClearEntries
  BY <1>7, EntriesById, ByIdEmpty DEF ClearEntries, C!Next, C!ClearEntries
<1>8. CASE CategoryDeleteEntries \/ ImportEnd \/ BundleEnd
  <2>1. \E o : EditEntries(o, entries)
    BY <1>8 DEF CategoryDeleteEntries, ImportEnd, BundleEnd
  <2>2. unlocked /\ UNCHANGED <<unlocked, cats, dCats>>
    BY <1>8 DEF CategoryDeleteEntries, ImportEnd, BundleEnd, bulk, Busy
  <2>3. entries' = entries /\ ById(dEntries') \in {ById(dEntries), ById(entries)}
    BY <2>1, EntriesById
  <2> QED BY <2>2, <2>3 DEF C!Next, C!SaveEntries, C!vars
<1>9. CASE ImportItem \/ BundleItem
  <2>1. entries' = entries \/ \E id \in Ids : C!Puts(id, ById(entries'))
    <3>1. CASE ImportItem
      BY <1>1, <3>1, ImportItemPuts, ImportHead, CatNamedType, PutsItem DEF Puts
    <3>2. CASE BundleItem
      BY <1>1, <3>2, BundleItemPuts, BundleHead, PutsItem DEF Puts
    <3> QED BY <1>9, <3>1, <3>2
  <2>2. unlocked /\ UNCHANGED <<unlocked, cats, dEntries, dCats>>
    BY <1>9 DEF ImportItem, BundleItem, bulk, Busy, disk
  <2> QED BY <2>1, <2>2 DEF C!Next, C!PutEntry, C!vars
<1>10. ASSUME NEW f, ImportBegin(f) \/ BundleBegin(f) PROVE UNCHANGED C!vars
  BY <1>10 DEF ImportBegin, BundleBegin, ram, disk, C!vars
<1>11. CASE Lock \/ PowerLoss
  BY <1>11, ByIdEmpty DEF Lock, PowerLoss, Wiped, disk, C!Next, C!Close
<1>12. CASE Unlock
  BY <1>12 DEF Unlock, disk, C!Next, C!Open
<1> QED BY <1>2, <1>3, <1>4, <1>5, <1>6, <1>7, <1>8, <1>9, <1>10, <1>11, <1>12 DEF Next

(***************************************************************************)
(* Whatever fails and wherever power goes, the two tables are what the     *)
(* catalogue says: an operation touches the record it names, and no record *)
(* is filed under a category that is not there.                            *)
(***************************************************************************)
THEOREM TablesImplementCatalogue == Spec => ImplementsCatalogue
<1>1. Init => C!Init /\ Busy
  BY ByIdEmpty DEF Init, C!Init, Busy
<1>2. Busy /\ [Next]_vars => Busy'
  BY BusyNext
<1>3. ASSUME Inv, Busy, [Next]_vars PROVE [C!Next]_(C!vars)
  <2>1. CASE Next
    BY <1>3, <2>1, CatalogueNext
  <2>2. CASE UNCHANGED vars
    BY <2>2 DEF vars, ram, disk, C!vars
  <2> QED BY <1>3, <2>1, <2>2
<1> QED BY <1>1, <1>2, <1>3, Invariant, PTL DEF Spec, ImplementsCatalogue, C!Spec
=============================================================================
