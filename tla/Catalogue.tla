------------------------------ MODULE Catalogue ------------------------------
(***************************************************************************)
(* What the tables of an open vault promise whoever calls them by id: an   *)
(* operation touches the record it names and no other, wherever the record *)
(* lies; nothing is filed under a category that is not there; a table is   *)
(* saved whole or not at all, and read back as it was saved.               *)
(***************************************************************************)
CONSTANTS Ids, Entry, Cat

VARIABLES
  unlocked,
  entries, cats,       \* the records in RAM, by id
  dEntries, dCats      \* those on flash

vars == <<unlocked, entries, cats, dEntries, dCats>>

Empty == [id \in {} |-> id]

With(t, id, r) == [k \in DOMAIN t \cup {id} |-> IF k = id THEN r ELSE t[k]]
Without(t, id) == [k \in DOMAIN t \ {id} |-> t[k]]

\* In new, one entry differs from those in entries or comes in addition.
Puts(id, new) == /\ id \in DOMAIN new
                 /\ new[id] \in Entry /\ new[id].id = id
                 /\ new[id].cat = 0 \/ new[id].cat \in DOMAIN cats
                 /\ new = With(entries, id, new[id])

Init == /\ unlocked = TRUE
        /\ entries = Empty /\ cats = Empty /\ dEntries = Empty /\ dCats = Empty

PutEntry(id) == /\ unlocked /\ Puts(id, entries')
                /\ dEntries' \in {dEntries, entries'}
                /\ UNCHANGED <<unlocked, cats, dCats>>

\* The entry is reported as not added, and may come back with the next Open.
FailedAdd(id) == /\ unlocked /\ id \notin DOMAIN entries
                 /\ Puts(id, dEntries')
                 /\ UNCHANGED <<unlocked, entries, cats, dCats>>

RemoveEntry(id) == /\ unlocked /\ id \in DOMAIN entries
                   /\ entries' = Without(entries, id)
                   /\ dEntries' \in {dEntries, entries'}
                   /\ UNCHANGED <<unlocked, cats, dCats>>

ClearEntries == /\ unlocked /\ entries' = Empty
                /\ dEntries' \in {dEntries, entries'}
                /\ UNCHANGED <<unlocked, cats, dCats>>

SaveEntries == /\ unlocked /\ dEntries' = entries
               /\ UNCHANGED <<unlocked, entries, cats, dCats>>

AddCategory(id) == /\ unlocked /\ id \notin DOMAIN cats
                   /\ id \in DOMAIN cats' /\ cats'[id] \in Cat /\ cats'[id].id = id
                   /\ cats' = With(cats, id, cats'[id])
                   /\ dCats' \in {dCats, cats'}
                   /\ UNCHANGED <<unlocked, entries, dEntries>>

DeleteCategory(id) ==
  /\ unlocked /\ id \in DOMAIN cats
  /\ cats' = Without(cats, id)
  /\ entries' = [k \in DOMAIN entries |->
                   IF entries[k].cat = id THEN [entries[k] EXCEPT !.cat = 0] ELSE entries[k]]
  /\ dCats' \in {dCats, cats'}
  /\ UNCHANGED <<unlocked, dEntries>>

Close == /\ unlocked' = FALSE
         /\ entries' = Empty /\ cats' = Empty
         /\ UNCHANGED <<dEntries, dCats>>

Open == /\ unlocked' = TRUE
        /\ entries' = dEntries /\ cats' = dCats
        /\ UNCHANGED <<dEntries, dCats>>

Next == \/ \E id \in Ids : \/ PutEntry(id) \/ FailedAdd(id) \/ RemoveEntry(id)
                           \/ AddCategory(id) \/ DeleteCategory(id)
        \/ ClearEntries \/ SaveEntries \/ Close \/ Open

Spec == Init /\ [][Next]_vars
=============================================================================
