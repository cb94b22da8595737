---------------------------- MODULE MCEntryTable ----------------------------
(***************************************************************************)
(* Small instances of EntryTable.  The files exercise a repeated title, a  *)
(* known and an unknown category, an item without a title, more items than *)
(* there is room for, and (LongFiles) a title longer than its field.       *)
(***************************************************************************)
EXTENDS EntryTable, TLC

CONSTANTS a, b, long, v

Item(t, c) == [title |-> t, body |-> v, cat |-> c]

ShortFiles == {<<Item(a, c), Item(a, EMPTY)>> : c \in Names}
              \cup {<<Item(EMPTY, EMPTY), Item(b, c), Item(a, EMPTY)>> : c \in Names}
LongFiles  == { <<Item(long, EMPTY), Item(long, EMPTY)>> }

\* A repeated title, and categories that may be gone here.
SmallBundles == { <<[title |-> a, body |-> v, cat |-> 1]>>,
                  <<[title |-> b, body |-> v, cat |-> 2], [title |-> a, body |-> v, cat |-> 0],
                    [title |-> b, body |-> v, cat |-> 1]>> }

Symmetry == Permutations(Names)
=============================================================================
