-------------------------------- MODULE Safe --------------------------------
(***************************************************************************)
(* What the vault promises its owner, without salts, wrapped keys, store   *)
(* calls or a boot check.  A safe belongs to nobody or to the one password *)
(* that opens it, and it guards one secret.  The secret is in hand only    *)
(* while the safe is open, a new owner finds the same secret, and the only *)
(* way to lose it is to erase the safe, closed.                            *)
(***************************************************************************)
CONSTANTS Passwords, Secrets,
          Nobody      \* no owner; nothing in hand

VARIABLES
  safe,       \* who opens it and what is inside
  held,       \* the secret in hand
  erasing     \* it is being erased

vars == <<safe, held, erasing>>

Owned == [owner : Passwords, secret : Secrets]

\* A safe has one owner and one secret, or none.
TypeOK == /\ safe \in Owned \cup {Nobody}
          /\ held \in Secrets \cup {Nobody}
          /\ erasing \in BOOLEAN

Init == /\ safe \in Owned \cup {Nobody}
        /\ held = Nobody
        /\ erasing = FALSE

Claim(pw, s) == /\ safe = Nobody /\ held = Nobody /\ ~erasing
                /\ safe' = [owner |-> pw, secret |-> s]
                /\ UNCHANGED <<held, erasing>>

Open == /\ safe # Nobody /\ ~erasing
        /\ held' = safe.secret
        /\ UNCHANGED <<safe, erasing>>

Close == /\ held' = Nobody
         /\ UNCHANGED <<safe, erasing>>

ChangeOwner(pw) == /\ safe # Nobody /\ ~erasing
                   /\ safe' = [owner |-> pw, secret |-> safe.secret]
                   /\ UNCHANGED <<held, erasing>>

StartErase == /\ ~erasing
              /\ erasing' = TRUE /\ held' = Nobody
              /\ UNCHANGED safe

Erase == /\ erasing
         /\ safe' = Nobody
         /\ UNCHANGED <<held, erasing>>

\* It is done, or was cut short.
EndErase == /\ erasing
            /\ erasing' = FALSE
            /\ UNCHANGED <<safe, held>>

Next ==
  \/ \E pw \in Passwords, s \in Secrets : Claim(pw, s)
  \/ \E pw \in Passwords : ChangeOwner(pw)
  \/ Open \/ Close \/ StartErase \/ Erase \/ EndErase

Spec == Init /\ [][Next]_vars

-----------------------------------------------------------------------------
\* What is in hand is the secret of a safe that has an owner and is not being
\* erased.
HeldIsGuarded == held # Nobody => ~erasing /\ safe # Nobody /\ held = safe.secret
=============================================================================
