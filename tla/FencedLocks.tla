---------------------------- MODULE FencedLocks -----------------------------
(***************************************************************************)
(* What a fenced lock promises, whatever keeps it: a key has at most one   *)
(* holder, passes from one party to another only by being free between,    *)
(* and every time it is taken its fence rises by one, so that work still   *)
(* under way for an earlier holder can be told from the present holder's.  *)
(***************************************************************************)
EXTENDS Naturals

CONSTANTS Lockable, Party, Free

VARIABLES holder, fence

FencedInit ==
    /\ holder = [k \in Lockable |-> Free]
    /\ fence = [k \in Lockable |-> 0]

\* A party takes free keys, several at once or none of them.
Take ==
    \E p \in Party : \A k \in Lockable :
        \/ holder'[k] = holder[k] /\ fence'[k] = fence[k]
        \/ holder[k] = Free /\ holder'[k] = p /\ fence'[k] = fence[k] + 1

\* Keys are given back or run out; their fences stay.
Drop ==
    /\ fence' = fence
    /\ \A k \in Lockable : holder'[k] \in {holder[k], Free}

FencedSpec == FencedInit /\ [][Take \/ Drop]_<<holder, fence>>
=============================================================================
