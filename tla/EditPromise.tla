---------------------------- MODULE EditPromise ----------------------------
(***************************************************************************)
(* What saving a shared object should mean to the people who edit it: a    *)
(* save made against what its author saw is granted exactly when that is   *)
(* still the content, and is refused otherwise.  Only a save that asks to  *)
(* overwrite may replace content its author never saw.                     *)
(***************************************************************************)
EXTENDS Naturals

CONSTANTS User, Object, NoObject, MaxEdits

VARIABLES
    content,    \* content[o]: the number of the edit o shows
    seen,       \* seen[u]: the object and the content user u looks at
    asked       \* asked[u]: what u has asked for, or how that was answered

vars == <<content, seen, asked>>

Pending(u) == asked[u] \in {"replace", "overwrite"}
Shown(u) == content[seen[u].object]

Init ==
    /\ content = [o \in Object |-> 0]
    /\ seen = [u \in User |-> [object |-> NoObject, content |-> 0]]
    /\ asked = [u \in User |-> "nothing"]

Look(u, o) ==
    /\ ~Pending(u)
    /\ seen' = [seen EXCEPT ![u] = [object |-> o, content |-> content[o]]]
    /\ asked' = [asked EXCEPT ![u] = "nothing"]
    /\ UNCHANGED content

Ask(u, wish) ==
    /\ ~Pending(u)
    /\ seen[u].object # NoObject
    /\ asked' = [asked EXCEPT ![u] = wish]
    /\ UNCHANGED <<content, seen>>

\* After a save that replaced what it was made against the author sees the
\* new content; after an overwrite what the author sees may be old.
Grant(u) ==
    /\ Pending(u)
    /\ asked[u] = "replace" => seen[u].content = Shown(u)
    /\ \E c \in 1..MaxEdits :
        /\ c \notin {content[o] : o \in Object} \cup {seen[v].content : v \in User}
        /\ content' = [content EXCEPT ![seen[u].object] = c]
        /\ seen' = IF asked[u] = "replace" THEN [seen EXCEPT ![u].content = c] ELSE seen
    /\ asked' = [asked EXCEPT ![u] = "granted"]

\* An overwrite may find that there is nothing to do.
Refuse(u) ==
    /\ Pending(u)
    /\ asked[u] = "replace" => seen[u].content # Shown(u)
    /\ asked' = [asked EXCEPT ![u] = "refused"]
    /\ UNCHANGED <<content, seen>>

Next ==
    \E u \in User :
        \/ \E o \in Object : Look(u, o)
        \/ \E wish \in {"replace", "overwrite"} : Ask(u, wish)
        \/ Grant(u)
        \/ Refuse(u)

Spec == Init /\ [][Next]_vars

=============================================================================
