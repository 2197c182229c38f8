--------------------------- MODULE SbvProfileBook ---------------------------
(* What the profiles promise the operator: a book of named connections, of *)
(* which one entry at most is open for editing, and a copy of it that the  *)
(* program starts from.                                                    *)
CONSTANTS Name, Val, NoVal, NoName

VARIABLES book, kept, open

vars == <<book, kept, open>>

Empty == [n \in Name |-> NoVal]
Books == [Name -> Val \cup {NoVal}]

Init == /\ book \in Books
        /\ kept = book
        /\ open = NoName

(* Saving may fail, and be done in parts: the copy keeps the entry of a    *)
(* name, or takes over that of the book before or after the change.        *)
Save == kept' \in Books /\ \A n \in Name : kept'[n] \in {kept[n], book[n], book'[n]}

(* The sidebar may still show an entry that a failed save has moved. *)
Open(n) ==
    /\ open = NoName
    /\ open' = n
    /\ UNCHANGED <<book, kept>>

Close == open' = NoName /\ UNCHANGED book /\ Save

(* "append or replace a profile (matched by name)" *)
Add(n, v) ==
    /\ open = NoName
    /\ book' = [book EXCEPT ![n] = v]
    /\ Save
    /\ UNCHANGED open

(* "Renaming a profile cleanly replaces the old entry." *)
Edit(n, v) ==
    /\ open # NoName
    /\ book' = [book EXCEPT ![open] = NoVal, ![n] = v]
    /\ Save
    /\ UNCHANGED open

(* The copy that cannot be read counts as empty. *)
Restart == book' \in {kept, Empty} /\ open' = NoName /\ UNCHANGED kept

Next == \/ Close \/ Restart
        \/ \E n \in Name : Open(n)
        \/ \E n \in Name, v \in Val : Add(n, v) \/ Edit(n, v)

Spec == Init /\ [][Next]_vars
=============================================================================
