-------------------------- MODULE SbvProfilesProps --------------------------
(* Properties of SbvProfiles. *)
EXTENDS SbvProfiles

CONSTANT NoVal

(* Upsert and remove find a profile by its name: no two profiles of the    *)
(* store, the file or the sidebar have the same.                           *)
NamesUnique == Unique(store) /\ Unique(disk) /\ Unique(rows)

(* "Persist the full store back to disk": when no operation is half done   *)
(* and nothing failed, a restart would bring back the store as it is, and  *)
(* the sidebar shows it whenever it can be clicked.                        *)
CopiesAgree ==
    failures = 0 => /\ disk = Written(store)
                    /\ NoDialog => rows = store

(* The store is a book of profiles, whatever fails: adding changes one     *)
(* entry, editing changes or moves the entry the dialog was opened on, and *)
(* the program starts again from the file.  An edit is done, for the book, *)
(* when the old entry has been removed.                                    *)
BookOf(s) == [n \in Name |-> IF n \in Names(s)
                             THEN s[CHOOSE i \in DOMAIN s : s[i].name = n].val
                             ELSE NoVal]

BookNow == IF dialog.step = "upsert" THEN BookOf(Upserted(store, Entered))
           ELSE BookOf(store)
OpenNow == IF dialog.kind = "edit" THEN dialog.original ELSE NoName

Book == INSTANCE SbvProfileBook WITH
    book <- BookNow, kept <- BookOf(disk), open <- OpenNow

BookSpec == Book!Spec
=============================================================================
