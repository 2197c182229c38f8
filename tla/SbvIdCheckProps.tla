--------------------------- MODULE SbvIdCheckProps ---------------------------
(* Properties of SbvIdCheck. *)
EXTENDS SbvIdCheck

Asking == \E c \in DOMAIN checks : c.id = entry
Quiet == ~timer /\ ~Asking

(* A warning that stays is about the number in the entry: late answers     *)
(* about another number, of this user or of the one selected before, are   *)
(* dropped, and an emptied entry has none.                                 *)
WarningIsAboutEntry == Quiet /\ label.hits # {} => label.about = entry

(* A number that was typed or suggested is checked before the pane comes   *)
(* to rest: debouncing and dropping late answers never leave an entry      *)
(* whose check was not sent or whose answer was thrown away.               *)
TypedIsChecked == typed /\ entry \in Id /\ Quiet => label.about = entry

(* And the pane does come to rest, again and again, unless the entry is    *)
(* changed again and again: every check that is sent returns, and the      *)
(* Suggest button is sensitive again in the end.                           *)
Edits == SuggestDone \/ \E v \in IdOrNone : Type(v)
PaneRests ==
    /\ []<>Quiet \/ []<><<Edits>>_vars
    /\ (suggest # Idle) ~> (suggest = Idle)

=============================================================================
