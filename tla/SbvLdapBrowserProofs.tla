------------------------ MODULE SbvLdapBrowserProofs ------------------------
(* Proofs about SbvLdapBrowser, for every tree of entries, every bound and *)
(* any number of calls in flight: types, and what a save would write.      *)
EXTENDS SbvLdapBrowserProps, TLAPS

(* A call is about what its callback looks up in the answer. *)
TaskOK(t) ==
    /\ t \in Queued \cup Returned
    /\ t.of.op = "root" => t.of.dn = Root
    /\ t.step = "done" /\ t.ok =>
        /\ t.of.op \in {"root", "refresh"} => t.of.dn \in DOMAIN t.attrs
        /\ t.of.op = "search" => t.of.matching \subseteq DOMAIN t.attrs
TasksOK == \A t \in DOMAIN tasks : TaskOK(t)

(* A row that nobody edited shows what was loaded; the others were edited  *)
(* in the entry that is loaded.                                            *)
RowOf(r, values) ==
    \/ r.typed = NoEntry /\ r.text = values /\ ~r.twice /\ ~r.gone
    \/ r.typed = loaded_dn
RowsOfLoaded ==
    loaded_dn # NoEntry => \A a \in DOMAIN rows : RowOf(rows[a], loaded_attrs[a])

IInv == TypeOK /\ TasksOK /\ RowsOfLoaded

(* Why an entry is in the tree once: its children are asked for once in a  *)
(* tree, and are not there before the answer.                              *)
Current == {t \in DOMAIN tasks : t.of.op = "children" /\ t.of.gen = gen}
NoneBelow(e) == \A k \in Kids(e) : tree[k].n = 0
NodesOnce ==
    \A e \in Entry :
        /\ tree[e].n \in {0, 1}
        /\ tree[e].n = 0 => ~tree[e].asked
        /\ ~tree[e].asked => NoneBelow(e)
AskedOnce ==
    \A t \in Current :
        /\ tasks[t] = 1
        /\ tree[t.of.dn].asked /\ NoneBelow(t.of.dn)
        /\ \A u \in Current : u.of.dn = t.of.dn => u = t

(* No answer is about a tree to come, and children are children. *)
CallOK(t) ==
    /\ t.of.op # "modify" => t.of.gen <= gen
    /\ t.of.op = "children" /\ t.step = "done" =>
          DOMAIN t.attrs \subseteq Kids(t.of.dn)
CallsOK == \A t \in DOMAIN tasks : CallOK(t)

TwinsInv == NodesOnce /\ AskedOnce /\ CallsOK

(* split_values keeps each value: it has no semicolon in it, no white      *)
(* space around, and is not empty.                                         *)
Plain == \A v \in Value : Parts[v] = {v}

-----------------------------------------------------------------------------
LEMMA BagDomains ==
    ASSUME NEW B, NEW x
    PROVE  /\ DOMAIN BagAdd(B, x) = DOMAIN B \cup {x}
           /\ DOMAIN BagRemove(B, x) \subseteq DOMAIN B
<1>1. DOMAIN BagAdd(B, x) = DOMAIN B \cup {x}
  BY DEF BagAdd
<1>2. DOMAIN BagRemove(B, x) \subseteq DOMAIN B
  <2>1. CASE x \notin DOMAIN B
    BY <2>1 DEF BagRemove
  <2>2. CASE x \in DOMAIN B /\ B[x] = 1
    BY <2>2 DEF BagRemove
  <2>3. CASE x \in DOMAIN B /\ B[x] # 1
    BY <2>3 DEF BagRemove
  <2> QED BY <2>1, <2>2, <2>3
<1> QED BY <1>1, <1>2

(* Partial functions on the attributes, and on the entries. *)
LEMMA SomeMember ==
    ASSUME NEW S, NEW A \in SUBSET Attr, NEW R \in [A -> S]
    PROVE  R \in Some(S)
BY DEF Some

LEMMA SomeIs ==
    ASSUME NEW S, NEW R \in Some(S)
    PROVE  DOMAIN R \subseteq Attr /\ R \in [DOMAIN R -> S]
BY DEF Some

LEMMA HitsMember ==
    ASSUME NEW E \in SUBSET Entry, NEW R \in [E -> Attrs]
    PROVE  R \in Hits
BY DEF Hits

LEMMA HitsIs ==
    ASSUME NEW R \in Hits
    PROVE  DOMAIN R \subseteq Entry /\ \A e \in DOMAIN R : R[e] \in Attrs
BY DEF Hits

LEMMA NoHitsType == NoHits \in Hits
<1>1. NoHits \in [{} -> Attrs]
  BY DEF NoHits
<1> QED BY <1>1, HitsMember

LEMMA NoAttrsType == NoAttrs \in Attrs
BY DEF NoAttrs, Attrs, Values

(* split_values makes values of values, and keeps plain ones. *)
LEMMA PiecesType ==
    ASSUME NEW text \in Values PROVE Pieces(text) \in Values
BY BrowserAssumption DEF Pieces, Values

LEMMA PiecesPlain ==
    ASSUME Plain, NEW text \in Values PROVE Pieces(text) = text
<1>1. \A v \in text : Parts[v] = {v}
  BY DEF Plain, Values
<1> QED BY <1>1 DEF Pieces

-----------------------------------------------------------------------------
(* The calls. *)

LEMMA AskOK ==
    ASSUME NEW op \in {"children", "root", "search", "refresh"},
           NEW e \in Entry, NEW matching \in SUBSET Entry, NEW n \in Nat,
           op = "root" => e = Root
    PROVE  TaskOK([step |-> "queued",
                   of |-> [op |-> op, dn |-> e, matching |-> matching,
                           gen |-> n]])
BY DEF TaskOK, Queued, Question

LEMMA AddOK ==
    ASSUME TasksOK, NEW t, TaskOK(t), tasks' = BagAdd(tasks, t)
    PROVE  TasksOK'
<1>1. DOMAIN tasks' = DOMAIN tasks \cup {t}
  <2>1. DOMAIN BagAdd(tasks, t) = DOMAIN tasks \cup {t}
    BY BagDomains
  <2> QED BY <2>1
<1> QED BY <1>1 DEF TasksOK, TaskOK

LEMMA DropOK ==
    ASSUME TasksOK, NEW t, tasks' = Drop(t)
    PROVE  TasksOK'
BY BagDomains DEF TasksOK, TaskOK, Drop

LEMMA ReplaceOK ==
    ASSUME TasksOK, NEW t, NEW u, TaskOK(u),
           tasks' = BagAdd(BagRemove(tasks, t), u)
    PROVE  TasksOK'
<1>1. DOMAIN tasks' \subseteq DOMAIN tasks \cup {u}
  <2>1. /\ DOMAIN BagRemove(tasks, t) \subseteq DOMAIN tasks
        /\ DOMAIN BagAdd(BagRemove(tasks, t), u)
             = DOMAIN BagRemove(tasks, t) \cup {u}
    BY BagDomains
  <2> QED BY <2>1
<1> QED BY <1>1 DEF TasksOK, TaskOK

LEMMA TasksType ==
    ASSUME TasksOK' PROVE DOMAIN tasks' \subseteq Queued \cup Returned
BY DEF TasksOK, TaskOK

(* The operation tells a change from a question. *)
LEMMA OfType ==
    ASSUME NEW t, TaskOK(t)
    PROVE  /\ t.of \in Question \cup Change
           /\ t.of.dn \in Entry
           /\ t.of.op = "modify" => t.of \in Change
           /\ t.of.op # "modify" => t.of \in Question
           /\ t.step = "done" => t.attrs \in Hits
<1>1. t.of \in Question \cup Change
  BY DEF TaskOK, Queued, Returned
<1>2. t.step = "done" => t.attrs \in Hits
  BY DEF TaskOK, Queued, Returned
<1> QED BY <1>1, <1>2 DEF Question, Change

-----------------------------------------------------------------------------
(* The editor. *)

LEMMA FillKeeps ==
    ASSUME NEW attrs \in Attrs, Fill(attrs), loaded_dn' \in MaybeEntry
    PROVE  /\ loaded_attrs' \in Attrs
           /\ rows' \in Some(Row)
           /\ added' \in NewRow
           /\ save_btn' \in BOOLEAN
           /\ RowsOfLoaded'
<1>1. Rebuilt(attrs) \in [{x \in Attr : attrs[x] # {}} -> Row]
  BY DEF Rebuilt, Row, Attrs, MaybeEntry
<1>2. rows' \in Some(Row)
  BY <1>1, SomeMember DEF Fill
<1>3. RowsOfLoaded'
  BY DEF Fill, Rebuilt, RowsOfLoaded, RowOf
<1>4. save_btn' \in BOOLEAN
  BY DEF Fill, Dirty
<1> QED BY <1>2, <1>3, <1>4 DEF Fill, NewRow

(* Handlers that leave the directory, the tree and the search alone. *)
LEMMA EditorKeeps ==
    ASSUME IInv, UNCHANGED <<dir, browse, asks, undefined>>, edits' \in Nat,
           TasksOK', loaded_dn' \in MaybeEntry, loaded_attrs' \in Attrs,
           rows' \in Some(Row), added' \in NewRow, save_btn' \in BOOLEAN,
           RowsOfLoaded'
    PROVE  IInv'
BY TasksType DEF IInv, TypeOK, browse

LEMMA EditKeeps ==
    ASSUME IInv, NEW R \in Some(Row), NEW new \in NewRow, Edit(R, new),
           \A a \in DOMAIN R : R[a].typed = loaded_dn \/ R[a] = rows[a],
           DOMAIN R = DOMAIN rows
    PROVE  IInv'
<1>1. RowsOfLoaded'
  BY DEF IInv, RowsOfLoaded, RowOf, Edit
<1>2. save_btn' \in BOOLEAN
  BY DEF Edit, Dirty
<1>3. TasksOK'
  BY DEF Edit, IInv, TasksOK, TaskOK
<1>4. edits' \in Nat /\ UNCHANGED <<dir, browse, asks, undefined>>
  BY DEF Edit, IInv, TypeOK
<1> QED
  BY <1>1, <1>2, <1>3, <1>4, EditorKeeps DEF Edit, IInv, TypeOK

(* A row with another text, or marked. *)
LEMMA RowEdited ==
    ASSUME IInv, NEW a \in DOMAIN rows, NEW r \in Row, r.typed = loaded_dn,
           NEW R, R = [rows EXCEPT ![a] = r]
    PROVE  /\ R \in Some(Row) /\ DOMAIN R = DOMAIN rows
           /\ \A b \in DOMAIN R : R[b].typed = loaded_dn \/ R[b] = rows[b]
<1>1. DOMAIN rows \subseteq Attr /\ rows \in [DOMAIN rows -> Row]
  BY SomeIs DEF IInv, TypeOK
<1>2. R \in [DOMAIN rows -> Row]
  BY <1>1
<1> QED BY <1>1, <1>2, SomeMember

LEMMA TypeKeeps ==
    ASSUME IInv, NEW a \in Attr, NEW text \in Values, NEW twice \in BOOLEAN,
           Type(a, text, twice)
    PROVE  IInv'
<1> DEFINE r == [rows[a] EXCEPT !.text = text, !.twice = twice,
                                !.typed = loaded_dn]
           R == [rows EXCEPT ![a] = r]
<1>1. a \in DOMAIN rows /\ Edit(R, added)
  BY DEF Type
<1>2. rows[a] \in Row /\ loaded_dn \in MaybeEntry /\ added \in NewRow
  BY <1>1, SomeIs DEF IInv, TypeOK
<1>3. r \in Row /\ r.typed = loaded_dn
  BY <1>2 DEF Row
<1> HIDE DEF r
<1>4. /\ R \in Some(Row) /\ DOMAIN R = DOMAIN rows
      /\ \A b \in DOMAIN R : R[b].typed = loaded_dn \/ R[b] = rows[b]
  BY <1>1, <1>3, RowEdited
<1> HIDE DEF R
<1> QED BY <1>1, <1>2, <1>4, EditKeeps

LEMMA MarkKeeps ==
    ASSUME IInv, NEW a \in Attr, Mark(a) PROVE IInv'
<1> DEFINE R == [rows EXCEPT ![a] = [@ EXCEPT !.gone = ~@,
                                              !.typed = loaded_dn]]
<1>1. a \in DOMAIN rows /\ Edit(R, added)
  BY DEF Mark
<1>2. /\ DOMAIN rows \subseteq Attr /\ rows \in [DOMAIN rows -> Row]
      /\ loaded_dn \in MaybeEntry /\ added \in NewRow
  BY SomeIs DEF IInv, TypeOK
<1>3. /\ R \in [DOMAIN rows -> Row]
      /\ R[a].typed = loaded_dn
      /\ \A b \in DOMAIN rows \ {a} : R[b] = rows[b]
  <2>1. rows[a] \in Row
    BY <1>1, <1>2
  <2>2. [rows[a] EXCEPT !.gone = ~@, !.typed = loaded_dn]
           \in [text : Values, twice : BOOLEAN, gone : BOOLEAN,
                typed : MaybeEntry]
    BY <1>2, <2>1 DEF Row
  <2> QED BY <1>1, <1>2, <2>1, <2>2 DEF Row
<1> HIDE DEF R
<1>4. R \in Some(Row) /\ DOMAIN R = DOMAIN rows
  BY <1>2, <1>3, SomeMember
<1> QED BY <1>1, <1>2, <1>3, <1>4, EditKeeps

LEMMA NewRowKeeps ==
    ASSUME IInv, NEW new \in NewRow, Edit(rows, new) PROVE IInv'
<1>1. rows \in Some(Row)
  BY DEF IInv, TypeOK
<1> QED BY <1>1, EditKeeps

LEMMA SaveKeeps == ASSUME IInv, Save PROVE IInv'
<1> DEFINE mods == Mods(loaded_attrs, rows)
           add == [a \in Attr |-> IF added # NoRow /\ added.attr = a
                                  THEN Pieces(added.text) ELSE {}]
           t == [step |-> "queued",
                 of |-> [op |-> "modify", dn |-> loaded_dn, mods |-> mods,
                         add |-> add]]
<1>1. DOMAIN rows \subseteq Attr /\ rows \in [DOMAIN rows -> Row]
  BY SomeIs DEF IInv, TypeOK
<1>2. mods \in Some(Values)
  <2>1. \A a \in DOMAIN rows : rows[a].text \in Values
    BY <1>1 DEF Row
  <2>2. \A a \in DOMAIN rows : Pieces(rows[a].text) \in Values
    BY <2>1, PiecesType
  <2>3. Changed(loaded_attrs, rows) \subseteq DOMAIN rows
    BY DEF Changed
  <2>4. mods \in [Changed(loaded_attrs, rows) -> Values]
    BY <2>2, <2>3 DEF Mods, Values
  <2> QED BY <1>1, <2>3, <2>4, SomeMember
<1>3. add \in Attrs
  <2>1. added # NoRow => added.text \in Values
    BY DEF IInv, TypeOK, NewRow
  <2>2. added # NoRow => Pieces(added.text) \in Values
    BY <2>1, PiecesType
  <2> QED BY <2>2 DEF Attrs, Values
<1>4. loaded_dn \in Entry
  BY DEF Save, IInv, TypeOK, MaybeEntry
<1>5. tasks' = BagAdd(tasks, t)
  BY DEF Save
<1> HIDE DEF mods, add
<1>6. TaskOK(t)
  BY <1>2, <1>3, <1>4 DEF TaskOK, Queued, Change
<1> HIDE DEF t
<1>7. TasksOK'
  BY <1>5, <1>6, AddOK DEF IInv
<1>8. save_btn' \in BOOLEAN
  BY DEF Save
<1>10. asks' \in Nat
  BY DEF Save, MayAsk, IInv, TypeOK
<1>9. UNCHANGED <<dir, browse, pane, edits, undefined>>
  BY DEF Save
<1> QED
  BY <1>7, <1>8, <1>9, <1>10, TasksType DEF IInv, TypeOK, browse, pane,
     RowsOfLoaded, RowOf

-----------------------------------------------------------------------------
(* The workers. *)

LEMMA WorkerKeeps ==
    ASSUME IInv, NEW t \in DOMAIN tasks, TasksOK',
           dir' \in [Entry -> Attrs],
           UNCHANGED <<browse, editor, bounds, undefined>>
    PROVE  IInv'
BY TasksType DEF IInv, TypeOK, browse, editor, pane, bounds, RowsOfLoaded,
   RowOf

LEMMA FailKeeps ==
    ASSUME IInv, NEW t \in DOMAIN tasks, Fail(t) PROVE IInv'
<1> DEFINE u == [step |-> "done", of |-> t.of, ok |-> FALSE, attrs |-> NoHits]
<1>1. TaskOK(t)
  BY DEF IInv, TasksOK
<1>2. t.of \in Question \cup Change
  BY <1>1, OfType
<1>3. TaskOK(u)
  BY <1>1, <1>2, NoHitsType DEF TaskOK, Returned
<1>4. tasks' = BagAdd(BagRemove(tasks, t), u)
  BY DEF Fail, Answer
<1> HIDE DEF u
<1>5. TasksOK'
  BY <1>3, <1>4, ReplaceOK DEF IInv
<1> QED BY <1>5, WorkerKeeps DEF Fail, IInv, TypeOK

LEMMA ReadsKeeps ==
    ASSUME IInv, NEW t \in DOMAIN tasks, NEW ops, NEW found \in SUBSET Entry,
           Reads(t, ops, found),
           "modify" \notin ops,
           t.of.op \in {"root", "refresh"} => t.of.dn \in found,
           t.of.op = "search" => t.of.matching \subseteq found
    PROVE  IInv'
<1> DEFINE u == [step |-> "done", of |-> t.of, ok |-> TRUE,
                 attrs |-> [e \in found |-> dir[e]]]
<1>1. TaskOK(t)
  BY DEF IInv, TasksOK
<1>2. t.of \in Question \cup Change
  BY <1>1, OfType
<1>3. [e \in found |-> dir[e]] \in Hits
  <2>1. [e \in found |-> dir[e]] \in [found -> Attrs]
    BY DEF IInv, TypeOK
  <2> QED BY <2>1, HitsMember
<1>4. TaskOK(u)
  BY <1>1, <1>2, <1>3 DEF TaskOK, Returned
<1>5. tasks' = BagAdd(BagRemove(tasks, t), u)
  BY DEF Reads, Answer
<1> HIDE DEF u
<1>6. TasksOK'
  BY <1>4, <1>5, ReplaceOK DEF IInv
<1> QED BY <1>6, WorkerKeeps DEF Reads, IInv, TypeOK

LEMMA ModifyKeeps ==
    ASSUME IInv, NEW t \in DOMAIN tasks, Modify(t) PROVE IInv'
<1>0. PICK ok \in BOOLEAN : tasks' = Answer(t, ok, NoHits)
  BY DEF Modify
<1> DEFINE u == [step |-> "done", of |-> t.of, ok |-> ok, attrs |-> NoHits]
<1>1. TaskOK(t) /\ t.of.op = "modify"
  BY DEF IInv, TasksOK, Modify
<1>2. t.of \in Change /\ t.of.dn \in Entry
  BY <1>1, OfType
<1>3. TaskOK(u)
  BY <1>1, <1>2, NoHitsType DEF TaskOK, Returned
<1>4. tasks' = BagAdd(BagRemove(tasks, t), u)
  BY <1>0 DEF Answer
<1> HIDE DEF u
<1>5. TasksOK'
  BY <1>3, <1>4, ReplaceOK DEF IInv
<1>6. t.of.add \in Attrs /\ t.of.mods \in Some(Values)
  BY <1>2 DEF Change
<1>7. \A a \in DOMAIN t.of.mods : t.of.mods[a] \in Values
  BY <1>6, SomeIs
<1>8. dir \in [Entry -> Attrs]
  BY DEF IInv, TypeOK
<1> DEFINE new == [a \in Attr |->
                     t.of.add[a] \cup IF a \in DOMAIN t.of.mods
                                      THEN t.of.mods[a]
                                      ELSE dir[t.of.dn][a]]
<1>9. new \in Attrs
  BY <1>2, <1>6, <1>7, <1>8 DEF Attrs, Values
<1>10. dir' = [dir EXCEPT ![t.of.dn] = new]
  BY DEF Modify
<1> HIDE DEF new
<1>11. dir' \in [Entry -> Attrs]
  BY <1>8, <1>9, <1>10
<1> QED BY <1>5, <1>11, WorkerKeeps DEF Modify

LEMMA WorkersKeep ==
    ASSUME IInv, NEW t \in DOMAIN tasks, Worker(t) PROVE IInv'
<1>1. TaskOK(t)
  BY DEF IInv, TasksOK
<1>2. t.of.dn \in Entry
  BY <1>1, OfType
<1>3. CASE Fail(t)
  BY <1>3, FailKeeps
<1>4. CASE ReadChildren(t)
  <2>1. Kids(t.of.dn) \subseteq Entry
    BY DEF Kids
  <2>2. Reads(t, {"children"}, Kids(t.of.dn)) /\ t.of.op = "children"
    BY <1>4 DEF ReadChildren, Reads
  <2> QED BY <2>1, <2>2, ReadsKeeps
<1>5. CASE ReadAttrs(t)
  <2>1. /\ Reads(t, {"root", "refresh"}, {t.of.dn})
        /\ t.of.op \in {"root", "refresh"}
    BY <1>5 DEF ReadAttrs, Reads
  <2> QED BY <1>2, <2>1, ReadsKeeps
<1>6. CASE FindMatching(t)
  <2>1. Reads(t, {"search"}, t.of.matching) /\ t.of.op = "search"
    BY <1>6 DEF FindMatching, Reads
  <2>2. t.of.matching \subseteq Entry
    BY <1>1, <2>1, OfType DEF Question
  <2> QED BY <2>1, <2>2, ReadsKeeps
<1>7. CASE Modify(t)
  BY <1>7, ModifyKeeps
<1> QED BY <1>3, <1>4, <1>5, <1>6, <1>7 DEF Worker

-----------------------------------------------------------------------------
(* The callbacks, the tree and the search. *)

EditorOK ==
    /\ loaded_dn \in MaybeEntry /\ loaded_attrs \in Attrs
    /\ rows \in Some(Row) /\ added \in NewRow /\ save_btn \in BOOLEAN
    /\ RowsOfLoaded

Tree == [Entry -> [n : Nat, attrs : Attrs, asked : BOOLEAN]]

LEMMA BrowseKeeps ==
    ASSUME IInv, TasksOK', EditorOK', UNCHANGED <<dir, edits>>,
           tree' \in Tree, gen' \in Nat, split' \in BOOLEAN,
           left' \in {"tree", "results"},
           sel' \in MaybeEntry, results' \in Hits, pick' \in MaybeEntry,
           asks' \in Nat, undefined' \in BOOLEAN
    PROVE  IInv'
BY TasksType DEF IInv, TypeOK, EditorOK, Tree

LEMMA EditorSame ==
    ASSUME IInv, UNCHANGED editor PROVE EditorOK'
BY DEF IInv, TypeOK, EditorOK, editor, pane, RowsOfLoaded, RowOf

LEMMA LoadNodeOK ==
    ASSUME NEW e \in Entry, NEW attrs \in Attrs, LoadNode(e, attrs)
    PROVE  EditorOK'
<1>1. loaded_dn' \in MaybeEntry /\ Fill(attrs)
  BY DEF LoadNode, MaybeEntry
<1> QED BY <1>1, FillKeeps DEF EditorOK

LEMMA LoadNoneOK ==
    ASSUME IInv, LoadNone PROVE EditorOK'
BY NoAttrsType DEF IInv, TypeOK, EditorOK, LoadNone, MaybeEntry, RowsOfLoaded

LEMMA SaveDoneKeeps ==
    ASSUME IInv, NEW t \in DOMAIN tasks, SaveDone(t) PROVE IInv'
<1> DEFINE u == Ask("refresh", loaded_dn)
<1>1. TasksOK'
  <2>1. CASE tasks' = Drop(t)
    BY <2>1, DropOK DEF IInv
  <2>2. CASE loaded_dn # NoEntry /\ tasks' = BagAdd(Drop(t), u)
    <3>1. loaded_dn \in Entry /\ gen \in Nat
      BY <2>2 DEF IInv, TypeOK, MaybeEntry
    <3>2. TaskOK(u)
      BY <3>1, AskOK DEF Ask, Asking
    <3> HIDE DEF u
    <3> QED BY <2>2, <3>2, ReplaceOK DEF IInv, Drop
  <2> QED BY <2>1, <2>2 DEF SaveDone
<1>2. EditorOK'
  BY DEF SaveDone, IInv, TypeOK, EditorOK, pane, RowsOfLoaded, RowOf
<1> QED
  BY <1>1, <1>2, BrowseKeeps DEF SaveDone, IInv, TypeOK, Tree, browse, bounds

LEMMA RefreshedKeeps ==
    ASSUME IInv, NEW t \in DOMAIN tasks, Refreshed(t) PROVE IInv'
<1>1. TasksOK'
  BY DropOK DEF Refreshed, IInv
<1>2. EditorOK'
  <2>1. CASE ~t.ok
    BY <2>1, EditorSame DEF Refreshed
  <2>2. CASE t.ok
    <3>1. TaskOK(t) /\ t.step = "done" /\ t.of.op = "refresh"
      BY DEF IInv, TasksOK, Refreshed, Done
    <3>2. t.of.dn \in DOMAIN t.attrs /\ t.attrs \in Hits
      BY <2>2, <3>1, OfType DEF TaskOK
    <3>3. t.attrs[t.of.dn] \in Attrs
      BY <3>2, HitsIs
    <3>4. Fill(t.attrs[t.of.dn]) /\ loaded_dn' \in MaybeEntry
      BY <2>2 DEF Refreshed, IInv, TypeOK
    <3> QED BY <3>3, <3>4, FillKeeps DEF EditorOK
  <2> QED BY <2>1, <2>2
<1> QED
  BY <1>1, <1>2, BrowseKeeps DEF Refreshed, IInv, TypeOK, Tree, browse, bounds

LEMMA LoadKeeps == ASSUME IInv, Load PROVE IInv'
<1> DEFINE u == [step |-> "queued",
                 of |-> [op |-> "root", dn |-> Root, matching |-> {},
                         gen |-> gen']]
<1>1. gen' \in Nat /\ asks' \in Nat /\ Root \in Entry
  BY BrowserAssumption DEF Load, MayAsk, IInv, TypeOK
<1>2. TaskOK(u)
  BY <1>1, AskOK
<1>3. tasks' = BagAdd(tasks, u)
  <2>1. [Ask("root", Root) EXCEPT !.of.gen = gen'] = u
    BY DEF Ask, Asking
  <2> QED BY <2>1 DEF Load
<1> HIDE DEF u
<1>4. TasksOK'
  BY <1>2, <1>3, AddOK DEF IInv
<1>5. EditorOK'
  BY EditorSame DEF Load
<1>6. tree' \in Tree
  BY NoAttrsType DEF Load, Tree
<1> QED
  BY <1>1, <1>4, <1>5, <1>6, NoHitsType, BrowseKeeps
     DEF Load, IInv, TypeOK, MaybeEntry

LEMMA RootLoadedKeeps ==
    ASSUME IInv, NEW t \in DOMAIN tasks, RootLoaded(t) PROVE IInv'
<1>1. TasksOK'
  BY DropOK DEF RootLoaded, IInv
<1>2. CASE ToFreedNode(t) \/ UNCHANGED <<browse, editor, undefined>>
  <2>1. EditorOK'
    BY <1>2, EditorSame DEF ToFreedNode
  <2> QED
    BY <1>1, <1>2, <2>1, BrowseKeeps
       DEF RootLoaded, ToFreedNode, IInv, TypeOK, Tree, browse, bounds
<1>3. CASE /\ t.ok
           /\ tree' = [tree EXCEPT ![Root].attrs = t.attrs[Root]]
           /\ \/ LoadNode(Root, t.attrs[Root])
              \/ UNCHANGED editor
           /\ UNCHANGED <<gen, split, left, sel, results, pick, undefined>>
  <2>1. TaskOK(t) /\ t.step = "done" /\ t.of.op = "root"
    BY DEF IInv, TasksOK, RootLoaded, Done
  <2>2. Root \in DOMAIN t.attrs /\ t.attrs \in Hits
    BY <1>3, <2>1, OfType DEF TaskOK
  <2>3. Root \in Entry /\ t.attrs[Root] \in Attrs
    BY <2>2, HitsIs, BrowserAssumption
  <2>4. EditorOK'
    BY <1>3, <2>3, EditorSame, LoadNodeOK
  <2>5. tree' \in Tree
    BY <1>3, <2>3 DEF IInv, TypeOK, Tree
  <2> QED
    BY <1>1, <1>3, <2>4, <2>5, BrowseKeeps
       DEF RootLoaded, IInv, TypeOK, bounds
<1> QED BY <1>2, <1>3 DEF RootLoaded

LEMMA ExpandKeeps ==
    ASSUME IInv, NEW e \in Entry, Expand(e) PROVE IInv'
<1> DEFINE u == Ask("children", e)
<1>1. TaskOK(u)
  BY AskOK DEF Ask, Asking, IInv, TypeOK
<1>2. tasks' = BagAdd(tasks, u)
  BY DEF Expand
<1> HIDE DEF u
<1>3. TasksOK'
  BY <1>1, <1>2, AddOK DEF IInv
<1>4. EditorOK'
  BY EditorSame DEF Expand
<1>5. tree' \in Tree
  <2>1. tree \in Tree /\ tree' = [tree EXCEPT ![e].asked = TRUE]
    BY DEF Expand, IInv, TypeOK, Tree
  <2> QED BY <2>1 DEF Tree
<1>6. asks' \in Nat
  BY DEF Expand, MayAsk, IInv, TypeOK
<1> QED BY <1>3, <1>4, <1>5, <1>6, BrowseKeeps DEF Expand, IInv, TypeOK

LEMMA ChildrenLoadedKeeps ==
    ASSUME IInv, NEW t \in DOMAIN tasks, ChildrenLoaded(t) PROVE IInv'
<1>1. TasksOK'
  BY DropOK DEF ChildrenLoaded, IInv
<1>2. EditorOK'
  BY EditorSame DEF ChildrenLoaded, ToFreedNode
<1>3. CASE ToFreedNode(t)
  BY <1>1, <1>2, <1>3, BrowseKeeps
     DEF ChildrenLoaded, ToFreedNode, IInv, TypeOK, Tree, browse, bounds
<1>4. CASE ~ToFreedNode(t)
  <2>1. TaskOK(t) /\ t.step = "done"
    BY DEF IInv, TasksOK, ChildrenLoaded, Done
  <2>2. \A e \in DOMAIN t.attrs : t.attrs[e] \in Attrs
    BY <2>1, OfType, HitsIs
  <2> DEFINE child(e) == [n |-> tree[e].n + 1, attrs |-> t.attrs[e],
                          asked |-> FALSE]
             asked(e) == [tree[e] EXCEPT !.asked = TRUE]
             Node == [n : Nat, attrs : Attrs, asked : BOOLEAN]
  <2>3. \A e \in Entry :
          /\ tree[e] \in Node /\ asked(e) \in Node
          /\ e \in DOMAIN t.attrs => child(e) \in Node
    <3> SUFFICES ASSUME NEW e \in Entry
                 PROVE  /\ tree[e] \in Node /\ asked(e) \in Node
                        /\ e \in DOMAIN t.attrs => child(e) \in Node
      OBVIOUS
    <3>1. tree[e] \in Node
      BY DEF IInv, TypeOK
    <3>2. asked(e) \in Node
      BY <3>1
    <3>3. e \in DOMAIN t.attrs => child(e) \in Node
      BY <3>1, <2>2
    <3> QED BY <3>1, <3>2, <3>3
  <2>4. tree' = [e \in Entry |->
                   IF e = t.of.dn THEN asked(e)
                   ELSE IF e \in DOMAIN t.attrs THEN child(e) ELSE tree[e]]
    BY <1>4 DEF ChildrenLoaded
  <2> HIDE DEF child, asked, Node
  <2>5. tree' \in [Entry -> Node]
    BY <2>3, <2>4
  <2>6. tree' \in Tree
    BY <2>5 DEF Node, Tree
  <2> QED
    BY <1>1, <1>2, <1>4, <2>6, BrowseKeeps
       DEF ChildrenLoaded, IInv, TypeOK, bounds
<1> QED BY <1>3, <1>4

LEMMA SelectKeeps ==
    ASSUME IInv, NEW e \in Entry, Select(e) \/ Pick(e) PROVE IInv'
<1>1. TasksOK'
  BY DEF Select, Pick, IInv, TasksOK, TaskOK
<1>2. CASE Select(e)
  <2>1. tree[e].attrs \in Attrs
    BY DEF IInv, TypeOK
  <2>2. EditorOK'
    BY <1>2, <2>1, LoadNodeOK DEF Select
  <2> QED
    BY <1>1, <1>2, <2>2, BrowseKeeps
       DEF Select, IInv, TypeOK, Tree, bounds, MaybeEntry
<1>3. CASE Pick(e)
  <2>1. results[e] \in Attrs
    BY <1>3, HitsIs DEF Pick, IInv, TypeOK
  <2>2. EditorOK' /\ pick' \in MaybeEntry
    BY <1>3, <2>1, LoadNodeOK, LoadNoneOK DEF Pick, MaybeEntry
  <2> QED
    BY <1>1, <1>3, <2>2, BrowseKeeps DEF Pick, IInv, TypeOK, Tree, bounds
<1> QED BY <1>2, <1>3

LEMMA SearchKeeps ==
    ASSUME IInv, NEW matching \in SUBSET Entry, Search(matching)
    PROVE  IInv'
<1> DEFINE u == Asking("search", Root, matching)
<1>1. TaskOK(u)
  BY AskOK, BrowserAssumption DEF Asking, IInv, TypeOK
<1>2. tasks' = BagAdd(tasks, u)
  BY DEF Search
<1> HIDE DEF u
<1>3. TasksOK'
  BY <1>1, <1>2, AddOK DEF IInv
<1>4. EditorOK' /\ asks' \in Nat
  BY EditorSame DEF Search, MayAsk, IInv, TypeOK
<1> QED BY <1>3, <1>4, BrowseKeeps DEF Search, IInv, TypeOK, Tree

LEMMA StopSearchKeeps == ASSUME IInv, StopSearch PROVE IInv'
<1>1. TasksOK'
  BY DEF StopSearch, IInv, TasksOK, TaskOK
<1>2. EditorOK'
  BY EditorSame DEF StopSearch
<1> QED
  BY <1>1, <1>2, NoHitsType, BrowseKeeps
     DEF StopSearch, IInv, TypeOK, Tree, bounds, MaybeEntry

LEMMA LoadWithoutBaseKeeps == ASSUME IInv, LoadWithoutBase PROVE IInv'
<1>1. TasksOK'
  BY DEF LoadWithoutBase, IInv, TasksOK, TaskOK
<1>2. EditorOK' /\ asks' \in Nat
  BY EditorSame DEF LoadWithoutBase, MayAsk, IInv, TypeOK
<1> QED BY <1>1, <1>2, BrowseKeeps DEF LoadWithoutBase, IInv, TypeOK, Tree

LEMMA SearchDoneKeeps ==
    ASSUME IInv, NEW t \in DOMAIN tasks, SearchDone(t) PROVE IInv'
<1>1. TasksOK'
  BY DropOK DEF SearchDone, IInv
<1>2. TaskOK(t) /\ t.step = "done" /\ t.of.op = "search"
  BY DEF IInv, TasksOK, SearchDone, Done
<1>3. t.attrs \in Hits /\ t.of.matching \subseteq Entry
  BY <1>2, OfType DEF Question
<1>4. EditorOK' /\ results' \in Hits /\ pick' \in MaybeEntry
  <2>1. CASE UNCHANGED <<results, pick, editor>>
    BY <2>1, EditorSame DEF IInv, TypeOK
  <2>2. CASE results' = t.attrs /\ pick' = NoEntry /\ LoadNone
    BY <2>2, <1>3, LoadNoneOK DEF MaybeEntry
  <2>3. ASSUME t.ok, results' = t.attrs,
               NEW e \in t.of.matching,
               pick' = e, LoadNode(e, t.attrs[e])
        PROVE  EditorOK' /\ results' \in Hits /\ pick' \in MaybeEntry
    <3>1. e \in Entry /\ t.attrs[e] \in Attrs
      BY <1>2, <1>3, <2>3, HitsIs DEF TaskOK
    <3> QED BY <1>3, <2>3, <3>1, LoadNodeOK DEF MaybeEntry
  <2> QED BY <2>1, <2>2, <2>3 DEF SearchDone
<1> QED
  BY <1>1, <1>4, BrowseKeeps DEF SearchDone, IInv, TypeOK, Tree, bounds

-----------------------------------------------------------------------------
LEMMA InitIInv == Init => IInv
<1> SUFFICES ASSUME Init PROVE IInv
  OBVIOUS
<1>1. rows \in Some(Row) /\ DOMAIN rows = {}
  <2>1. rows \in [{} -> Row] /\ DOMAIN rows = {}
    BY DEF Init
  <2> QED BY <2>1, SomeMember
<1>2. DOMAIN tasks = {}
  BY DEF Init, EmptyBag, SetToBag
<1> QED
  BY <1>1, <1>2, NoHitsType, NoAttrsType
     DEF Init, IInv, TypeOK, TasksOK, RowsOfLoaded, MaybeEntry, NewRow

LEMMA UserKeeps == ASSUME IInv, User PROVE IInv'
<1>1. CASE Load
  BY <1>1, LoadKeeps
<1>2. CASE StopSearch
  BY <1>2, StopSearchKeeps
<1>3. CASE Save
  BY <1>3, SaveKeeps
<1>4. CASE TrashNew
  BY <1>4, NewRowKeeps DEF TrashNew, NewRow
<1>5. CASE \E e \in Entry : Expand(e) \/ Select(e) \/ Pick(e)
  BY <1>5, ExpandKeeps, SelectKeeps
<1>6. CASE \E matching \in SUBSET Entry : Search(matching)
  BY <1>6, SearchKeeps
<1>7. CASE \E a \in Attr : Mark(a)
  BY <1>7, MarkKeeps
<1>8. CASE \E a \in Attr, text \in Values, twice \in BOOLEAN :
              Type(a, text, twice)
  BY <1>8, TypeKeeps
<1>9. ASSUME NEW a \in Attr, NEW text \in Values, FillNew(a, text)
      PROVE  IInv'
  <2>1. [attr |-> a, text |-> text] \in NewRow
    BY DEF NewRow
  <2> QED BY <1>9, <2>1, NewRowKeeps DEF FillNew
<1>10. CASE LoadWithoutBase
  BY <1>10, LoadWithoutBaseKeeps
<1> QED
  BY <1>1, <1>2, <1>3, <1>4, <1>5, <1>6, <1>7, <1>8, <1>9, <1>10 DEF User

LEMMA NextIInv == IInv /\ [Next]_vars => IInv'
<1> SUFFICES ASSUME IInv, [Next]_vars PROVE IInv'
  OBVIOUS
<1>1. CASE User
  BY <1>1, UserKeeps
<1>2. ASSUME NEW t \in DOMAIN tasks, Worker(t) PROVE IInv'
  BY <1>2, WorkersKeep
<1>3. ASSUME NEW t \in DOMAIN tasks, Callback(t) PROVE IInv'
  BY <1>3, SaveDoneKeeps, RefreshedKeeps, RootLoadedKeeps,
     ChildrenLoadedKeeps, SearchDoneKeeps DEF Callback
<1>4. CASE UNCHANGED vars
  <2>1. UNCHANGED <<dir, browse, editor, tasks, bounds, undefined>>
    BY <1>4 DEF vars
  <2>2. TasksOK'
    BY <2>1 DEF IInv, TasksOK, TaskOK
  <2>3. EditorOK'
    BY <2>1, EditorSame
  <2> QED
    BY <2>1, <2>2, <2>3, BrowseKeeps DEF IInv, TypeOK, Tree, browse, bounds
<1> QED BY <1>1, <1>2, <1>3, <1>4 DEF Next

-----------------------------------------------------------------------------
(* An entry is in the tree once. *)

LEMMA BagCounts ==
    ASSUME NEW B, NEW x
    PROVE  /\ \A y \in DOMAIN B \ {x} :
                 BagAdd(B, x)[y] = B[y]
           /\ x \notin DOMAIN B => BagAdd(B, x)[x] = 1
           /\ \A y \in DOMAIN B \ {x} :
                 y \in DOMAIN BagRemove(B, x) /\ BagRemove(B, x)[y] = B[y]
           /\ x \in DOMAIN B /\ B[x] = 1 => x \notin DOMAIN BagRemove(B, x)
<1>1. \A y \in DOMAIN B \ {x} : BagAdd(B, x)[y] = B[y]
  BY DEF BagAdd
<1>2. x \notin DOMAIN B => BagAdd(B, x)[x] = 1
  BY DEF BagAdd
<1>3. \A y \in DOMAIN B \ {x} :
         y \in DOMAIN BagRemove(B, x) /\ BagRemove(B, x)[y] = B[y]
  <2>1. CASE x \notin DOMAIN B
    BY <2>1 DEF BagRemove
  <2>2. CASE x \in DOMAIN B /\ B[x] = 1
    BY <2>2 DEF BagRemove
  <2>3. CASE x \in DOMAIN B /\ B[x] # 1
    BY <2>3 DEF BagRemove
  <2> QED BY <2>1, <2>2, <2>3
<1>4. x \in DOMAIN B /\ B[x] = 1 => x \notin DOMAIN BagRemove(B, x)
  BY DEF BagRemove
<1> QED BY <1>1, <1>2, <1>3, <1>4

LEMMA NoneAsked ==
    ASSUME TypeOK, TwinsInv, NEW e \in Entry, ~tree[e].asked
    PROVE  \A t \in Current : t.of.dn # e
BY DEF TwinsInv, AskedOnce

(* The calls change, the tree does not: a call that asks for children is   *)
(* one that was there, under the same entry.                               *)
LEMMA TreeStays ==
    ASSUME TwinsInv, UNCHANGED <<tree, gen>>,
           \A t \in DOMAIN tasks' : t \in DOMAIN tasks \/ CallOK(t),
           \A t \in Current' : t \in Current /\ tasks'[t] = tasks[t]
    PROVE  TwinsInv'
<1>1. NodesOnce'
  BY DEF TwinsInv, NodesOnce, NoneBelow
<1>2. CallsOK'
  BY DEF TwinsInv, CallsOK, CallOK
<1>3. AskedOnce'
  BY DEF TwinsInv, AskedOnce, NoneBelow
<1> QED BY <1>1, <1>2, <1>3 DEF TwinsInv

LEMMA NoCallChanged ==
    ASSUME TwinsInv, UNCHANGED <<tree, gen, tasks>>
    PROVE  TwinsInv'
BY TreeStays DEF Current

LEMMA OtherCallMade ==
    ASSUME TwinsInv, UNCHANGED <<tree, gen>>, NEW t, CallOK(t),
           t.of.op # "children", tasks' = BagAdd(tasks, t)
    PROVE  TwinsInv'
<1>1. DOMAIN tasks' = DOMAIN tasks \cup {t}
  <2>1. DOMAIN BagAdd(tasks, t) = DOMAIN tasks \cup {t}
    BY BagDomains
  <2> QED BY <2>1
<1>2. \A u \in Current' : u \in Current /\ tasks'[u] = tasks[u]
  BY <1>1, BagCounts DEF Current
<1> QED BY <1>1, <1>2, TreeStays

(* A call that asks for no children of this tree is gone. *)
LEMMA Removed ==
    ASSUME NEW t, t \notin Current
    PROVE  \A u : /\ u \in DOMAIN BagRemove(tasks, t)
                  /\ u.of.op = "children" /\ u.of.gen = gen
                  => u \in Current /\ BagRemove(tasks, t)[u] = tasks[u]
<1>1. DOMAIN BagRemove(tasks, t) \subseteq DOMAIN tasks
  BY BagDomains
<1>2. \A u \in DOMAIN tasks \ {t} : BagRemove(tasks, t)[u] = tasks[u]
  BY BagCounts
<1> QED BY <1>1, <1>2 DEF Current

LEMMA OtherCallDone ==
    ASSUME TwinsInv, UNCHANGED <<tree, gen>>, NEW t, t \notin Current,
           tasks' = Drop(t)
    PROVE  TwinsInv'
<1>1. DOMAIN tasks' \subseteq DOMAIN tasks
  BY BagDomains DEF Drop
<1>2. \A u \in Current' : u \in Current /\ tasks'[u] = tasks[u]
  BY Removed DEF Current, Drop
<1> QED BY <1>1, <1>2, TreeStays

LEMMA OtherCallReplaced ==
    ASSUME TwinsInv, UNCHANGED <<tree, gen>>, NEW t, t \notin Current,
           NEW u, CallOK(u),
           ~(u.of.op = "children" /\ u.of.gen = gen),
           tasks' = BagAdd(BagRemove(tasks, t), u)
    PROVE  TwinsInv'
<1> DEFINE B == BagRemove(tasks, t)
<1>1. /\ DOMAIN B \subseteq DOMAIN tasks
      /\ DOMAIN BagAdd(B, u) = DOMAIN B \cup {u}
      /\ \A y \in DOMAIN B \ {u} : BagAdd(B, u)[y] = B[y]
  <2>1. DOMAIN B \subseteq DOMAIN tasks
    BY BagDomains
  <2>2. DOMAIN BagAdd(B, u) = DOMAIN B \cup {u}
    BY BagDomains
  <2>3. \A y \in DOMAIN B \ {u} : BagAdd(B, u)[y] = B[y]
    BY BagCounts
  <2> QED BY <2>1, <2>2, <2>3
<1>2. \A y : y \in DOMAIN B /\ y.of.op = "children" /\ y.of.gen = gen
             => y \in Current /\ B[y] = tasks[y]
  BY Removed
<1>3. tasks' = BagAdd(B, u)
  OBVIOUS
<1> HIDE DEF B
<1>4. DOMAIN tasks' \subseteq DOMAIN tasks \cup {u}
  BY <1>1, <1>3
<1>5. ASSUME NEW y \in Current' PROVE y \in Current /\ tasks'[y] = tasks[y]
  <2>1. y \in DOMAIN tasks' /\ y.of.op = "children" /\ y.of.gen = gen
    BY <1>5 DEF Current
  <2>2. y \in DOMAIN B \ {u}
    BY <1>1, <1>3, <2>1
  <2>3. tasks'[y] = B[y]
    BY <1>1, <1>3, <2>2
  <2> QED BY <1>2, <2>1, <2>2, <2>3
<1> QED BY <1>4, <1>5, TreeStays

(* A worker answers: the call goes on under the same entry. *)
LEMMA AnswerKeepsTwins ==
    ASSUME TwinsInv, UNCHANGED <<tree, gen>>, NEW t \in DOMAIN tasks,
           t.step = "queued", NEW ok, NEW attrs,
           t.of.op = "children" => DOMAIN attrs \subseteq Kids(t.of.dn),
           tasks' = Answer(t, ok, attrs)
    PROVE  TwinsInv'
<1> DEFINE u == [step |-> "done", of |-> t.of, ok |-> ok, attrs |-> attrs]
           B == BagRemove(tasks, t)
<1>1. tasks' = BagAdd(B, u)
  BY DEF Answer
<1>2. CallOK(u)
  BY DEF TwinsInv, CallsOK, CallOK
<1>3. u.of = t.of /\ u.step = "done"
  OBVIOUS
<1> HIDE DEF u
<1>4. CASE t \notin Current
  BY <1>1, <1>2, <1>3, <1>4, OtherCallReplaced DEF Current
<1>5. CASE t \in Current
  <2>1. /\ tasks[t] = 1 /\ tree[t.of.dn].asked /\ NoneBelow(t.of.dn)
        /\ \A y \in Current : y.of.dn = t.of.dn => y = t
    BY <1>5 DEF TwinsInv, AskedOnce
  <2>2. u # t
    BY <1>3
  <2>3. u.of.op = "children" /\ u.of.gen = gen
    BY <1>3, <1>5 DEF Current
  <2>4. u \notin DOMAIN tasks
    <3>1. u \in DOMAIN tasks => u \in Current
      BY <2>3 DEF Current
    <3> QED BY <1>3, <2>1, <2>2, <3>1
  <2>5. /\ DOMAIN B \subseteq DOMAIN tasks /\ t \notin DOMAIN B
        /\ \A y \in DOMAIN tasks \ {t} : B[y] = tasks[y]
    <3>1. DOMAIN B \subseteq DOMAIN tasks
      BY BagDomains
    <3>2. /\ t \in DOMAIN tasks /\ tasks[t] = 1 => t \notin DOMAIN B
          /\ \A y \in DOMAIN tasks \ {t} : B[y] = tasks[y]
      BY BagCounts
    <3> QED BY <2>1, <3>1, <3>2
  <2>6. /\ DOMAIN BagAdd(B, u) = DOMAIN B \cup {u}
        /\ \A y \in DOMAIN B \ {u} : BagAdd(B, u)[y] = B[y]
        /\ u \notin DOMAIN B => BagAdd(B, u)[u] = 1
    <3>1. DOMAIN BagAdd(B, u) = DOMAIN B \cup {u}
      BY BagDomains
    <3>2. /\ \A y \in DOMAIN B \ {u} : BagAdd(B, u)[y] = B[y]
          /\ u \notin DOMAIN B => BagAdd(B, u)[u] = 1
      BY BagCounts
    <3> QED BY <3>1, <3>2
  <2> HIDE DEF B
  <2>7. /\ DOMAIN tasks' \subseteq (DOMAIN tasks \ {t}) \cup {u}
        /\ tasks'[u] = 1
        /\ \A y \in DOMAIN tasks' \ {u} : tasks'[y] = tasks[y]
    BY <1>1, <2>4, <2>5, <2>6
  <2>8. \A y \in Current' : y = u \/ (y \in Current /\ y # t)
    BY <2>7 DEF Current
  <2>9. NodesOnce'
    BY DEF TwinsInv, NodesOnce, NoneBelow
  <2>10. CallsOK'
    BY <1>2, <2>7 DEF TwinsInv, CallsOK, CallOK
  <2>11. ASSUME NEW y \in Current'
         PROVE  /\ tasks'[y] = 1
                /\ tree'[y.of.dn].asked /\ NoneBelow(y.of.dn)'
                /\ \A z \in Current' : z.of.dn = y.of.dn => z = y
    <3>1. CASE y = u
      <4>1. \A z \in Current' : z.of.dn = y.of.dn => z = y
        BY <1>3, <2>1, <2>8, <3>1
      <4> QED BY <1>3, <2>1, <2>7, <3>1, <4>1 DEF NoneBelow
    <3>2. CASE y # u
      <4>1. y \in Current /\ y # t /\ y \in DOMAIN tasks'
        BY <2>8, <2>11, <3>2 DEF Current
      <4>2. /\ tasks[y] = 1 /\ tree[y.of.dn].asked /\ NoneBelow(y.of.dn)
            /\ \A z \in Current : z.of.dn = y.of.dn => z = y
        BY <4>1 DEF TwinsInv, AskedOnce
      <4>3. y.of.dn # t.of.dn
        BY <2>1, <4>1
      <4>4. \A z \in Current' : z.of.dn = y.of.dn => z = y
        BY <1>3, <2>8, <4>2, <4>3
      <4> QED BY <2>7, <3>2, <4>1, <4>2, <4>4 DEF NoneBelow
    <3> QED BY <3>1, <3>2
  <2>12. AskedOnce'
    BY <2>11 DEF AskedOnce
  <2> QED BY <2>9, <2>10, <2>12 DEF TwinsInv
<1> QED BY <1>4, <1>5

LEMMA WorkerKeepsTwins ==
    ASSUME IInv, TwinsInv, NEW t \in DOMAIN tasks, Worker(t)
    PROVE  TwinsInv'
<1>1. UNCHANGED <<tree, gen>> /\ t.step = "queued"
  BY DEF Worker, Fail, ReadChildren, ReadAttrs, FindMatching, Reads, Modify,
     browse
<1>2. CASE Fail(t)
  <2>1. tasks' = Answer(t, FALSE, NoHits) /\ DOMAIN NoHits = {}
    BY <1>2 DEF Fail, NoHits
  <2> QED BY <1>1, <2>1, AnswerKeepsTwins
<1>3. ASSUME NEW ops, NEW found, Reads(t, ops, found),
             t.of.op = "children" => found = Kids(t.of.dn)
      PROVE  TwinsInv'
  <2> DEFINE attrs == [e \in found |-> dir[e]]
  <2>1. tasks' = Answer(t, TRUE, attrs) /\ DOMAIN attrs = found
    BY <1>3 DEF Reads
  <2> HIDE DEF attrs
  <2> QED BY <1>1, <1>3, <2>1, AnswerKeepsTwins
<1>4. CASE ReadChildren(t)
  BY <1>3, <1>4 DEF ReadChildren
<1>5. CASE ReadAttrs(t)
  BY <1>3, <1>5 DEF ReadAttrs, Reads
<1>6. CASE FindMatching(t)
  BY <1>3, <1>6 DEF FindMatching, Reads
<1>7. CASE Modify(t)
  <2>1. PICK ok \in BOOLEAN : tasks' = Answer(t, ok, NoHits)
    BY <1>7 DEF Modify
  <2>2. t.of.op # "children"
    BY <1>7 DEF Modify
  <2> QED BY <1>1, <2>1, <2>2, AnswerKeepsTwins
<1> QED BY <1>2, <1>4, <1>5, <1>6, <1>7 DEF Worker

-----------------------------------------------------------------------------
(* The steps that change the tree. *)

LEMMA LoadKeepsTwins == ASSUME IInv, TwinsInv, Load PROVE TwinsInv'
<1>1. PICK u : /\ tasks' = BagAdd(tasks, u)
               /\ u.step = "queued" /\ u.of.op = "root" /\ u.of.gen = gen'
  BY DEF Load, Ask, Asking
<1>2. gen \in Nat /\ gen' = gen + 1
  BY DEF Load, IInv, TypeOK
<1>3. DOMAIN tasks' = DOMAIN tasks \cup {u}
  <2>1. DOMAIN BagAdd(tasks, u) = DOMAIN tasks \cup {u}
    BY BagDomains
  <2> QED BY <1>1, <2>1
<1>4. ASSUME NEW t \in DOMAIN tasks
      PROVE  CallOK(t)' /\ ~(t.of.op = "children" /\ t.of.gen = gen')
  <2>1. TaskOK(t) /\ CallOK(t)
    BY DEF IInv, TasksOK, TwinsInv, CallsOK
  <2>2. t.of.op # "modify" => t.of.gen \in Nat /\ t.of.gen <= gen
    BY <2>1, OfType DEF Question, CallOK
  <2>3. t.of.op # "modify" => t.of.gen < gen'
    BY <1>2, <2>2
  <2>4. t.of.op # "modify" => t.of.gen <= gen' /\ t.of.gen # gen'
    BY <1>2, <2>2, <2>3
  <2> QED BY <2>1, <2>4 DEF CallOK
<1>5. CallOK(u)'
  <2>1. u.of.gen <= gen'
    BY <1>1, <1>2
  <2> QED BY <1>1, <2>1 DEF CallOK
<1>7. CallsOK' /\ Current' = {}
  BY <1>1, <1>3, <1>4, <1>5 DEF CallsOK, Current
<1>8. tree' = [e \in Entry |-> [n |-> IF e = Root THEN 1 ELSE 0,
                                attrs |-> NoAttrs, asked |-> FALSE]]
  BY DEF Load
<1>9. NodesOnce'
  BY <1>8 DEF NodesOnce, NoneBelow, Kids
<1> QED BY <1>7, <1>9 DEF TwinsInv, AskedOnce

LEMMA RootLoadedKeepsTwins ==
    ASSUME IInv, TwinsInv, NEW t \in DOMAIN tasks, RootLoaded(t)
    PROVE  TwinsInv'
<1>1. t \notin Current /\ tasks' = Drop(t)
  BY DEF RootLoaded, Done, Current
<1>2. CASE UNCHANGED browse
  BY <1>1, <1>2, OtherCallDone DEF browse
<1>3. CASE UNCHANGED gen /\ tree' = [tree EXCEPT ![Root].attrs = t.attrs[Root]]
  <2>1. /\ \A e \in Entry : tree'[e].n = tree[e].n
                            /\ tree'[e].asked = tree[e].asked
        /\ tree' \in [Entry -> [n : Nat, attrs : {tree'[e].attrs : e \in Entry},
                                asked : BOOLEAN]]
    BY <1>3 DEF IInv, TypeOK
  <2>2. \A u \in Current' : u \in Current /\ tasks'[u] = tasks[u]
    BY <1>1, <1>3, Removed DEF Current, Drop
  <2>3. DOMAIN tasks' \subseteq DOMAIN tasks
    BY <1>1, BagDomains DEF Drop
  <2>4. \A e : NoneBelow(e)' <=> NoneBelow(e)
    BY <2>1 DEF NoneBelow, Kids
  <2>5. NodesOnce'
    BY <2>1, <2>4 DEF TwinsInv, NodesOnce
  <2>6. CallsOK'
    BY <1>3, <2>3 DEF TwinsInv, CallsOK, CallOK
  <2>7. \A u \in Current : u.of.dn \in Entry
    BY OfType DEF IInv, TasksOK, Current
  <2>8. AskedOnce'
    BY <2>1, <2>2, <2>4, <2>7 DEF TwinsInv, AskedOnce
  <2> QED BY <2>5, <2>6, <2>8 DEF TwinsInv
<1> QED BY <1>2, <1>3 DEF RootLoaded, ToFreedNode

LEMMA ExpandKeepsTwins ==
    ASSUME IInv, TwinsInv, NEW e \in Entry, Expand(e) PROVE TwinsInv'
<1> DEFINE u == Ask("children", e)
<1>1. tasks' = BagAdd(tasks, u) /\ UNCHANGED gen
  BY DEF Expand
<1>2. /\ u.of.op = "children" /\ u.of.gen = gen /\ u.of.dn = e
      /\ CallOK(u)
  BY DEF Ask, Asking, CallOK, IInv, TypeOK
<1> HIDE DEF u
<1>3. u \notin DOMAIN tasks /\ \A t \in Current : t.of.dn # e
  BY <1>2, NoneAsked DEF Expand, Current, IInv
<1>4. /\ DOMAIN tasks' = DOMAIN tasks \cup {u}
      /\ tasks'[u] = 1
      /\ \A t \in DOMAIN tasks : tasks'[t] = tasks[t]
  <2>1. /\ DOMAIN BagAdd(tasks, u) = DOMAIN tasks \cup {u}
        /\ u \notin DOMAIN tasks => BagAdd(tasks, u)[u] = 1
        /\ \A t \in DOMAIN tasks \ {u} : BagAdd(tasks, u)[t] = tasks[t]
    BY BagDomains, BagCounts
  <2> QED BY <1>1, <1>3, <2>1
<1>5. /\ \A x \in Entry : tree'[x].n = tree[x].n
      /\ \A x \in Entry \ {e} : tree'[x].asked = tree[x].asked
      /\ tree'[e].asked
  <2>1. tree' = [tree EXCEPT ![e].asked = TRUE]
    BY DEF Expand
  <2> QED BY <2>1 DEF IInv, TypeOK
<1>6. \A x : NoneBelow(x)' <=> NoneBelow(x)
  BY <1>5 DEF NoneBelow, Kids
<1>7. tree[e].n # 0 /\ NoneBelow(e)
  BY DEF Expand, TwinsInv, NodesOnce, IInv, TypeOK
<1>8. NodesOnce'
  BY <1>5, <1>6, <1>7 DEF TwinsInv, NodesOnce
<1>9. CallsOK'
  BY <1>1, <1>2, <1>4 DEF TwinsInv, CallsOK, CallOK
<1>10. Current' = Current \cup {u}
  BY <1>1, <1>2, <1>4 DEF Current
<1>11. \A t \in Current : t.of.dn \in Entry \ {e} /\ t \in DOMAIN tasks
  BY <1>3, OfType DEF IInv, TasksOK, Current
<1>12. AskedOnce'
  BY <1>2, <1>4, <1>5, <1>6, <1>7, <1>10, <1>11 DEF TwinsInv, AskedOnce
<1> QED BY <1>8, <1>9, <1>12 DEF TwinsInv

LEMMA ChildrenLoadedKeepsTwins ==
    ASSUME IInv, TwinsInv, NEW t \in DOMAIN tasks, ChildrenLoaded(t)
    PROVE  TwinsInv'
<1>1. t.step = "done" /\ t.of.op = "children" /\ tasks' = Drop(t)
  BY DEF ChildrenLoaded, Done
<1>2. CASE ToFreedNode(t)
  BY <1>1, <1>2, OtherCallDone DEF ToFreedNode, Current, browse
<1>3. CASE t.of.gen = gen
  <2> DEFINE dn == t.of.dn
             new == DOMAIN t.attrs
  <2>1. t \in Current /\ dn \in Entry
    BY <1>1, <1>3, OfType DEF Current, IInv, TasksOK
  <2>2. tree[dn].asked /\ NoneBelow(dn) /\ tasks[t] = 1
        /\ \A u \in Current : u.of.dn = dn => u = t
    BY <2>1 DEF TwinsInv, AskedOnce
  <2>3. new \subseteq Kids(dn)
    BY <1>1 DEF TwinsInv, CallsOK, CallOK
  <2>4. UNCHANGED gen
        /\ tree' = [e \in Entry |->
                      IF e = dn THEN [tree[e] EXCEPT !.asked = TRUE]
                      ELSE IF e \in new
                           THEN [n |-> tree[e].n + 1, attrs |-> t.attrs[e],
                                 asked |-> FALSE]
                           ELSE tree[e]]
    BY <1>3 DEF ChildrenLoaded, ToFreedNode
  <2> HIDE DEF new, dn
  <2>5. dn \notin Kids(dn)
    BY <2>1, <2>2 DEF TwinsInv, NodesOnce, NoneBelow
  <2>6. tree[dn] \in [n : Nat, attrs : Attrs, asked : BOOLEAN]
    BY <2>1 DEF IInv, TypeOK
  <2>7. /\ tree'[dn].n = tree[dn].n /\ tree'[dn].asked
        /\ \A e \in Entry \ ({dn} \cup new) : tree'[e] = tree[e]
        /\ \A e \in new : e \in Entry /\ tree[e].n = 0 /\ ~tree[e].asked
                          /\ tree'[e].n = 1 /\ ~tree'[e].asked
    <3>1. tree'[dn].n = tree[dn].n /\ tree'[dn].asked
      BY <2>1, <2>4, <2>6
    <3>2. \A e \in Entry \ ({dn} \cup new) : tree'[e] = tree[e]
      BY <2>4
    <3>3. ASSUME NEW e \in new
          PROVE  e \in Entry /\ tree[e].n = 0 /\ ~tree[e].asked
                 /\ tree'[e].n = 1 /\ ~tree'[e].asked
      <4>1. e \in Entry /\ tree[e].n = 0 /\ e # dn
        BY <2>2, <2>3, <2>5 DEF NoneBelow, Kids
      <4>2. ~tree[e].asked
        BY <4>1 DEF TwinsInv, NodesOnce
      <4>3. tree'[e] = [n |-> tree[e].n + 1, attrs |-> t.attrs[e],
                        asked |-> FALSE]
        BY <2>4, <4>1
      <4> QED BY <4>1, <4>2, <4>3
    <3> QED BY <3>1, <3>2, <3>3
  <2>8. \A e \in Entry \ {dn} : NoneBelow(e) => NoneBelow(e)'
    <3>1. SUFFICES ASSUME NEW e \in Entry \ {dn}, NoneBelow(e),
                          NEW k \in Kids(e)
                   PROVE  tree'[k].n = 0
      BY DEF NoneBelow, Kids
    <3>2. k \notin new /\ k \in Entry /\ tree[k].n = 0
      BY <2>3, <3>1 DEF Kids, NoneBelow
    <3> QED BY <2>7, <3>2
  <2>9. NodesOnce'
    <3>1. SUFFICES ASSUME NEW e \in Entry
                   PROVE  /\ tree'[e].n \in {0, 1}
                          /\ tree'[e].n = 0 => ~tree'[e].asked
                          /\ ~tree'[e].asked => NoneBelow(e)'
      BY DEF NodesOnce
    <3>2. /\ tree[e].n \in {0, 1}
          /\ tree[e].n = 0 => ~tree[e].asked
          /\ ~tree[e].asked => NoneBelow(e)
      BY DEF TwinsInv, NodesOnce
    <3>3. CASE e = dn
      BY <2>2, <2>7, <3>2, <3>3
    <3>4. CASE e \in new
      BY <2>3, <2>5, <2>7, <2>8, <3>2, <3>4
    <3>5. CASE e \notin new /\ e # dn
      BY <2>7, <2>8, <3>2, <3>5
    <3> QED BY <3>3, <3>4, <3>5
  <2>10. /\ DOMAIN tasks' \subseteq DOMAIN tasks \ {t}
         /\ \A u \in DOMAIN tasks' : tasks'[u] = tasks[u]
    <3>1. /\ DOMAIN BagRemove(tasks, t) \subseteq DOMAIN tasks
          /\ t \notin DOMAIN BagRemove(tasks, t)
          /\ \A u \in DOMAIN tasks \ {t} :
                BagRemove(tasks, t)[u] = tasks[u]
      <4>1. DOMAIN BagRemove(tasks, t) \subseteq DOMAIN tasks
        BY BagDomains
      <4>2. /\ t \in DOMAIN tasks /\ tasks[t] = 1
                 => t \notin DOMAIN BagRemove(tasks, t)
            /\ \A u \in DOMAIN tasks \ {t} :
                  BagRemove(tasks, t)[u] = tasks[u]
        BY BagCounts
      <4> QED BY <2>2, <4>1, <4>2
    <3> QED BY <1>1, <3>1 DEF Drop
  <2>11. CallsOK'
    BY <2>4, <2>10 DEF TwinsInv, CallsOK, CallOK
  <2>12. AskedOnce'
    <3>1. Current' \subseteq Current \ {t}
      BY <2>4, <2>10 DEF Current
    <3>2. SUFFICES ASSUME NEW u \in Current'
                   PROVE  /\ tasks'[u] = 1
                          /\ tree'[u.of.dn].asked /\ NoneBelow(u.of.dn)'
      BY <3>1 DEF AskedOnce, TwinsInv
    <3>3. u \in Current /\ u \in DOMAIN tasks' /\ u.of.dn # dn
      BY <2>2, <3>1 DEF Current
    <3>4. tasks[u] = 1 /\ tree[u.of.dn].asked /\ NoneBelow(u.of.dn)
      BY <3>3 DEF TwinsInv, AskedOnce
    <3>5. u.of.dn \in Entry
      BY <3>3, OfType DEF Current, IInv, TasksOK
    <3>6. u.of.dn \notin new
      BY <2>7, <3>4
    <3> QED BY <2>7, <2>8, <2>10, <3>3, <3>4, <3>5, <3>6
  <2> QED BY <2>9, <2>11, <2>12 DEF TwinsInv
<1> QED BY <1>2, <1>3 DEF ChildrenLoaded

-----------------------------------------------------------------------------
LEMMA UserKeepsTwins == ASSUME IInv, TwinsInv, User PROVE TwinsInv'
<1>1. CASE Load
  BY <1>1, LoadKeepsTwins
<1>2. ASSUME NEW e \in Entry, Expand(e) PROVE TwinsInv'
  BY <1>2, ExpandKeepsTwins
<1>3. CASE Save
  <2> DEFINE u == [step |-> "queued",
                   of |-> [op |-> "modify", dn |-> loaded_dn,
                           mods |-> Mods(loaded_attrs, rows),
                           add |-> [a \in Attr |->
                                      IF added # NoRow /\ added.attr = a
                                      THEN Pieces(added.text) ELSE {}]]]
  <2>1. tasks' = BagAdd(tasks, u) /\ UNCHANGED <<tree, gen>>
    BY <1>3 DEF Save, browse
  <2>2. CallOK(u) /\ u.of.op # "children"
    BY DEF CallOK
  <2> HIDE DEF u
  <2> QED BY <2>1, <2>2, OtherCallMade
<1>4. ASSUME NEW matching \in SUBSET Entry, Search(matching) PROVE TwinsInv'
  <2> DEFINE u == Asking("search", Root, matching)
  <2>1. tasks' = BagAdd(tasks, u) /\ UNCHANGED <<tree, gen>>
    BY <1>4 DEF Search
  <2>2. CallOK(u) /\ u.of.op # "children"
    BY DEF CallOK, Asking, IInv, TypeOK
  <2> HIDE DEF u
  <2> QED BY <2>1, <2>2, OtherCallMade
<1>5. CASE \/ StopSearch \/ TrashNew \/ LoadWithoutBase
           \/ \E e \in Entry : Select(e) \/ Pick(e)
           \/ \E a \in Attr : Mark(a)
           \/ \E a \in Attr, text \in Values :
                 FillNew(a, text) \/ \E twice \in BOOLEAN : Type(a, text, twice)
  <2>1. UNCHANGED <<tree, gen, tasks>>
    BY <1>5 DEF StopSearch, TrashNew, LoadWithoutBase, Select, Pick, Mark,
       Type, FillNew, Edit, browse
  <2> QED BY <2>1, NoCallChanged
<1> QED BY <1>1, <1>2, <1>3, <1>4, <1>5 DEF User

LEMMA CallbackKeepsTwins ==
    ASSUME IInv, TwinsInv, NEW t \in DOMAIN tasks, Callback(t)
    PROVE  TwinsInv'
<1>1. CASE SaveDone(t)
  <2> DEFINE u == Ask("refresh", loaded_dn)
  <2>1. t \notin Current /\ UNCHANGED <<tree, gen>>
    BY <1>1 DEF SaveDone, Done, Current, browse
  <2>2. CallOK(u) /\ u.of.op = "refresh"
    BY DEF CallOK, Ask, Asking, IInv, TypeOK
  <2>3. tasks' = Drop(t) \/ tasks' = BagAdd(BagRemove(tasks, t), u)
    BY <1>1 DEF SaveDone, Drop
  <2> HIDE DEF u
  <2> QED BY <2>1, <2>2, <2>3, OtherCallDone, OtherCallReplaced
<1>2. CASE Refreshed(t) \/ SearchDone(t)
  <2>1. t \notin Current /\ tasks' = Drop(t) /\ UNCHANGED <<tree, gen>>
    BY <1>2 DEF Refreshed, SearchDone, Done, Current, browse
  <2> QED BY <2>1, OtherCallDone
<1>3. CASE RootLoaded(t)
  BY <1>3, RootLoadedKeepsTwins
<1>4. CASE ChildrenLoaded(t)
  BY <1>4, ChildrenLoadedKeepsTwins
<1> QED BY <1>1, <1>2, <1>3, <1>4 DEF Callback

LEMMA InitTwins == Init => TwinsInv
<1> SUFFICES ASSUME Init PROVE TwinsInv
  OBVIOUS
<1>1. DOMAIN tasks = {}
  BY DEF Init, EmptyBag, SetToBag
<1>2. NodesOnce
  BY DEF Init, NodesOnce, NoneBelow, Kids
<1> QED BY <1>1, <1>2 DEF TwinsInv, AskedOnce, Current, CallsOK

LEMMA NextTwins == IInv /\ TwinsInv /\ [Next]_vars => TwinsInv'
<1> SUFFICES ASSUME IInv, TwinsInv, [Next]_vars PROVE TwinsInv'
  OBVIOUS
<1>1. CASE UNCHANGED vars
  BY <1>1, NoCallChanged DEF vars, browse
<1> QED
  BY <1>1, UserKeepsTwins, WorkerKeepsTwins, CallbackKeepsTwins DEF Next

(* The browser's variables keep their types, whatever is in flight. *)
THEOREM TypeCorrect == Spec => []TypeOK
<1>1. IInv => TypeOK
  BY DEF IInv
<1> QED BY <1>1, InitIInv, NextIInv, PTL DEF Spec

(* If split_values keeps every value, what Save Changes would write to the *)
(* entry loaded is what was typed or marked while it was loaded, in every  *)
(* directory and with any number of calls in flight.                       *)
THEOREM WritesOnlyTypedHolds == ASSUME Plain PROVE Spec => []WritesOnlyTyped
<1>1. IInv => WritesOnlyTyped
  <2> SUFFICES ASSUME IInv, loaded_dn # NoEntry,
                      NEW a \in Changed(loaded_attrs, rows)
               PROVE  rows[a].typed = loaded_dn
    BY DEF WritesOnlyTyped
  <2>1. a \in DOMAIN rows
    BY DEF Changed
  <2>2. rows[a].text \in Values
    <3>1. rows[a] \in Row
      BY <2>1, SomeIs DEF IInv, TypeOK
    <3> QED BY <3>1 DEF Row
  <2>3. Pieces(rows[a].text) = rows[a].text
    BY <2>2, PiecesPlain
  <2>4. RowOf(rows[a], loaded_attrs[a])
    BY <2>1 DEF IInv, RowsOfLoaded
  <2> QED BY <2>3, <2>4 DEF Changed, RowOf
<1> QED BY <1>1, InitIInv, NextIInv, PTL DEF Spec

(* An entry is in the tree once, whatever tree the directory holds and     *)
(* however the calls for children, the reloads and the answers follow each *)
(* other.                                                                  *)
THEOREM TwinsHold == Spec => []NoTwins
<1>1. TwinsInv => NoTwins
  <2>1. SUFFICES ASSUME TwinsInv, NEW e \in Entry PROVE tree[e].n <= 1
    BY DEF NoTwins
  <2>2. tree[e].n \in {0, 1}
    BY <2>1 DEF TwinsInv, NodesOnce
  <2> QED BY <2>2
<1> QED BY <1>1, InitIInv, NextIInv, InitTwins, NextTwins, PTL DEF Spec
=============================================================================
