---------------------------- MODULE SbvLdapBrowser ----------------------------
(***************************************************************************)
(* The LDAP browser (src/src/ui/sbv-ldap-panel.c): the tree whose children *)
(* are asked for when a row is shown, the filter search, and the editor of *)
(* the attributes of one entry.  The workers (sbv-ldap-browse.c) reach the *)
(* directory at one moment between the call and the callback; callbacks    *)
(* come in any order.  The directory keeps its entries; their attributes   *)
(* change.  Every connection the panel is loaded with is to it.            *)
(***************************************************************************)
EXTENDS Naturals, Bags, BagsExt

CONSTANTS
    Entry, NoEntry,
    Root,        \* the entry with the base DN
    ParentOf,    \* the entry above each of the others
    Attr, NoAttr, Value,
    Parts,       \* what split_values makes of the text of a value
    MaxLoads,    \* bound: connections the panel is loaded with
    MaxAsks,     \* bound: loads, and calls started by the user
    MaxEdits     \* bound: edits in the rows of the editor

ASSUME BrowserAssumption ==
    /\ NoEntry \notin Entry /\ Root \in Entry
    /\ ParentOf \in [Entry \ {Root} -> Entry]
    /\ Parts \in [Value -> SUBSET Value]
    /\ NoAttr \notin Attr
    /\ {MaxLoads, MaxAsks, MaxEdits} \subseteq Nat

VARIABLES
    dir,       \* the values of the attributes on the domain controller
    tree,      \* nodes of each entry in the tree, their attributes, and
               \*   whether their children were asked for
    gen,       \* how often the panel was loaded
    split,     \* outer_stack shows the tree and the editor
    left,      \* the page on the left
    sel,       \* the row selected in the tree
    results,   \* the hits of a search with their attributes
    pick,      \* the hit selected
    loaded_dn,
    loaded_attrs,
    rows,      \* attr_rows of existing attributes: the text as the values
               \*   listed in it and whether it lists one twice,
               \*   marked_delete, and the entry that was loaded when the
               \*   row was last edited
    added,     \* a new row with its name and value filled in
    save_btn,  \* it is sensitive
    tasks,     \* a bag: calls in flight
    asks, edits,
    undefined  \* a freed node was used

browse == <<tree, gen, split, left, sel, results, pick>>
pane == <<loaded_dn, loaded_attrs, rows, added>>
editor == <<pane, save_btn>>
bounds == <<asks, edits>>
vars == <<dir, browse, editor, tasks, bounds, undefined>>

Values == SUBSET Value
Attrs == [Attr -> Values]
NoAttrs == [a \in Attr |-> {}]
MaybeEntry == Entry \cup {NoEntry}
Hits == UNION {[E -> Attrs] : E \in SUBSET Entry}
Some(S) == UNION {[A -> S] : A \in SUBSET Attr}
NoHits == [e \in {} |-> NoAttrs]

Row == [text : Values, twice : BOOLEAN, gone : BOOLEAN, typed : MaybeEntry]
NoRow == [attr |-> NoAttr, text |-> {}]
NewRow == [attr : Attr, text : Values] \cup {NoRow}

Question == [op : {"children", "root", "search", "refresh"}, dn : Entry,
             matching : SUBSET Entry, gen : Nat]
Change == [op : {"modify"}, dn : Entry, mods : Some(Values),
           add : Attrs]
Queued == [step : {"queued"}, of : Question \cup Change]
Returned == [step : {"done"}, of : Question \cup Change, ok : BOOLEAN,
             attrs : Hits]

TypeOK ==
    /\ dir \in [Entry -> Attrs]
    /\ tree \in [Entry -> [n : Nat, attrs : Attrs, asked : BOOLEAN]]
    /\ gen \in Nat /\ split \in BOOLEAN
    /\ left \in {"tree", "results"}
    /\ sel \in MaybeEntry
    /\ results \in Hits
    /\ pick \in MaybeEntry
    /\ loaded_dn \in MaybeEntry
    /\ loaded_attrs \in Attrs
    /\ rows \in Some(Row)
    /\ added \in NewRow
    /\ save_btn \in BOOLEAN
    /\ DOMAIN tasks \subseteq Queued \cup Returned
    /\ asks \in Nat /\ edits \in Nat
    /\ undefined \in BOOLEAN

Init ==
    /\ dir \in [Entry -> Attrs]
    /\ tree = [e \in Entry |-> [n |-> 0, attrs |-> NoAttrs, asked |-> FALSE]]
    /\ gen = 0 /\ split = FALSE /\ left = "tree" /\ sel = NoEntry
    /\ results = NoHits /\ pick = NoEntry
    /\ loaded_dn = NoEntry /\ loaded_attrs = NoAttrs
    /\ rows = [a \in {} |-> {}] /\ added = NoRow /\ save_btn = FALSE
    /\ tasks = EmptyBag /\ asks = 0 /\ edits = 0 /\ undefined = FALSE

Kids(e) == {k \in Entry \ {Root} : ParentOf[k] = e}
Asking(op, e, matching) ==
    [step |-> "queued",
     of |-> [op |-> op, dn |-> e, matching |-> matching, gen |-> gen]]
Ask(op, e) == Asking(op, e, {})
MayAsk == asks < MaxAsks /\ asks' = asks + 1

-----------------------------------------------------------------------------
(* The editor. *)

(* split_values of the text in which join_values listed the values. *)
Pieces(text) == UNION {Parts[v] : v \in text}

(* rebuild_attr_rows: a row for each attribute that has values. *)
Rebuilt(attrs) ==
    [a \in {x \in Attr : attrs[x] # {}} |->
        [text |-> attrs[a], twice |-> FALSE, gone |-> FALSE,
         typed |-> NoEntry]]

(* The rows whose values differ from those loaded, or that are marked.     *)
(* values_equal_set compares how many there are as well.                   *)
Changed(attrs, R) ==
    {a \in DOMAIN R :
        R[a].gone \/ R[a].twice \/ Pieces(R[a].text) # attrs[a]}

(* What Save Changes makes of these attributes; {} deletes one. *)
Mods(attrs, R) ==
    [a \in Changed(attrs, R) |->
        IF R[a].gone THEN {} ELSE Pieces(R[a].text)]

(* editor_is_dirty *)
Dirty(attrs, R, new) ==
    new # NoRow \/ Changed(attrs, R) # {}

(* The end of the handlers that put attributes into the editor. *)
Fill(attrs) ==
    /\ loaded_attrs' = attrs
    /\ rows' = Rebuilt(attrs)
    /\ added' = NoRow
    /\ save_btn' = Dirty(attrs, Rebuilt(attrs), NoRow)

(* load_node_into_editor *)
LoadNode(e, attrs) == loaded_dn' = e /\ Fill(attrs)

(* Without a node the pane is hidden; its rows stay as they are. *)
LoadNone ==
    /\ loaded_dn' = NoEntry /\ loaded_attrs' = NoAttrs
    /\ UNCHANGED <<rows, added, save_btn>>

Edit(R, new) ==
    /\ split /\ loaded_dn # NoEntry /\ edits < MaxEdits
    /\ edits' = edits + 1
    /\ rows' = R /\ added' = new
    /\ save_btn' = Dirty(loaded_attrs, R, new)
    /\ UNCHANGED <<dir, browse, loaded_dn, loaded_attrs, tasks, asks,
                   undefined>>

(* The text of a row; the entry is insensitive in a row marked as deleted. *)
Type(a, text, twice) ==
    /\ a \in DOMAIN rows /\ ~rows[a].gone
    /\ rows[a].text # text \/ rows[a].twice # twice
    /\ twice => text # {}
    /\ Edit([rows EXCEPT ![a] = [@ EXCEPT !.text = text, !.twice = twice,
                                          !.typed = loaded_dn]], added)

(* on_attr_remove_clicked: a row is marked, or restored. *)
Mark(a) ==
    /\ a \in DOMAIN rows
    /\ Edit([rows EXCEPT ![a] = [@ EXCEPT !.gone = ~@,
                                          !.typed = loaded_dn]], added)

(* A new row counts once its name and value are there; trash removes it. *)
FillNew(a, text) ==
    /\ added = NoRow /\ text # {}
    /\ Edit(rows, [attr |-> a, text |-> text])
TrashNew == added # NoRow /\ Edit(rows, NoRow)

(* on_save_clicked; it returns early when there is nothing to modify. *)
Save ==
    /\ split /\ save_btn /\ loaded_dn # NoEntry /\ MayAsk
    /\ Changed(loaded_attrs, rows) # {} \/ Pieces(added.text) # {}
    /\ save_btn' = FALSE
    /\ tasks' = BagAdd(tasks,
         [step |-> "queued",
          of |-> [op |-> "modify", dn |-> loaded_dn,
                  mods |-> Mods(loaded_attrs, rows),
                  add |-> [a \in Attr |-> IF added # NoRow /\ added.attr = a
                                          THEN Pieces(added.text) ELSE {}]]])
    /\ UNCHANGED <<dir, browse, pane, edits, undefined>>

-----------------------------------------------------------------------------
(* The workers. *)

Answer(t, ok, attrs) ==
    BagAdd(BagRemove(tasks, t),
           [step |-> "done", of |-> t.of, ok |-> ok, attrs |-> attrs])

(* Faulty: a worker that could not read returns nothing to its task. *)
FailSilently(t) ==
    /\ t.step = "queued"
    /\ tasks' = BagAdd(BagRemove(tasks, t), [t EXCEPT !.step = "lost"])
    /\ UNCHANGED <<dir, browse, editor, bounds, undefined>>

(* No handle, a time limit, a refusal of the domain controller. *)
Fail(t) ==
    /\ t.step = "queued"
    /\ tasks' = Answer(t, FALSE, NoHits)
    /\ UNCHANGED <<dir, browse, editor, bounds, undefined>>

Reads(t, ops, found) ==
    /\ t.step = "queued" /\ t.of.op \in ops
    /\ tasks' = Answer(t, TRUE, [e \in found |-> dir[e]])
    /\ UNCHANGED <<dir, browse, editor, bounds, undefined>>

(* children_thread: the entries one level below. *)
ReadChildren(t) == Reads(t, {"children"}, Kids(t.of.dn))

(* attrs_thread: the entry itself. *)
ReadAttrs(t) == Reads(t, {"root", "refresh"}, {t.of.dn})

(* search_thread: up to 500 entries that match the filter. *)
FindMatching(t) == Reads(t, {"search"}, t.of.matching)

(* modify_thread: all modifications, in their order, or none.  What was    *)
(* done may still count as failed, when the answer is lost.                *)
Modify(t) ==
    /\ t.step = "queued" /\ t.of.op = "modify"
    /\ dir' = [dir EXCEPT ![t.of.dn] = [a \in Attr |->
                 t.of.add[a] \cup IF a \in DOMAIN t.of.mods
                                  THEN t.of.mods[a] ELSE @[a]]]
    /\ \E ok \in BOOLEAN : tasks' = Answer(t, ok, NoHits)
    /\ UNCHANGED <<browse, editor, bounds, undefined>>

-----------------------------------------------------------------------------
(* The end of a save. *)

Done(t, op) == t.step = "done" /\ t.of.op = op
Drop(t) == BagRemove(tasks, t)

(* Faulty: the button is made sensitive on success only. *)
SaveDoneIfOk(t) ==
    /\ Done(t, "modify")
    /\ save_btn' = t.ok
    /\ tasks' = Drop(t)
    /\ UNCHANGED <<dir, browse, pane, bounds, undefined>>

(* on_save_done: the entry that is loaded by now is read again. *)
SaveDone(t) ==
    /\ Done(t, "modify")
    /\ save_btn' = TRUE
    /\ tasks' = IF t.ok /\ loaded_dn # NoEntry
                THEN BagAdd(Drop(t), Ask("refresh", loaded_dn))
                ELSE Drop(t)
    /\ UNCHANGED <<dir, browse, pane, bounds, undefined>>

(* Faulty: the rows are not built anew. *)
RefreshedRowsStay(t) ==
    /\ Done(t, "refresh")
    /\ IF t.ok THEN /\ loaded_attrs' = t.attrs[t.of.dn]
                    /\ save_btn' = Dirty(loaded_attrs', rows, added)
                    /\ UNCHANGED <<loaded_dn, rows, added>>
       ELSE UNCHANGED editor
    /\ tasks' = Drop(t)
    /\ UNCHANGED <<dir, browse, bounds, undefined>>

(* on_attrs_refreshed_after_save, whichever entry is loaded by now. *)
Refreshed(t) ==
    /\ Done(t, "refresh")
    /\ IF t.ok THEN Fill(t.attrs[t.of.dn]) /\ UNCHANGED loaded_dn
       ELSE UNCHANGED editor
    /\ tasks' = Drop(t)
    /\ UNCHANGED <<dir, browse, bounds, undefined>>

-----------------------------------------------------------------------------
(* The tree. *)

(* sbv_ldap_panel_load: a root without attributes is selected, which does  *)
(* not touch the editor, and its attributes are asked for.                 *)
Load ==
    /\ gen < MaxLoads /\ MayAsk
    /\ gen' = gen + 1 /\ split' = TRUE
    /\ tree' = [e \in Entry |-> [n |-> IF e = Root THEN 1 ELSE 0,
                                 attrs |-> NoAttrs, asked |-> FALSE]]
    /\ left' = "tree" /\ sel' = Root
    /\ results' = NoHits /\ pick' = NoEntry
    /\ tasks' = BagAdd(tasks, [Ask("root", Root) EXCEPT !.of.gen = gen'])
    /\ UNCHANGED <<dir, editor, edits, undefined>>

(* A connection without a base DN leaves only the page that says so. *)
LoadWithoutBase ==
    /\ split /\ MayAsk
    /\ split' = FALSE
    /\ UNCHANGED <<dir, tree, gen, left, sel, results, pick, editor, tasks,
                   edits, undefined>>

(* The node of an answer may have been freed by another load: the write    *)
(* does harm, or goes unnoticed.                                           *)
ToFreedNode(t) ==
    /\ t.of.gen # gen
    /\ undefined' \in BOOLEAN
    /\ UNCHANGED <<browse, editor>>

(* on_root_attrs_loaded *)
RootLoaded(t) ==
    /\ Done(t, "root")
    /\ tasks' = Drop(t)
    /\ \/ t.ok /\ ToFreedNode(t)
       \/ /\ ~t.ok
          /\ UNCHANGED <<browse, editor, undefined>>
       \/ /\ t.ok /\ t.of.gen = gen
          /\ tree' = [tree EXCEPT ![Root].attrs = t.attrs[Root]]
          /\ IF sel = Root THEN LoadNode(Root, t.attrs[Root])
             ELSE UNCHANGED editor
          /\ UNCHANGED <<gen, split, left, sel, results, pick, undefined>>
    /\ UNCHANGED <<dir, bounds>>

(* Faulty: a node is marked as loaded when the answer comes. *)
ExpandUnmarked(e) ==
    /\ tree[e].n > 0 /\ ~tree[e].asked /\ MayAsk
    /\ tasks' = BagAdd(tasks, Ask("children", e))
    /\ UNCHANGED <<dir, browse, editor, edits, undefined>>

(* create_child_model, which GTK calls whenever it shows or expands a row. *)
Expand(e) ==
    /\ tree[e].n > 0 /\ ~tree[e].asked /\ MayAsk
    /\ tree' = [tree EXCEPT ![e].asked = TRUE]
    /\ tasks' = BagAdd(tasks, Ask("children", e))
    /\ UNCHANGED <<dir, gen, split, left, sel, results, pick, editor, edits,
                   undefined>>

(* on_children_loaded appends; after a failure nothing asks again. *)
ChildrenLoaded(t) ==
    /\ Done(t, "children")
    /\ tasks' = Drop(t)
    /\ \/ ToFreedNode(t)
       \/ /\ t.of.gen = gen
          /\ tree' = [e \in Entry |->
               IF e = t.of.dn THEN [tree[e] EXCEPT !.asked = TRUE]
               ELSE IF e \in DOMAIN t.attrs
                    THEN [n |-> tree[e].n + 1, attrs |-> t.attrs[e],
                          asked |-> FALSE]
                    ELSE tree[e]]
          /\ UNCHANGED <<gen, split, left, sel, results, pick, editor,
                         undefined>>
    /\ UNCHANGED <<dir, bounds>>

(* on_tree_selection_changed; the attributes are those the node came with. *)
Select(e) ==
    /\ split /\ left = "tree" /\ tree[e].n > 0 /\ sel # e
    /\ sel' = e
    /\ LoadNode(e, tree[e].attrs)
    /\ UNCHANGED <<dir, tree, gen, split, left, results, pick, tasks, bounds,
                   undefined>>

-----------------------------------------------------------------------------
(* The search. *)

(* on_search_activated with a filter that these entries match. *)
Search(matching) ==
    /\ split /\ MayAsk
    /\ left' = "results"
    /\ tasks' = BagAdd(tasks, Asking("search", Root, matching))
    /\ UNCHANGED <<dir, tree, gen, split, sel, results, pick, editor, edits,
                   undefined>>

(* on_search_stopped, or an empty filter. *)
StopSearch ==
    /\ split /\ left = "results"
    /\ left' = "tree" /\ results' = NoHits /\ pick' = NoEntry
    /\ UNCHANGED <<dir, tree, gen, split, sel, editor, tasks, bounds,
                   undefined>>

(* on_search_done: the hits replace those shown, the first one is loaded. *)
SearchDone(t) ==
    /\ Done(t, "search")
    /\ tasks' = Drop(t)
    /\ \/ ~t.ok /\ UNCHANGED <<results, pick, editor>>
       \/ /\ t.ok /\ results' = t.attrs
          /\ \/ t.of.matching = {} /\ pick' = NoEntry /\ LoadNone
             \/ \E e \in t.of.matching :
                   pick' = e /\ LoadNode(e, t.attrs[e])
    /\ UNCHANGED <<dir, tree, gen, split, left, sel, bounds, undefined>>

(* on_results_selection_changed; a hit can be unselected. *)
Pick(e) ==
    /\ split /\ left = "results" /\ e \in DOMAIN results
    /\ IF pick = e THEN pick' = NoEntry /\ LoadNone
       ELSE pick' = e /\ LoadNode(e, results[e])
    /\ UNCHANGED <<dir, tree, gen, split, left, sel, results, tasks, bounds,
                   undefined>>

-----------------------------------------------------------------------------
User ==
    \/ Load \/ LoadWithoutBase \/ StopSearch \/ Save \/ TrashNew
    \/ \E e \in Entry : Expand(e) \/ Select(e) \/ Pick(e)
    \/ \E matching \in SUBSET Entry : Search(matching)
    \/ \E a \in Attr : Mark(a)
    \/ \E a \in Attr, text \in Values :
          FillNew(a, text) \/ \E twice \in BOOLEAN : Type(a, text, twice)

Worker(t) ==
    Fail(t) \/ ReadChildren(t) \/ ReadAttrs(t) \/ FindMatching(t) \/ Modify(t)
Callback(t) ==
    SaveDone(t) \/ Refreshed(t) \/ RootLoaded(t) \/ ChildrenLoaded(t)
        \/ SearchDone(t)

Next ==
    /\ ~undefined
    /\ \/ User
       \/ \E t \in DOMAIN tasks : Worker(t) \/ Callback(t)

(* The thread pool and the main loop get to the calls of each kind. *)
Fairness ==
    \A op \in {"modify", "children", "root", "search", "refresh"} :
        /\ WF_vars(\E t \in DOMAIN tasks :
                      ~undefined /\ t.of.op = op /\ Worker(t))
        /\ WF_vars(\E t \in DOMAIN tasks :
                      ~undefined /\ t.of.op = op /\ Callback(t))

Spec == Init /\ [][Next]_vars
FairSpec == Spec /\ Fairness
=============================================================================
