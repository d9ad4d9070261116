-------------------------- MODULE CollectionItems --------------------------
(***************************************************************************)
(* The dialog that chooses the items of a collection                       *)
(* (collection-items-dialog.ts) with the tree it shows a workflow's crawls *)
(* in (collection-workflow-list.ts), for one workflow of several pages of  *)
(* crawls and for uploads, which have no workflow.                         *)
(*                                                                         *)
(* Lit writes a bound attribute only when the bound value differs from the *)
(* one it wrote last, so a checkbox the user changed may differ from what  *)
(* is bound to it: both are kept.                                          *)
(***************************************************************************)
EXTENDS SelectionDelta, Sequences, SequencesExt

CONSTANTS Pages,       \* the workflow's crawls, a sequence of pages
          Uploads,     \* uploads
          Deps,        \* the items other crawls require
          Limits,      \* bounds, one of which a behaviour has: on what the user changes, on
                       \* requests for the workflows, on saves, on requests that fail and
                       \* on lapses
          Pag,         \* the tree's item that holds the pagination
          None         \* undefined

Crawls == UNION {Range(Pages[p]) : p \in DOMAIN Pages}
Total == Cardinality(Crawls)

\* What the dialog does not cope with. Properties say which of these they need not to
\* have happened. The user
\* "early": changes the selection while the collection's items are loading;
\* "reload": sorts, filters or opens again while the workflows are loading;
\* "recheck": checks a crawl again after unchecking the whole workflow, or, in the list
\*            of the collection's crawls, after unchecking it;
\* "views": changes crawls both by workflow and in the list of the collection's crawls;
\* "retry": changes the selection while a save is under way, or after one that failed
\*          but left some of its changes;
\* "close": closes the dialog while a save waits for dependenciesTask.
Lapses == {"early", "reload", "recheck", "views", "retry", "close"}

ASSUME CollectionItemsAssumption ==
    /\ Limits \subseteq [edits : Nat, loads : Nat, saves : Nat, failures : Nat, lapses : Nat]
    /\ Deps \subseteq Crawls \cup Uploads /\ Crawls \cap Uploads = {}
    /\ 1 \in DOMAIN Pages /\ None \notin [page : DOMAIN Pages, selected : SUBSET Crawls]
    /\ \A p, q \in DOMAIN Pages : p # q => Range(Pages[p]) \cap Range(Pages[q]) = {}

VARIABLES
    coll,        \* the items of the collection, on the server
    opened,      \* None while the dialog is closed, else coll when it opened
    loads,       \* requests of fetchWorkflows: how many wait for the workflows,
                 \* how many for the workflow's crawls
    inits,       \* how many initSelection wait for the uploads
    s,           \* selectedItems, deselectedItems, workflowSelection, batchWorkflows
    saved,       \* savedSelectedItems, savedWorkflowSelection
    crawls,      \* workflowCrawls: page and selectedCrawls, None if not there
    known,       \* the keys of crawlToWorkflow
    tree,        \* the tree: checkboxes, what is bound to them, previousSelection
    onlyIn,      \* showOnlyInCollection: the list of crawls is shown, not the tree
    list,        \* the list of the collection's items: checkboxes, what is bound
    deps,        \* dependenciesTask: its status and value
    confirm,     \* showConfirmation
    isSubmitting,
    saves,       \* the saves, by number
    net,         \* their requests that are in flight
    edits, loaded, failed,   \* counters of what is bounded
    limits,      \* the bounds (never changes)
    lapses,      \* the lapses there were
    done         \* what the save that just succeeded showed, else None

dialog == <<opened, s, saved, crawls, known, tree, onlyIn, list>>
counters == <<edits, loaded, failed>>
vars == <<coll, dialog, loads, inits, deps, confirm, isSubmitting, saves, net,
          counters, limits, lapses, done>>

Lapse(set) ==
    /\ Cardinality(lapses \cup set) <= limits.lapses
    /\ lapses' = lapses \cup set
If(condition, what) == IF condition THEN {what} ELSE {}
Without(set) == lapses \cap set = {}

Items == Crawls \cup Uploads
W == "workflow"
NoSelection == [checked |-> "none", count |-> 0, all |-> FALSE]
NoTree == [els |-> {}, bound |-> {}, shown |-> {}, prev |-> {},
           wf |-> "false", wfBound |-> "false"]
NoList == [els |-> {}, bound |-> {}, shown |-> {}, in |-> {}]
Empty == [selected |-> {}, deselected |-> {}, wf |-> NoSelection, batch |-> None]

-----------------------------------------------------------------------------
(* What is shown.                                                            *)

\* renderCrawl
CrawlSelected(st, c) ==
    IF st.wf.all THEN c \notin st.deselected
    ELSE IF st.wf.checked = "some" THEN c \in st.selected
    ELSE st.wf.checked = "true"

\* The items the dialog shows as selected, on whatever page; nothing is shown, and so
\* nothing changed, of a workflow that is not loaded.
Shown(st) ==
    (Uploads \cap st.selected) \cup
    (IF crawls = None THEN opened \cap Crawls ELSE {c \in Crawls : CrawlSelected(st, c)})

\* renderCrawls: the crawls of a page and, when there are more, the pagination, which is
\* selected when other pages hold crawls of the collection.
Present(cr) == Range(Pages[cr.page]) \cup (IF Len(Pages) > 1 THEN {Pag} ELSE {})
Bound(st, cr) ==
    {c \in Range(Pages[cr.page]) : CrawlSelected(st, c)} \cup
    (IF Len(Pages) > 1 /\ st.wf.count # 0 /\ cr.selected \ Range(Pages[cr.page]) # {}
     THEN {Pag} ELSE {})

\* Lit's update of checkboxes: those on the page for the first time and those whose
\* bound value changed are written.
Written(t, present, bound) ==
    [els |-> {e \in present : IF e \in t.shown /\ (e \in t.bound) = (e \in bound)
                              THEN e \in t.els ELSE e \in bound},
     bound |-> bound, shown |-> present]

RenderTree(t, st, cr) ==
    IF cr = None THEN NoTree
    ELSE Written(t, Present(cr), Bound(st, cr)) @@
         [wf |-> IF st.wf.checked # t.wfBound THEN st.wf.checked ELSE t.wf,
          wfBound |-> st.wf.checked, prev |-> t.prev]

\* renderArchivedItem
ItemSelected(l, st, i) ==
    IF i \in Crawls /\ st.wf.all THEN i \notin st.deselected
    ELSE IF i \in Crawls /\ st.wf.checked = "false" THEN FALSE
    ELSE i \in st.selected \/ i \in l.in

\* The uploads are always rendered, the collection's crawls only when they are shown;
\* what is not rendered stays as it was.
RenderList(l, st, items) ==
    LET w == Written(l, items, {i \in items : ItemSelected(l, st, i)}) IN
    [els |-> w.els \cup (l.els \ items), bound |-> w.bound \cup (l.bound \ items),
     shown |-> l.shown \cup items, in |-> l.in]
ListItems(only) == Uploads \cup (IF only THEN list.in \cap Crawls ELSE {})

-----------------------------------------------------------------------------
(* The difference, and the task that looks for dependencies.                 *)

\* get difference
difference(st, sv, cr) ==
    LET workflow == IF cr = None THEN {} ELSE {W} IN
    computeSelectionDelta(
        [containers |-> [w \in workflow |->
            [itemCount |-> Total,
             originalSelectedCount |-> sv.wf.count,
             wasFullySelected |-> sv.wf.checked = "true"]],
         itemToContainer |-> [i \in known |-> W],
         batchOps |-> [w \in IF st.batch = None THEN {} ELSE {W} |->
            [kind |-> IF st.batch.operation = "add" THEN "include" ELSE "exclude",
             items |-> st.batch.omitCrawls]],
         originalSelectedItems |-> sv.items,
         selectedItems |-> st.selected, deselectedItems |-> st.deselected])

hasChange == LET d == difference(s, saved, crawls) IN d.additions # 0 \/ d.removals # 0

Pending == [status |-> "pending", value |-> {}]
Complete(items) == [status |-> "complete", value |-> items]
Removes_items(d) == d.removedItems # {}
Removes(d) == d.removedItems # {} \/ d.excludedContainers # {}

\* The saves that wait for the task to be complete (trySave).
Waiting == {n \in DOMAIN saves : saves[n].stage = "deps"}

\* dependenciesTask runs when the deselected items or the workflow selection are new. It
\* is complete at once where nothing is removed; a save that waits for it goes on after.
runDependencies(st) ==
    /\ deps' = IF Removes(difference(st, saved, crawls)) \/ Waiting # {}
               THEN Pending ELSE Complete({})
    /\ confirm' = FALSE

\* The selection becomes st and is rendered.
Select(st, t, l) ==
    /\ s' = st
    /\ tree' = IF onlyIn THEN t ELSE RenderTree(t, st, crawls)
    /\ list' = RenderList(l, st, ListItems(onlyIn))

-----------------------------------------------------------------------------
(* Opening and loading.                                                      *)

Init ==
    /\ coll \in SUBSET Items
    /\ opened = None /\ loads = [list |-> 0, crawls |-> 0] /\ inits = 0
    /\ s = Empty /\ saved = [items |-> {}, wf |-> NoSelection]
    /\ crawls = None /\ known = {} /\ tree = NoTree /\ onlyIn = FALSE /\ list = NoList
    /\ deps = Complete({}) /\ confirm = FALSE /\ isSubmitting = FALSE
    /\ saves = <<>> /\ net = {}
    /\ edits = [tree |-> 0, list |-> 0, uploads |-> 0] /\ loaded = 0 /\ failed = 0
    /\ limits \in Limits /\ lapses = {} /\ done = None

fetchWorkflows ==
    /\ loaded < limits.loads
    /\ Lapse(If(loads.list + loads.crawls > 0, "reload"))
    /\ loads' = [loads EXCEPT !.list = @ + 1]
    /\ loaded' = loaded + 1

\* initSelection, up to its first await, when the dialog opens.
initSelection ==
    /\ opened = None
    /\ opened' = coll
    /\ fetchWorkflows
    /\ inits' = inits + 1
    /\ s' = [s EXCEPT !.selected = {}, !.deselected = {}, !.wf = NoSelection]
    /\ saved' = [items |-> {}, wf |-> NoSelection]
    /\ crawls' = None /\ tree' = NoTree
    /\ list' = RenderList([NoList EXCEPT !.in = coll], s', Uploads)
    /\ deps' = Complete({}) /\ confirm' = FALSE /\ done' = None
    /\ UNCHANGED <<limits, coll, known, onlyIn, isSubmitting, saves, net, edits, failed>>

\* The uploads of the collection have come: the rest of initSelection.
uploadsArrive ==
    /\ inits > 0
    /\ inits' = inits - 1
    /\ LET st == [s EXCEPT !.selected = @ \cup (coll \cap Uploads)] IN
       /\ saved' = [saved EXCEPT !.items = st.selected]
       /\ Select(st, tree, list)
    /\ UNCHANGED <<limits, lapses, coll, opened, loads, crawls, known, onlyIn, deps, confirm, isSubmitting,
                   saves, net, counters, done>>

\* Another sort order or filter, or another page of workflows and back.
Reload ==
    /\ opened # None
    /\ fetchWorkflows
    /\ UNCHANGED <<limits, coll, dialog, inits, deps, confirm, isSubmitting, saves, net,
                   edits, failed, done>>

\* fetchWorkflows has the workflows: it asks for the crawls of one it has none of.
workflowsArrive ==
    /\ loads.list > 0
    /\ loads' = [list |-> loads.list - 1,
                 crawls |-> loads.crawls + (IF crawls = None THEN 1 ELSE 0)]
    /\ UNCHANGED <<limits, lapses, coll, dialog, inits, deps, confirm, isSubmitting, saves, net, counters, done>>

\* It has the crawls in the collection and the first page of all. The tree takes
\* previousSelection from its checkboxes once they are rendered.
crawlsArrive ==
    /\ loads.crawls > 0
    /\ loads' = [loads EXCEPT !.crawls = @ - 1]
    /\ LET sc == coll \cap Crawls
           wf == [checked |-> IF sc = {} THEN "false"
                              ELSE IF sc = Crawls THEN "true" ELSE "some",
                  count |-> Cardinality(sc), all |-> sc = Crawls]
           st == [s EXCEPT !.selected = @ \cup sc, !.wf = wf]
           cr == [page |-> 1, selected |-> sc]
           rt == RenderTree(tree, st, cr)
       IN /\ s' = st
          /\ saved' = [items |-> saved.items \cup sc, wf |-> wf]
          /\ crawls' = cr
          /\ known' = known \cup sc \cup Range(Pages[1])
          /\ tree' = IF onlyIn THEN tree ELSE [rt EXCEPT !.prev = rt.els]
          /\ list' = RenderList(list, st, ListItems(onlyIn))
    /\ UNCHANGED <<limits, lapses, coll, opened, inits, onlyIn, deps, confirm, isSubmitting, saves, net,
                   counters, done>>

\* btrix-crawls-page-change
PageChange(p) ==
    /\ opened # None /\ ~onlyIn /\ crawls # None /\ p # crawls.page
    /\ crawls' = [crawls EXCEPT !.page = p]
    /\ known' = known \cup Range(Pages[p])
    /\ LET rt == RenderTree(tree, s, crawls') IN tree' = [rt EXCEPT !.prev = rt.els]
    /\ UNCHANGED <<limits, lapses, coll, opened, s, saved, onlyIn, list, loads, inits, deps, confirm,
                   isSubmitting, saves, net, counters, done>>

\* "Only items in collection": the crawls, or the workflows, and the uploads are loaded.
ToggleOnlyIn ==
    /\ opened # None
    /\ onlyIn' = ~onlyIn
    /\ list' = RenderList([list EXCEPT !.in = coll], s,
                          Uploads \cup (IF onlyIn THEN {} ELSE coll \cap Crawls))
    /\ IF onlyIn
       THEN /\ fetchWorkflows
            /\ tree' = RenderTree(tree, s, crawls)
       ELSE UNCHANGED <<loads, loaded, lapses, tree>>
    /\ UNCHANGED <<limits, coll, opened, s, saved, crawls, known, inits, deps, confirm, isSubmitting,
                   saves, net, edits, failed, done>>

-----------------------------------------------------------------------------
(* What the user changes.                                                    *)

EditLapses(where) ==
    If(inits > 0, "early") \cup If(net # {} \/ coll # opened, "retry")
    \cup If(where # "uploads" /\ edits[IF where = "tree" THEN "list" ELSE "tree"] > 0, "views")
CanEdit(where) ==
    /\ opened # None /\ edits.tree + edits.list + edits.uploads < limits.edits
    /\ edits' = [edits EXCEPT ![where] = @ + 1]
    /\ UNCHANGED <<limits, coll, opened, saved, crawls, known, onlyIn, loads, inits, isSubmitting,
                   saves, net, loaded, failed, done>>

Batch(st) == IF st.batch = None THEN [operation |-> "none", omitCrawls |-> {}] ELSE st.batch

\* onSelectionChange counts the crawls whose checkbox changed, in their order.
Counted(st, els, prev, page) ==
    FoldLeft(LAMBDA n, c : IF (c \in els) = (c \in prev) THEN n
                           ELSE IF c \in els THEN n + 1
                           ELSE IF n # 0 THEN n - 1 ELSE 0,
             st.wf.count, page)

OfWorkflow(items) == items \cap known

\* The handler of btrix-selection-change, by the state of the workflow's checkbox.
AllChecked(st) ==
    LET wasAllSelected == st.wf.all IN
    [selected |-> st.selected,
     deselected |-> st.deselected \ OfWorkflow(st.deselected),
     wf |-> [checked |-> "true", count |-> Total, all |-> TRUE],
     batch |-> IF saved.wf.checked # "true" THEN [operation |-> "add", omitCrawls |-> {}]
               ELSE IF st.batch # None /\ st.batch.operation = "remove" THEN None
               ELSE IF ~wasAllSelected THEN [operation |-> "add", omitCrawls |-> {}]
               ELSE st.batch]

NoneChecked(st) ==
    [selected |-> st.selected \ OfWorkflow(st.selected),
     deselected |-> st.deselected \ OfWorkflow(st.deselected),
     wf |-> [checked |-> "false", count |-> 0, all |-> FALSE],
     batch |-> IF st.wf.all \/ saved.wf.checked \in {"true", "some"}
               THEN [operation |-> "remove", omitCrawls |-> {}] ELSE None]

\* Exceptions to "select all".
SomeOfAll(st, add, rem, n) ==
    LET deselected == (st.deselected \cup rem) \ add IN
    [selected |-> st.selected,
     deselected |-> deselected,
     wf |-> [checked |-> IF OfWorkflow(deselected) = {} THEN "true" ELSE "some",
             count |-> n, all |-> TRUE],
     batch |-> IF st.batch = None THEN None
               ELSE [st.batch EXCEPT !.omitCrawls = (@ \cup rem) \ add]]

SomeChecked(st, add, rem, n) ==
    [selected |-> (st.selected \ rem) \cup add,
     deselected |-> (st.deselected \cup rem) \ add,
     wf |-> [checked |-> "some", count |-> n, all |-> FALSE],
     batch |-> IF st.batch # None
               THEN [st.batch EXCEPT !.omitCrawls = IF st.batch.operation = "add"
                                                    THEN (@ \ add) \cup rem
                                                    ELSE (@ \ rem) \cup add]
               ELSE IF saved.wf.checked = "true"
               THEN [operation |-> "remove", omitCrawls |-> {}] ELSE None]

\* The tree's checkboxes become els, the workflow's wf.
SelectionChange(els, wf) ==
    LET page == Pages[crawls.page]
        add == {c \in Range(page) : c \in els /\ c \notin tree.prev}
        rem == {c \in Range(page) : c \notin els /\ c \in tree.prev}
        n == Counted(s, els, tree.prev, page)
        st == IF wf = "true" THEN AllChecked(s)
              ELSE IF wf = "false" THEN NoneChecked(s)
              ELSE IF s.wf.all THEN SomeOfAll(s, add, rem, n)
              ELSE SomeChecked(s, add, rem, n)
    IN /\ Lapse(EditLapses("tree")
                \cup If(Batch(st).operation = "remove" /\ Batch(st).omitCrawls # {}, "recheck"))
       /\ Select(st, [tree EXCEPT !.els = els, !.wf = wf, !.prev = els], list)
       /\ runDependencies(st)

\* sl-tree (external): an item's checkbox sets those of its children, and is set by them.
Parent(els) == IF els = tree.shown THEN "true" ELSE IF els = {} THEN "false" ELSE "some"

TreeShown == ~onlyIn /\ crawls # None

ClickWorkflow ==
    /\ TreeShown /\ CanEdit("tree")
    /\ IF tree.wf = "true" THEN SelectionChange({}, "false")
       ELSE SelectionChange(tree.shown, "true")

\* The click on a crawl sets the pagination's hidden checkbox first, so that the
\* workflow's becomes what it should.
Pagination(c) ==
    LET n == s.wf.count
        on == c \in tree.els
        pag == IF (on /\ n - 1 # 0) \/ n + 1 < Total THEN n - 1 # 0 /\ on
               ELSE IF ~on /\ n + 1 = Total THEN TRUE ELSE Pag \in tree.els
    IN IF Pag \notin tree.shown THEN {} ELSE IF pag THEN {Pag} ELSE {}

ClickCrawl(c) ==
    /\ TreeShown /\ c \in tree.shown \ {Pag} /\ CanEdit("tree")
    /\ LET els == ((tree.els \ {Pag}) \cup Pagination(c)) IN
       LET toggled == IF c \in els THEN els \ {c} ELSE els \cup {c} IN
       SelectionChange(toggled, Parent(toggled))

\* The handler of renderArchivedItem, for a crawl and for an upload.
ItemChange(i) ==
    LET checked == i \notin list.els
        l == [list EXCEPT !.els = IF checked THEN @ \cup {i} ELSE @ \ {i}]
        deselected == IF checked THEN s.deselected \ {i} ELSE s.deselected \cup {i}
        left == Total - Cardinality(OfWorkflow(deselected))
        selected == IF checked THEN s.selected \cup {i} ELSE s.selected \ {i}
        n == IF checked THEN s.wf.count + 1 ELSE s.wf.count - 1
        st == IF i \in Uploads THEN [s EXCEPT !.selected = selected]
              ELSE IF s.wf.all
              THEN [s EXCEPT !.deselected = deselected,
                             !.wf = [checked |-> IF left = Total THEN "true"
                                                 ELSE IF left > 0 THEN "some" ELSE "false",
                                     count |-> left, all |-> TRUE]]
              ELSE [s EXCEPT !.selected = selected,
                             !.wf = [checked |-> IF n = 0 THEN "false"
                                                 ELSE IF n = Total THEN "true" ELSE "some",
                                     count |-> n, all |-> FALSE]]
    IN /\ i \in ListItems(onlyIn)
       /\ LET where == IF i \in Crawls THEN "list" ELSE "uploads" IN
          /\ CanEdit(where)
          /\ Lapse(EditLapses(where)
                   \cup If(i \in Crawls /\ crawls = None, "early")
                   \cup If(i \in Crawls /\ checked /\ ~s.wf.all, "recheck"))
       /\ IF i \in Uploads \/ crawls # None
          THEN /\ Select(st, tree, l)
               /\ IF i \in Uploads THEN UNCHANGED <<deps, confirm>> ELSE runDependencies(st)
          ELSE /\ list' = l
               /\ UNCHANGED <<s, tree, deps, confirm>>

-----------------------------------------------------------------------------
(* Saving.                                                                   *)

\* reset, when the dialog has closed.
reset ==
    /\ opened' = None
    /\ s' = Empty /\ saved' = [items |-> {}, wf |-> NoSelection]
    /\ onlyIn' = FALSE /\ tree' = NoTree /\ list' = NoList
    /\ deps' = Complete({}) /\ confirm' = FALSE

\* The user closes the dialog. The new deselectedItems and workflowSelection of reset run
\* the task again, which is complete, before its abort is heard of: a save that waits for
\* it goes on, has no difference left to send, and reports success.
GoOn == [n \in DOMAIN saves |->
            IF n \in Waiting THEN [saves[n] EXCEPT !.stage = "saved"] ELSE saves[n]]
Close ==
    /\ opened # None
    /\ Lapse(If(Waiting # {}, "close"))
    /\ reset
    /\ saves' = GoOn
    /\ done' = IF Waiting = {} THEN done ELSE Shown(s)
    /\ UNCHANGED <<limits, coll, crawls, known, loads, inits, isSubmitting, net, counters>>

NewSave == [stage |-> "deps", confirmed |-> FALSE, want |-> {}, had |-> {}, add |-> {},
                       remove |-> {}, workflows |-> "none"]

\* A request of a save, and the item requests of one.
Request(n, stage, kind, ids) == [save |-> n, stage |-> stage, kind |-> kind, ids |-> ids]

addItems(sv) == {i \in sv.add : ~(i \in known /\ sv.workflows = "add")}
removeItems(sv) == {i \in sv.remove : ~(i \in known /\ sv.workflows = "remove")}
ItemRequests(n, sv) ==
    {r \in {Request(n, "items", "add", addItems(sv)),
            Request(n, "items", "remove", removeItems(sv))} : r.ids # {}}

Started_keeps(confirmed) ==
    LET d == difference(s, saved, crawls) IN
    [stage |-> "workflows", confirmed |-> confirmed, want |-> Shown(s), had |-> saved.items \cap coll,
     add |-> d.addedItems, remove |-> d.removedItems,
     workflows |-> IF d.includedContainers # {} THEN "add"
                   ELSE IF d.excludedContainers # {} THEN "remove" ELSE "none"]

Started(confirmed) ==
    LET d == difference(s, saved, crawls) IN
    [stage |-> "workflows", confirmed |-> confirmed, want |-> Shown(s), had |-> saved.items \cap coll,
     add |-> d.addedItems,
     remove |-> d.removedItems \cup
                (IF d.includedContainers = {} THEN {} ELSE OfWorkflow(s.deselected)),
     workflows |-> IF d.includedContainers # {} THEN "add"
                   ELSE IF d.excludedContainers # {} THEN "remove" ELSE "none"]

\* A save that has had all its answers: the dialog closes. (No other waits for the task.)
Saved(sv, n) ==
    /\ reset
    /\ isSubmitting' = FALSE
    /\ done' = sv[n].want
    /\ saves' = [sv EXCEPT ![n].stage = "saved"]

Put(n, sv) == IF n > Len(saves) THEN Append(saves, sv) ELSE [saves EXCEPT ![n] = sv]

\* save, up to its first requests: for workflows, if any, else for items.
save(n, confirmed, dp) ==
    LET sv == Started(confirmed)
        workflows == sv.workflows # "none"
        requests == IF workflows THEN {Request(n, "workflows", sv.workflows, Crawls)}
                    ELSE ItemRequests(n, sv)
    IN IF requests = {}
       THEN Saved(Put(n, sv), n) /\ UNCHANGED net
       ELSE /\ saves' = Put(n, IF workflows THEN sv ELSE [sv EXCEPT !.stage = "items"])
            /\ net' = net \cup requests
            /\ isSubmitting' = TRUE
            /\ deps' = dp
            /\ UNCHANGED <<opened, s, saved, onlyIn, tree, list, confirm, done>>

\* The rest of trySave once the task has settled as dp.
afterDependencies(n, dp) ==
    IF dp = Complete({}) THEN save(n, FALSE, dp)
    ELSE /\ confirm' = (dp.status = "complete" \/ confirm)
         /\ deps' = dp
         /\ saves' = Put(n, [NewSave EXCEPT !.stage = "stopped"])
         /\ UNCHANGED <<opened, s, saved, onlyIn, tree, list, isSubmitting, net, done>>

\* The save button. (A second click while the task is pending saves the same twice.)
trySave ==
    /\ opened # None /\ hasChange /\ ~isSubmitting /\ ~confirm
    /\ Len(saves) < limits.saves /\ Waiting = {}
    /\ IF deps = Pending
       THEN /\ saves' = Append(saves, NewSave)
            /\ UNCHANGED <<opened, s, saved, onlyIn, tree, list, deps, confirm, isSubmitting,
                           net, done>>
       ELSE afterDependencies(Len(saves) + 1, deps)
    /\ UNCHANGED <<limits, lapses, coll, crawls, known, loads, inits, counters>>

dependenciesSettle(dp) ==
    /\ deps = Pending
    /\ \/ \E n \in Waiting : afterDependencies(n, dp)
       \/ /\ Waiting = {}
          /\ deps' = dp
          /\ UNCHANGED <<opened, s, saved, onlyIn, tree, list, confirm, isSubmitting,
                         saves, net, done>>
    /\ UNCHANGED <<limits, lapses, coll, crawls, known, loads, inits, edits, loaded>>

dependenciesArrive ==
    LET d == difference(s, saved, crawls)
        removed == d.removedItems \cup
                   (IF d.excludedContainers = {} THEN {} ELSE coll \cap Crawls)
    IN dependenciesSettle(Complete(Deps \cap removed)) /\ UNCHANGED failed

dependenciesFail ==
    /\ failed < limits.failures
    /\ Waiting # {} => Removes(difference(s, saved, crawls))
    /\ failed' = failed + 1
    /\ dependenciesSettle([status |-> "error", value |-> {}])

\* The save button while it asks for confirmation, and "Edit Selection".
Confirm ==
    /\ opened # None /\ confirm /\ hasChange /\ ~isSubmitting
    /\ Len(saves) < limits.saves
    /\ save(Len(saves) + 1, TRUE, deps)
    /\ UNCHANGED <<limits, lapses, coll, crawls, known, loads, inits, counters>>

EditSelection ==
    /\ opened # None /\ confirm
    /\ confirm' = FALSE
    /\ UNCHANGED <<limits, lapses, coll, dialog, loads, inits, deps, isSubmitting, saves, net, counters, done>>

Applied(r) == IF r.kind = "add" THEN coll \cup r.ids ELSE coll \ r.ids

Answered(r) ==
    LET n == r.save
        rest == net \ {r}
        mine == {q \in rest : q.save = n}
        items == ItemRequests(n, saves[n])
    IN /\ r \in net
       /\ coll' = Applied(r)
       /\ IF saves[n].stage = r.stage /\ mine = {} /\ (r.stage = "items" \/ items = {})
          THEN Saved(saves, n) /\ net' = rest
          ELSE /\ IF saves[n].stage = r.stage /\ mine = {}
                  THEN net' = rest \cup items /\ saves' = [saves EXCEPT ![n].stage = "items"]
                  ELSE net' = rest /\ UNCHANGED saves
               /\ done' = None
               /\ UNCHANGED <<opened, s, saved, tree, onlyIn, list, deps, confirm, isSubmitting>>
       /\ UNCHANGED <<limits, lapses, crawls, known, loads, inits, counters>>

\* A request fails, before the server had it or after.
RequestFails(r) ==
    /\ r \in net /\ failed < limits.failures
    /\ failed' = failed + 1
    /\ net' = net \ {r}
    /\ coll' \in {coll, Applied(r)}
    /\ IF saves[r.save].stage = r.stage
       THEN /\ saves' = [saves EXCEPT ![r.save].stage = "failed"]
            /\ isSubmitting' = FALSE
       ELSE UNCHANGED <<saves, isSubmitting>>
    /\ done' = None
    /\ UNCHANGED <<limits, lapses, dialog, loads, inits, deps, confirm, edits, loaded>>

-----------------------------------------------------------------------------
Load == uploadsArrive \/ workflowsArrive \/ crawlsArrive
Edit == ClickWorkflow \/ (\E c \in Crawls : ClickCrawl(c)) \/ (\E i \in Items : ItemChange(i))
Browse == initSelection \/ Reload \/ ToggleOnlyIn \/ Close \/ (\E p \in DOMAIN Pages : PageChange(p))
Save == trySave \/ Confirm \/ EditSelection
Answer == dependenciesArrive \/ (\E r \in net : Answered(r))
Fail == dependenciesFail \/ (\E r \in net : RequestFails(r))

Next == Load \/ Edit \/ Browse \/ Save \/ Answer \/ Fail

Spec == Init /\ [][Next]_vars

-----------------------------------------------------------------------------
(* Correctness.                                                              *)

\* The variables have the values the code gives them.
TypeOK ==
    /\ coll \subseteq Items /\ known \subseteq Crawls
    /\ s.selected \subseteq Items /\ s.deselected \subseteq Items
    /\ s.wf.checked \in {"true", "false", "some", "none"} /\ s.wf.count \in Int
    /\ s.batch # None => s.batch.operation \in {"add", "remove"}
                         /\ s.batch.omitCrawls \subseteq Crawls
    /\ tree.els \subseteq tree.shown /\ list.els \subseteq list.shown
    /\ \A r \in net : r.save \in DOMAIN saves /\ r.ids \subseteq Items

\* A save that reports success leaves the collection with the items that were shown as
\* selected when it began, whatever mix of whole workflows, exceptions and single items
\* led there, and after saves that failed (but none of the lapses).
SavedIsShown == done # None /\ lapses = {} => coll = done

\* The dialog says how many items would be added and removed: as many as are shown as
\* selected and were not in the collection, and the other way round (unless an earlier
\* save changed the collection meanwhile, or the lapses named).
CountsShown ==
    (opened = coll /\ net = {} /\ crawls # None /\ inits = 0 /\ Without({"early", "views", "reload"})) =>
        LET d == difference(s, saved, crawls) IN
        /\ d.additions = Cardinality(Shown(s) \ opened)
        /\ d.removals = Cardinality(opened \ Shown(s))

\* A crawl that the dialog found in the collection (savedSelectedItems), that was still
\* in it when the save began and that other crawls require is not removed without
\* confirmation (dependenciesTask), unless the user changed the selection during a load or
\* a save, or loaded twice. (An upload is: dependenciesTask does not run when an upload is
\* unchecked.)
ConfirmedRemoval ==
    \A r \in net : (/\ Without({"early", "reload", "retry"}) /\ r.kind = "remove"
                    /\ r.ids \cap saves[r.save].had \cap Deps \cap Crawls # {})
                       => saves[r.save].confirmed

\* "Store previously saved selection to compare": once uploads and crawls are loaded, in
\* whatever order, the saved selection is what the collection holds, unless the user
\* changed the selection meanwhile or a save changed the collection.
SavedIsStored ==
    (opened # None /\ crawls # None /\ inits = 0 /\ saves = <<>> /\ Without({"early"}))
        => saved.items = coll

\* The dialog's structures agree: the saved selection with the collection, and the
\* difference it counts with what is shown (initSelection, selectionDelta).
SelectionKept == TypeOK /\ SavedIsStored /\ CountsShown
=============================================================================
