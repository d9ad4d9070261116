------------------------ MODULE ArchivedItemsProofs ------------------------
(***************************************************************************)
(* Archived items in the web application. The dialog of a collection's     *)
(* items removes no crawl that others require without asking: the          *)
(* invariant ConfirmedRemoval of CollectionItems, for any pages of crawls, *)
(* uploads, requirements and number of changes, loads, saves and failures. *)
(* And what the application shows of uploads is so: the invariant          *)
(* ShownIsTrue of OrgUploads, for any set of uploads.                      *)
(***************************************************************************)
EXTENDS CollectionItems, OrgUploads, TLAPS

\* None of the lapses ConfirmedRemoval excepts has happened.
Calm == Without({"early", "reload", "retry"})

-----------------------------------------------------------------------------
(* The difference between a selection and the saved one, for one workflow.   *)

\* The workflow is added or removed as a whole, or was in the collection and is not removed.
Added(st, cr) == cr # None /\ st.batch # None /\ st.batch.operation = "add"
Excluded(st, cr) == cr # None /\ st.batch # None /\ st.batch.operation # "add"
Full(st, sv, cr) == Added(st, cr) \/ (cr # None /\ sv.wf.checked = "true" /\ ~Excluded(st, cr))

\* The crawls that are removed one by one.
RemovedCrawls(st, sv, cr) ==
    {c \in Crawls \cap sv.items :
        \/ Full(st, sv, cr) /\ c \in st.deselected
        \/ ~Full(st, sv, cr) /\ ~Excluded(st, cr) /\ c \notin st.selected}

\* The state that difference hands to computeSelectionDelta.
Containers(sv, cr) ==
    [w \in IF cr = None THEN {} ELSE {W} |->
        [itemCount |-> Total, originalSelectedCount |-> sv.wf.count,
         wasFullySelected |-> sv.wf.checked = "true"]]
BatchOps(st) ==
    [w \in IF st.batch = None THEN {} ELSE {W} |->
        [kind |-> IF st.batch.operation = "add" THEN "include" ELSE "exclude",
         items |-> st.batch.omitCrawls]]
DeltaState(st, sv, cr) ==
    [containers |-> Containers(sv, cr), itemToContainer |-> [i \in known |-> W],
     batchOps |-> BatchOps(st), originalSelectedItems |-> sv.items,
     selectedItems |-> st.selected, deselectedItems |-> st.deselected]

\* difference is computeSelectionDelta of that state.
LEMMA DifferenceIs ==
    ASSUME NEW st, NEW sv, NEW cr
    PROVE  difference(st, sv, cr) = computeSelectionDelta(DeltaState(st, sv, cr))
BY DEF difference, DeltaState, Containers, BatchOps

\* With one workflow, its crawls are in an included, an excluded or a fully selected
\* container by what the user chose for it.
LEMMA ContainersOf ==
    ASSUME NEW st, NEW sv, NEW cr
    PROVE  LET x == DeltaState(st, sv, cr) IN
           /\ includedContainers(x) = IF Added(st, cr) THEN {W} ELSE {}
           /\ excludedContainers(x) = IF Excluded(st, cr) THEN {W} ELSE {}
           /\ currentlyFullySelected(x) = IF Full(st, sv, cr) THEN {W} ELSE {}
           /\ \A i, cs : In(x, i, cs) <=> i \in known /\ W \in cs
<1> DEFINE x == DeltaState(st, sv, cr)
<1>1. /\ x.containers = Containers(sv, cr) /\ x.batchOps = BatchOps(st)
      /\ x.itemToContainer = [i \in known |-> W]
    BY DEF DeltaState
<1>2. /\ DOMAIN x.containers = IF cr = None THEN {} ELSE {W}
      /\ cr # None => x.containers[W].wasFullySelected = (sv.wf.checked = "true")
    BY <1>1 DEF Containers
<1>3. /\ DOMAIN x.batchOps = IF st.batch = None THEN {} ELSE {W}
      /\ st.batch # None =>
            x.batchOps[W].kind = IF st.batch.operation = "add" THEN "include" ELSE "exclude"
    BY <1>1 DEF BatchOps
<1>4. includedContainers(x) = IF Added(st, cr) THEN {W} ELSE {}
    BY <1>2, <1>3 DEF includedContainers, OpsOf, Added
<1>5. excludedContainers(x) = IF Excluded(st, cr) THEN {W} ELSE {}
    BY <1>2, <1>3 DEF excludedContainers, OpsOf, Excluded
<1>6. currentlyFullySelected(x) = IF Full(st, sv, cr) THEN {W} ELSE {}
    BY <1>2, <1>4, <1>5 DEF currentlyFullySelected, Full, Added, Excluded
<1>7. \A i, cs : In(x, i, cs) <=> i \in known /\ W \in cs
    BY <1>1 DEF In
<1> QED
    BY <1>4, <1>5, <1>6, <1>7

\* computeSelectionDelta, for one workflow: what is removed one by one, and as a whole.
LEMMA Difference ==
    ASSUME NEW st, NEW sv, NEW cr
    PROVE  LET d == difference(st, sv, cr) IN
           /\ d.includedContainers = IF Added(st, cr) THEN {W} ELSE {}
           /\ d.excludedContainers = IF Excluded(st, cr) THEN {W} ELSE {}
           /\ sv.items \cap Crawls \subseteq known
                => d.removedItems \cap Crawls = RemovedCrawls(st, sv, cr)
           /\ d.removedItems \subseteq sv.items
           /\ d.addedItems \cap sv.items = {}
           /\ d.addedItems \subseteq known \cup st.selected
<1> DEFINE x == DeltaState(st, sv, cr)
           d == difference(st, sv, cr)
<1>1. /\ d.includedContainers = includedContainers(x)
      /\ d.excludedContainers = excludedContainers(x)
      /\ d.removedItems = removedItems(x) /\ d.addedItems = addedItems(x)
    BY DifferenceIs DEF computeSelectionDelta
<1>2. /\ includedContainers(x) = IF Added(st, cr) THEN {W} ELSE {}
      /\ excludedContainers(x) = IF Excluded(st, cr) THEN {W} ELSE {}
      /\ currentlyFullySelected(x) = IF Full(st, sv, cr) THEN {W} ELSE {}
      /\ \A i, cs : In(x, i, cs) <=> i \in known /\ W \in cs
    BY ContainersOf
<1>3. /\ x.originalSelectedItems = sv.items /\ x.selectedItems = st.selected
      /\ x.deselectedItems = st.deselected /\ x.itemToContainer = [i \in known |-> W]
    BY DEF DeltaState
<1> HIDE DEF x
<1>4. removedItems(x) =
        {i \in st.deselected \cap sv.items : i \in known /\ Full(st, sv, cr)} \cup
        {i \in sv.items \ st.selected : ~(i \in known /\ (Full(st, sv, cr) \/ Excluded(st, cr)))}
    BY <1>2, <1>3 DEF removedItems
<1>5. /\ sv.items \cap Crawls \subseteq known => removedItems(x) \cap Crawls = RemovedCrawls(st, sv, cr)
      /\ removedItems(x) \subseteq sv.items
    BY <1>4 DEF RemovedCrawls
<1>6. \A c : /\ batchKnownAdded(x, c) \cap sv.items = {}
             /\ batchKnownAdded(x, c) \subseteq known
    BY <1>3 DEF batchKnownAdded, ContainerItems
<1>7. addedItems(x) \cap sv.items = {} /\ addedItems(x) \subseteq known \cup st.selected
    <2> SUFFICES ASSUME NEW i \in addedItems(x)
                 PROVE  i \notin sv.items /\ i \in known \cup st.selected
        OBVIOUS
    <2>1. \/ \E c \in includedContainers(x) : i \in batchKnownAdded(x, c)
          \/ i \in x.selectedItems \ x.originalSelectedItems
        BY DEF addedItems
    <2>2. CASE \E c \in includedContainers(x) : i \in batchKnownAdded(x, c)
        BY <2>2, <1>6
    <2> QED
        BY <2>1, <2>2, <1>3
<1> QED
    BY <1>1, <1>2, <1>5, <1>7

-----------------------------------------------------------------------------
(* The inductive invariant.                                                  *)

\* What a batch, a save and a request may be.
Batches == [operation : {"add", "remove"}, omitCrawls : SUBSET Crawls]
SaveRecords ==
    [stage : {"deps", "workflows", "items", "failed", "stopped", "saved"}, confirmed : BOOLEAN,
     want : SUBSET Items, had : SUBSET Items, add : SUBSET Items, remove : SUBSET Items,
     workflows : {"add", "remove", "none"}]
Requests ==
    [save : Nat, stage : {"workflows", "items"}, kind : {"add", "remove"}, ids : SUBSET Items]

\* A selection, of which the counts may be anything.
IsSelection(st) ==
    /\ st = [selected |-> st.selected, deselected |-> st.deselected, wf |-> st.wf,
             batch |-> st.batch]
    /\ st.selected \subseteq Items /\ st.deselected \subseteq Items
    /\ st.batch # None => st.batch \in Batches

\* What the proof needs of the types of the state.
Typed ==
    /\ coll \subseteq Items /\ known \subseteq Crawls
    /\ loads \in [list : Nat, crawls : Nat] /\ inits \in Nat
    /\ IsSelection(s)
    /\ saved = [items |-> saved.items, wf |-> saved.wf] /\ saved.items \subseteq Items
    /\ crawls # None => crawls \in [page : DOMAIN Pages, selected : SUBSET Crawls]
    /\ saves \in Seq(SaveRecords) /\ net \subseteq Requests

\* The crawls of the saved selection are known to be the workflow's.
Kept == Calm => saved.items \cap Crawls \subseteq known

\* The workflow's crawls are loaded once.
OneLoad == Calm => /\ loads.list + loads.crawls <= 1
                   /\ loads.crawls > 0 => crawls = None

\* Nothing is removed of crawls that the user could not yet change.
Untouched ==
    /\ opened = None => s.batch = None
    /\ Calm /\ (opened = None \/ crawls = None \/ inits > 0)
        => /\ s.deselected \cap Crawls = {} /\ s.batch = None
           /\ saved.items \cap Crawls \subseteq s.selected
           /\ s.selected \cap Crawls \subseteq known

\* No crawl that others require is removed by the selection as it is.
Harmless(st, sv, cr) ==
    /\ RemovedCrawls(st, sv, cr) \cap Deps = {}
    /\ Excluded(st, cr) => sv.items \cap coll \cap Deps \cap Crawls = {}

\* The task's empty answer is about the selection as it is.
LookedUp == Calm /\ deps = Complete({}) => Harmless(s, saved, crawls)

\* While the workflow is to be removed, no request brings a crawl of the saved selection
\* back: requests under way began after the selection was made.
NotBack ==
    Calm /\ Excluded(s, crawls) =>
        \A r \in net :
            /\ r.kind = "add" => r.ids \cap saved.items \cap Crawls = {}
            /\ r.stage = "workflows" => saves[r.save].add \cap saved.items \cap Crawls = {}

\* A save that was not confirmed removes nothing that others require.
Checked(sv) ==
    ~sv.confirmed =>
        /\ sv.remove \cap sv.had \cap Deps \cap Crawls = {}
        /\ sv.workflows = "remove" => sv.had \cap Deps \cap Crawls = {}
SavesChecked == Calm => \A n \in DOMAIN saves : Checked(saves[n])

\* A request that removes items removes what its save says.
OfSave(r) ==
    /\ r.save \in DOMAIN saves /\ saves[r.save].stage # "deps"
    /\ r.kind = "remove" => \/ r.ids \subseteq saves[r.save].remove
                            \/ saves[r.save].workflows = "remove"
RequestsOfSaves == \A r \in net : OfSave(r)

\* Together: why no save that was not confirmed removes a required crawl.
RemovalInv ==
    /\ Typed /\ Kept /\ OneLoad /\ Untouched /\ LookedUp /\ NotBack /\ SavesChecked
    /\ RequestsOfSaves

\* A page of the workflow's crawls has crawls only.
LEMMA PagesOfCrawls ==
    ASSUME NEW p \in DOMAIN Pages PROVE Range(Pages[p]) \subseteq Crawls
BY DEF Crawls

\* Nothing is selected, saved or under way at first.
LEMMA InitRemoval == Init => RemovalInv
<1> SUFFICES ASSUME Init PROVE RemovalInv
    OBVIOUS
<1>1. Typed
    <2>1. <<>> \in Seq(SaveRecords)
        OBVIOUS
    <2>2. IsSelection(Empty)
        BY DEF Empty, IsSelection
    <2> QED
        BY <2>1, <2>2 DEF Init, Typed
<1>2. Kept /\ OneLoad /\ Untouched /\ NotBack /\ SavesChecked /\ RequestsOfSaves
    BY DEF Init, Kept, OneLoad, Untouched, NotBack, SavesChecked, RequestsOfSaves, Empty, Excluded
<1>3. LookedUp
    BY DEF Init, LookedUp, Harmless, RemovedCrawls, Empty, Excluded
<1> QED
    BY <1>1, <1>2, <1>3 DEF RemovalInv

-----------------------------------------------------------------------------
(* What several actions do.                                                  *)

\* A lapse stays.
LEMMA LapseStays ==
    ASSUME NEW set, Lapse(set), Calm'
    PROVE  Calm /\ set \cap {"early", "reload", "retry"} = {}
BY DEF Lapse, Calm, Without

\* With the lapses as they were, what is calm was so before.
LEMMA CalmStays == ASSUME lapses' = lapses PROVE Calm' => Calm
BY DEF Calm, Without

\* Closing the dialog leaves nothing to remove.
LEMMA ResetStep ==
    ASSUME RemovalInv, reset, crawls' = crawls, loads' = loads, inits' = inits, known' = known,
           Calm' => Calm
    PROVE  /\ IsSelection(s)' /\ saved' = [items |-> saved'.items, wf |-> saved'.wf]
           /\ saved'.items = {}
           /\ Kept' /\ OneLoad' /\ Untouched' /\ LookedUp' /\ NotBack'
<1>1. s' = Empty /\ saved' = [items |-> {}, wf |-> NoSelection] /\ opened' = None
    BY DEF reset
<1>2. IsSelection(s)'
    BY <1>1 DEF Empty, IsSelection
<1>3. saved' = [items |-> saved'.items, wf |-> saved'.wf] /\ saved'.items = {}
    BY <1>1
<1>4. Kept' /\ OneLoad'
    BY <1>3 DEF RemovalInv, Kept, OneLoad
<1>5. Untouched'
    BY <1>1, <1>3 DEF Untouched, Empty
<1>6. ~Excluded(s', crawls')
    BY <1>1 DEF Empty, Excluded
<1>7. LookedUp' /\ NotBack'
    BY <1>3, <1>6 DEF LookedUp, NotBack, Harmless, RemovedCrawls
<1> QED
    BY <1>2, <1>3, <1>4, <1>5, <1>7

\* Saves and requests that stay are as they were.
LEMMA SavesStay ==
    ASSUME RemovalInv, saves' = saves, net' = net, Calm' => Calm
    PROVE  SavesChecked' /\ RequestsOfSaves'
BY DEF RemovalInv, SavesChecked, RequestsOfSaves, OfSave, Checked

\* An action that leaves the selection and the collection alone.
LEMMA SelectionStays ==
    ASSUME RemovalInv, UNCHANGED <<coll, s, saved, deps, saves, net>>, Calm' => Calm,
           Excluded(s, crawls') <=> Excluded(s, crawls),
           Full(s, saved, crawls') <=> Full(s, saved, crawls)
    PROVE  LookedUp' /\ NotBack' /\ SavesChecked' /\ RequestsOfSaves' /\ IsSelection(s)'
<1>1. IsSelection(s)'
    BY DEF RemovalInv, Typed, IsSelection
<1>2. SavesChecked' /\ RequestsOfSaves'
    BY SavesStay
<1>3. NotBack'
    BY DEF RemovalInv, NotBack, Excluded
<1>4. LookedUp'
    <2> SUFFICES ASSUME Calm', deps' = Complete({}) PROVE Harmless(s, saved, crawls)'
        BY DEF LookedUp
    <2>1. Harmless(s, saved, crawls)
        BY DEF RemovalInv, LookedUp
    <2> QED
        BY <2>1 DEF Harmless, RemovedCrawls
<1> QED
    BY <1>1, <1>2, <1>3, <1>4

-----------------------------------------------------------------------------
(* Opening and loading.                                                      *)

\* fetchWorkflows while something is being loaded is a lapse.
LEMMA FetchLoads ==
    ASSUME RemovalInv, fetchWorkflows
    PROVE  /\ loads' \in [list : Nat, crawls : Nat] /\ loads'.crawls = loads.crawls
           /\ Calm' => /\ Calm /\ loads.list + loads.crawls = 0
                       /\ loads'.list + loads'.crawls <= 1
<1>1. loads \in [list : Nat, crawls : Nat]
    BY DEF RemovalInv, Typed
<1>2. loads' = [loads EXCEPT !.list = @ + 1]
    BY DEF fetchWorkflows
<1>3. ASSUME Calm'
      PROVE  Calm /\ ~(loads.list + loads.crawls > 0)
    <2>1. Lapse(If(loads.list + loads.crawls > 0, "reload"))
        BY DEF fetchWorkflows
    <2>2. Calm /\ If(loads.list + loads.crawls > 0, "reload") \cap {"early", "reload", "retry"} = {}
        BY <1>3, <2>1, LapseStays
    <2> QED
        BY <2>2 DEF If
<1> QED
    BY <1>1, <1>2, <1>3

\* The dialog opens, with nothing selected or saved yet.
LEMMA InitSelectionStep == ASSUME RemovalInv, initSelection PROVE RemovalInv'
<1>1. /\ s' = [s EXCEPT !.selected = {}, !.deselected = {}, !.wf = NoSelection]
      /\ saved' = [items |-> {}, wf |-> NoSelection] /\ crawls' = None
      /\ UNCHANGED <<coll, known, saves, net>> /\ inits' = inits + 1 /\ fetchWorkflows
      /\ opened = None
    BY DEF initSelection
<1>2. /\ loads' \in [list : Nat, crawls : Nat]
      /\ Calm' => Calm /\ loads'.list + loads'.crawls <= 1
    BY <1>1, FetchLoads
<1>3. IsSelection(s) /\ s.batch = None
    BY <1>1 DEF RemovalInv, Typed, Untouched
<1>4. /\ IsSelection(s)' /\ s'.batch = None /\ s'.deselected = {} /\ s'.selected = {}
    BY <1>1, <1>3 DEF IsSelection
<1>5. Typed'
    BY <1>1, <1>2, <1>4 DEF RemovalInv, Typed
<1>6. Kept' /\ OneLoad' /\ Untouched'
    BY <1>1, <1>2, <1>4 DEF Kept, OneLoad, Untouched
<1>7. LookedUp' /\ NotBack'
    BY <1>1, <1>4 DEF LookedUp, NotBack, Harmless, RemovedCrawls, Excluded
<1>8. SavesChecked' /\ RequestsOfSaves'
    BY <1>1, <1>2, SavesStay
<1> QED
    BY <1>5, <1>6, <1>7, <1>8 DEF RemovalInv

\* The uploads arrive, and the saved selection with them.
LEMMA UploadsArriveStep == ASSUME RemovalInv, uploadsArrive PROVE RemovalInv'
<1> DEFINE st == [s EXCEPT !.selected = @ \cup (coll \cap Uploads)]
<1>1. /\ s' = st /\ saved' = [saved EXCEPT !.items = st.selected]
      /\ inits > 0 /\ inits' = inits - 1
      /\ UNCHANGED <<lapses, coll, opened, loads, crawls, known, deps, saves, net>>
    BY DEF uploadsArrive, Select
<1>2. Typed /\ IsSelection(s)
    BY DEF RemovalInv, Typed
<1>3. /\ s'.selected = s.selected \cup (coll \cap Uploads)
      /\ s'.deselected = s.deselected /\ s'.batch = s.batch
      /\ saved'.items = s'.selected /\ saved'.wf = saved.wf
      /\ IsSelection(s)' /\ saved' = [items |-> saved'.items, wf |-> saved'.wf]
    BY <1>1, <1>2 DEF Typed, IsSelection
<1>4. s'.selected \cap Crawls = s.selected \cap Crawls
    BY <1>3, CollectionItemsAssumption
<1>5. Calm' <=> Calm
    BY <1>1 DEF Calm, Without
<1>6. Typed'
    BY <1>1, <1>2, <1>3 DEF Typed, IsSelection
<1>7. OneLoad' /\ SavesChecked' /\ RequestsOfSaves'
    BY <1>1, <1>5, SavesStay DEF RemovalInv, OneLoad
<1>8. Kept' /\ Untouched'
    BY <1>1, <1>3, <1>4, <1>5 DEF RemovalInv, Kept, Untouched
<1>9. Calm => s.batch = None /\ s.deselected \cap Crawls = {}
    BY <1>1 DEF RemovalInv, Untouched
<1>10. Calm' => Harmless(s, saved, crawls)' /\ ~Excluded(s, crawls)'
    BY <1>3, <1>5, <1>9 DEF Harmless, RemovedCrawls, Excluded
<1>11. LookedUp' /\ NotBack'
    BY <1>10 DEF LookedUp, NotBack
<1> QED
    BY <1>6, <1>7, <1>8, <1>11 DEF RemovalInv

\* A sort, a filter or a second opening loads the workflows again.
LEMMA ReloadStep == ASSUME RemovalInv, Reload PROVE RemovalInv'
<1>1. /\ UNCHANGED <<coll, opened, s, saved, crawls, known, deps, saves, net, inits>>
      /\ fetchWorkflows
    BY DEF Reload, dialog
<1>2. /\ loads' \in [list : Nat, crawls : Nat] /\ loads'.crawls = loads.crawls
      /\ Calm' => Calm /\ loads'.list + loads'.crawls <= 1
    BY <1>1, FetchLoads
<1>3. LookedUp' /\ NotBack' /\ SavesChecked' /\ RequestsOfSaves' /\ IsSelection(s)'
    BY <1>1, <1>2, SelectionStays
<1>4. Typed' /\ Kept' /\ OneLoad' /\ Untouched'
    BY <1>1, <1>2, <1>3 DEF RemovalInv, Typed, Kept, OneLoad, Untouched
<1> QED
    BY <1>3, <1>4 DEF RemovalInv

\* The workflows arrive: crawls are asked for if there are none.
LEMMA WorkflowsArriveStep == ASSUME RemovalInv, workflowsArrive PROVE RemovalInv'
<1>1. /\ UNCHANGED <<lapses, coll, opened, s, saved, crawls, known, deps, saves, net, inits>>
      /\ loads.list > 0
      /\ loads' = [list |-> loads.list - 1,
                   crawls |-> loads.crawls + (IF crawls = None THEN 1 ELSE 0)]
    BY DEF workflowsArrive, dialog
<1>2. Calm' <=> Calm
    BY <1>1 DEF Calm, Without
<1>3. LookedUp' /\ NotBack' /\ SavesChecked' /\ RequestsOfSaves' /\ IsSelection(s)'
    BY <1>1, <1>2, SelectionStays
<1>4. Typed' /\ Kept' /\ OneLoad' /\ Untouched'
    BY <1>1, <1>2, <1>3 DEF RemovalInv, Typed, Kept, OneLoad, Untouched
<1> QED
    BY <1>3, <1>4 DEF RemovalInv

\* The workflow's crawls arrive: those in the collection join the saved selection.
LEMMA CrawlsArriveStep == ASSUME RemovalInv, crawlsArrive PROVE RemovalInv'
<1> DEFINE sc == coll \cap Crawls
<1>1. /\ UNCHANGED <<lapses, coll, opened, deps, saves, net, inits>>
      /\ loads.crawls > 0 /\ loads' = [loads EXCEPT !.crawls = @ - 1]
      /\ crawls' = [page |-> 1, selected |-> sc]
      /\ known' = known \cup sc \cup Range(Pages[1])
    BY DEF crawlsArrive
<1>2. PICK wf : /\ s' = [s EXCEPT !.selected = @ \cup sc, !.wf = wf]
                /\ saved' = [items |-> saved.items \cup sc, wf |-> wf]
    BY DEF crawlsArrive
<1>3. Typed /\ IsSelection(s) /\ Range(Pages[1]) \subseteq Crawls /\ 1 \in DOMAIN Pages
    BY PagesOfCrawls, CollectionItemsAssumption DEF RemovalInv, Typed
<1>4. /\ s'.selected = s.selected \cup sc /\ s'.deselected = s.deselected /\ s'.batch = s.batch
      /\ saved'.items = saved.items \cup sc
      /\ IsSelection(s)' /\ saved' = [items |-> saved'.items, wf |-> saved'.wf]
    BY <1>2, <1>3 DEF Typed, IsSelection, Items
<1>5. Calm' <=> Calm
    BY <1>1 DEF Calm, Without
<1>6. Calm => /\ crawls = None /\ loads'.list + loads'.crawls = 0 /\ loads'.crawls = 0
              /\ s.deselected \cap Crawls = {} /\ s.batch = None
              /\ saved.items \cap Crawls \subseteq s.selected
              /\ s.selected \cap Crawls \subseteq known
    BY <1>1, <1>3 DEF RemovalInv, Typed, OneLoad, Untouched
<1>7. Typed'
    BY <1>1, <1>3, <1>4 DEF Typed, Items
<1>8. Kept' /\ OneLoad'
    BY <1>1, <1>4, <1>5, <1>6 DEF RemovalInv, Kept, OneLoad
<1>9. Untouched'
    BY <1>1, <1>4, <1>5, <1>6 DEF RemovalInv, Untouched
<1>10. Calm' => Harmless(s, saved, crawls)' /\ ~Excluded(s, crawls)'
    BY <1>4, <1>5, <1>6 DEF Harmless, RemovedCrawls, Excluded
<1>11. LookedUp' /\ NotBack'
    BY <1>10 DEF LookedUp, NotBack
<1>12. SavesChecked' /\ RequestsOfSaves'
    BY <1>1, <1>5, SavesStay
<1> QED
    BY <1>7, <1>8, <1>9, <1>11, <1>12 DEF RemovalInv

\* Another page of the workflow's crawls makes more of them known.
LEMMA PageChangeStep ==
    ASSUME RemovalInv, NEW p \in DOMAIN Pages, PageChange(p) PROVE RemovalInv'
<1>1. /\ UNCHANGED <<lapses, coll, opened, s, saved, deps, saves, net, inits, loads>>
      /\ crawls # None /\ crawls' = [crawls EXCEPT !.page = p]
      /\ known' = known \cup Range(Pages[p])
    BY DEF PageChange
<1>2. Calm' <=> Calm
    BY <1>1 DEF Calm, Without
<1>3. /\ crawls' \in [page : DOMAIN Pages, selected : SUBSET Crawls] /\ crawls' # None
      /\ Range(Pages[p]) \subseteq Crawls
    BY <1>1, PagesOfCrawls, CollectionItemsAssumption DEF RemovalInv, Typed
<1>4. /\ Excluded(s, crawls') <=> Excluded(s, crawls)
      /\ Full(s, saved, crawls') <=> Full(s, saved, crawls)
    BY <1>1, <1>3 DEF Excluded, Full, Added
<1>5. LookedUp' /\ NotBack' /\ SavesChecked' /\ RequestsOfSaves' /\ IsSelection(s)'
    BY <1>1, <1>2, <1>4, SelectionStays
<1>6. Typed' /\ Kept' /\ OneLoad' /\ Untouched'
    BY <1>1, <1>2, <1>3, <1>5 DEF RemovalInv, Typed, Kept, OneLoad, Untouched
<1> QED
    BY <1>5, <1>6 DEF RemovalInv

\* The list of the collection's crawls instead of the tree, and back.
LEMMA ToggleOnlyInStep == ASSUME RemovalInv, ToggleOnlyIn PROVE RemovalInv'
<1>1. /\ UNCHANGED <<coll, opened, s, saved, crawls, known, deps, saves, net, inits>>
      /\ fetchWorkflows \/ UNCHANGED <<loads, lapses>>
    BY DEF ToggleOnlyIn
<1>2. /\ loads' \in [list : Nat, crawls : Nat] /\ loads'.crawls = loads.crawls
      /\ Calm' => Calm /\ loads'.list + loads'.crawls <= 1
    <2>1. CASE fetchWorkflows
        BY <2>1, FetchLoads
    <2>2. CASE UNCHANGED <<loads, lapses>>
        BY <2>2 DEF RemovalInv, Typed, OneLoad, Calm, Without
    <2> QED
        BY <1>1, <2>1, <2>2
<1>3. LookedUp' /\ NotBack' /\ SavesChecked' /\ RequestsOfSaves' /\ IsSelection(s)'
    BY <1>1, <1>2, SelectionStays
<1>4. Typed' /\ Kept' /\ OneLoad' /\ Untouched'
    BY <1>1, <1>2, <1>3 DEF RemovalInv, Typed, Kept, OneLoad, Untouched
<1> QED
    BY <1>3, <1>4 DEF RemovalInv

\* "Edit Selection" takes the question back.
LEMMA EditSelectionStep == ASSUME RemovalInv, EditSelection PROVE RemovalInv'
<1>1. UNCHANGED <<lapses, coll, opened, s, saved, crawls, known, deps, saves, net, inits, loads>>
    BY DEF EditSelection, dialog
<1>2. Calm' <=> Calm
    BY <1>1 DEF Calm, Without
<1>3. LookedUp' /\ NotBack' /\ SavesChecked' /\ RequestsOfSaves' /\ IsSelection(s)'
    BY <1>1, <1>2, SelectionStays
<1>4. Typed' /\ Kept' /\ OneLoad' /\ Untouched'
    BY <1>1, <1>2, <1>3 DEF RemovalInv, Typed, Kept, OneLoad, Untouched
<1> QED
    BY <1>3, <1>4 DEF RemovalInv

-----------------------------------------------------------------------------
(* What the user changes.                                                    *)

\* An edit that is no lapse is made when nothing is being loaded or saved.
LEMMA EditIsCalm ==
    ASSUME NEW where, NEW set, Lapse(EditLapses(where) \cup set), Calm'
    PROVE  Calm /\ ~(inits > 0) /\ net = {} /\ set \cap {"early", "reload", "retry"} = {}
<1>1. Calm /\ (EditLapses(where) \cup set) \cap {"early", "reload", "retry"} = {}
    BY LapseStays
<1>2. /\ If(inits > 0, "early") \subseteq EditLapses(where)
      /\ If(net # {} \/ coll # opened, "retry") \subseteq EditLapses(where)
    BY DEF EditLapses
<1> QED
    BY <1>1, <1>2 DEF If

\* Whatever becomes of the selection of crawls, the task looks for what it removes.
LEMMA CrawlsChangeStep ==
    ASSUME RemovalInv, NEW st, IsSelection(st), s' = st, runDependencies(st),
           UNCHANGED <<coll, opened, saved, crawls, known, loads, inits, saves, net>>,
           opened # None, crawls # None,
           Calm' => Calm /\ ~(inits > 0) /\ net = {}
    PROVE  RemovalInv'
<1>1. Typed' /\ Kept' /\ OneLoad'
    BY DEF RemovalInv, Typed, Kept, OneLoad, IsSelection
<1>2. Untouched'
    BY DEF Untouched
<1>3. SavesChecked' /\ RequestsOfSaves'
    BY SavesStay
<1>4. NotBack'
    BY DEF NotBack
<1>5. ASSUME Calm', deps' = Complete({})
      PROVE  Harmless(s, saved, crawls)'
    <2>1. ~Removes(difference(st, saved, crawls))
        BY <1>5 DEF runDependencies, Pending, Complete
    <2>2. /\ difference(st, saved, crawls).removedItems = {}
          /\ difference(st, saved, crawls).excludedContainers = {}
        BY <2>1 DEF Removes
    <2>3. saved.items \cap Crawls \subseteq known
        BY <1>5 DEF RemovalInv, Kept
    <2>4. RemovedCrawls(st, saved, crawls) = {} /\ ~Excluded(st, crawls)
        BY <2>2, <2>3, Difference
    <2> QED
        BY <2>4 DEF Harmless
<1>6. LookedUp'
    BY <1>5 DEF LookedUp
<1> QED
    BY <1>1, <1>2, <1>3, <1>4, <1>6 DEF RemovalInv

\* The handlers of the tree make a selection again.
LEMMA HandlersSelect ==
    ASSUME RemovalInv, NEW add \in SUBSET Crawls, NEW rem \in SUBSET Crawls, NEW n
    PROVE  /\ IsSelection(AllChecked(s)) /\ IsSelection(NoneChecked(s))
           /\ IsSelection(SomeOfAll(s, add, rem, n)) /\ IsSelection(SomeChecked(s, add, rem, n))
<1>1. IsSelection(s) /\ Crawls \subseteq Items
    BY DEF RemovalInv, Typed, Items
<1>2. \A x : [operation |-> "add", omitCrawls |-> {}] \in Batches
             /\ [operation |-> "remove", omitCrawls |-> {}] \in Batches
    BY DEF Batches
<1>3. IsSelection(AllChecked(s))
    BY <1>1, <1>2 DEF AllChecked, IsSelection
<1>4. IsSelection(NoneChecked(s))
    BY <1>1, <1>2 DEF NoneChecked, IsSelection
<1>5. IsSelection(SomeOfAll(s, add, rem, n))
    BY <1>1 DEF SomeOfAll, IsSelection, Batches
<1>6. IsSelection(SomeChecked(s, add, rem, n))
    BY <1>1, <1>2 DEF SomeChecked, IsSelection, Batches
<1> QED
    BY <1>3, <1>4, <1>5, <1>6

\* The tree reports a change of the user's.
LEMMA SelectionChangeStep ==
    ASSUME RemovalInv, NEW els, NEW wf, TreeShown, CanEdit("tree"), SelectionChange(els, wf)
    PROVE  RemovalInv'
<1> DEFINE page == Pages[crawls.page]
           add == {c \in Range(page) : c \in els /\ c \notin tree.prev}
           rem == {c \in Range(page) : c \notin els /\ c \in tree.prev}
           n == Counted(s, els, tree.prev, page)
           st == IF wf = "true" THEN AllChecked(s)
                 ELSE IF wf = "false" THEN NoneChecked(s)
                 ELSE IF s.wf.all THEN SomeOfAll(s, add, rem, n)
                 ELSE SomeChecked(s, add, rem, n)
<1>1. /\ Lapse(EditLapses("tree")
               \cup If(Batch(st).operation = "remove" /\ Batch(st).omitCrawls # {}, "recheck"))
      /\ Select(st, [tree EXCEPT !.els = els, !.wf = wf, !.prev = els], list)
      /\ runDependencies(st)
    BY DEF SelectionChange
<1>2. crawls # None /\ opened # None
      /\ UNCHANGED <<coll, opened, saved, crawls, known, loads, inits, saves, net>>
    BY DEF TreeShown, CanEdit
<1>3. crawls.page \in DOMAIN Pages
    BY <1>2 DEF RemovalInv, Typed
<1>4. add \in SUBSET Crawls /\ rem \in SUBSET Crawls
    BY <1>3, PagesOfCrawls
<1> HIDE DEF add, rem, n
<1>5. IsSelection(st)
    BY <1>4, HandlersSelect
<1> HIDE DEF st
<1>6. s' = st
    BY <1>1 DEF Select
<1>7. Calm' => Calm /\ ~(inits > 0) /\ net = {}
    BY <1>1, EditIsCalm
<1> QED
    BY <1>1, <1>2, <1>5, <1>6, <1>7, CrawlsChangeStep

\* The user checks or unchecks an item of the list.
LEMMA ItemChangeStep == ASSUME RemovalInv, NEW i \in Items, ItemChange(i) PROVE RemovalInv'
<1> DEFINE where == IF i \in Crawls THEN "list" ELSE "uploads"
           checked == i \notin list.els
           deselected == IF checked THEN s.deselected \ {i} ELSE s.deselected \cup {i}
           selected == IF checked THEN s.selected \cup {i} ELSE s.selected \ {i}
           set == If(i \in Crawls /\ crawls = None, "early")
                  \cup If(i \in Crawls /\ checked /\ ~s.wf.all, "recheck")
<1>1. /\ Lapse(EditLapses(where) \cup set)
      /\ CanEdit(where)
    <2>1. Lapse(EditLapses(where) \cup If(i \in Crawls /\ crawls = None, "early")
                \cup If(i \in Crawls /\ checked /\ ~s.wf.all, "recheck"))
          /\ CanEdit(where)
        BY DEF ItemChange
    <2>2. EditLapses(where) \cup If(i \in Crawls /\ crawls = None, "early")
                \cup If(i \in Crawls /\ checked /\ ~s.wf.all, "recheck") = EditLapses(where) \cup set
        OBVIOUS
    <2> QED
        BY <2>1, <2>2
<1>2. opened # None /\ UNCHANGED <<coll, opened, saved, crawls, known, loads, inits, saves, net>>
    BY <1>1 DEF CanEdit
<1>3. Calm' => /\ Calm /\ ~(inits > 0) /\ net = {}
               /\ i \in Crawls => crawls # None
    <2>1. Calm' => Calm /\ ~(inits > 0) /\ net = {} /\ set \cap {"early", "reload", "retry"} = {}
        BY <1>1, EditIsCalm
    <2> QED
        BY <2>1 DEF If
<1>4. IsSelection(s) /\ (i \in Uploads => i \notin Crawls) /\ (i \notin Uploads => i \in Crawls)
    BY CollectionItemsAssumption DEF RemovalInv, Typed, Items
<1>5. CASE i \in Uploads
    <2>1. s' = [s EXCEPT !.selected = selected] /\ deps' = deps
        BY <1>5 DEF ItemChange, Select
    <2>2. /\ s'.selected = selected /\ s'.deselected = s.deselected /\ s'.batch = s.batch
          /\ IsSelection(s)'
        BY <2>1, <1>4 DEF IsSelection
    <2>3. selected \cap Crawls = s.selected \cap Crawls
        BY <1>4, <1>5
    <2>4. Typed' /\ Kept' /\ OneLoad'
        BY <1>2, <1>3, <2>2 DEF RemovalInv, Typed, Kept, OneLoad
    <2>5. Untouched'
        BY <1>2, <1>3, <2>2, <2>3 DEF RemovalInv, Untouched
    <2>6. SavesChecked' /\ RequestsOfSaves' /\ NotBack'
        BY <1>2, <1>3, SavesStay DEF NotBack
    <2>7. /\ Excluded(s', crawls') <=> Excluded(s, crawls)
          /\ Full(s', saved', crawls') <=> Full(s, saved, crawls)
        BY <1>2, <2>2 DEF Excluded, Full, Added
    <2>8. Harmless(s, saved, crawls) => Harmless(s, saved, crawls)'
        BY <1>2, <2>2, <2>3, <2>7 DEF Harmless, RemovedCrawls
    <2>9. LookedUp'
        BY <1>3, <2>1, <2>8 DEF RemovalInv, LookedUp
    <2> QED
        BY <2>4, <2>5, <2>6, <2>9 DEF RemovalInv
<1>6. CASE i \notin Uploads /\ crawls # None
    <2>1. PICK wf : LET st == IF s.wf.all THEN [s EXCEPT !.deselected = deselected, !.wf = wf]
                              ELSE [s EXCEPT !.selected = selected, !.wf = wf]
                    IN s' = st /\ runDependencies(st)
        BY <1>6 DEF ItemChange, Select
    <2>2. IsSelection(s')
        BY <1>4, <2>1 DEF IsSelection
    <2>3. runDependencies(s')
        BY <2>1
    <2> QED
        BY <1>2, <1>3, <1>6, <2>2, <2>3, CrawlsChangeStep
<1>7. CASE i \notin Uploads /\ crawls = None
    <2>1. UNCHANGED <<s, deps>> /\ ~Calm'
        BY <1>3, <1>4, <1>7 DEF ItemChange
    <2> QED
        BY <1>2, <2>1, SavesStay DEF RemovalInv, Typed, Kept, OneLoad, Untouched, LookedUp,
                                     NotBack, IsSelection
<1> QED
    BY <1>5, <1>6, <1>7

-----------------------------------------------------------------------------
(* Saving.                                                                   *)

\* A save that waits for the task has no requests, and a new one neither.
Fresh(n) == n = Len(saves) + 1 \/ n \in Waiting

\* A save put at n leaves the others as they were.
LEMMA PutSave ==
    ASSUME RemovalInv, NEW n, Fresh(n), NEW sv \in SaveRecords
    PROVE  /\ Put(n, sv) \in Seq(SaveRecords) /\ n \in Nat
           /\ DOMAIN Put(n, sv) = DOMAIN saves \cup {n} /\ Put(n, sv)[n] = sv
           /\ \A m \in DOMAIN saves : m # n => Put(n, sv)[m] = saves[m]
           /\ \A r \in net : r.save \in DOMAIN saves /\ r.save # n
<1>1. saves \in Seq(SaveRecords)
    BY DEF RemovalInv, Typed
<1>2. \A r \in net : r.save \in DOMAIN saves /\ saves[r.save].stage # "deps"
    BY DEF RemovalInv, RequestsOfSaves, OfSave
<1>3. CASE n = Len(saves) + 1
    <2>1. Put(n, sv) = Append(saves, sv) /\ n \in Nat /\ n \notin DOMAIN saves
        BY <1>1, <1>3 DEF Put
    <2>2. /\ Append(saves, sv) \in Seq(SaveRecords) /\ Len(Append(saves, sv)) = n
          /\ \A m \in 1..Len(saves) : Append(saves, sv)[m] = saves[m]
          /\ Append(saves, sv)[n] = sv
        BY <1>1, <1>3
    <2>3. DOMAIN saves = 1..Len(saves) /\ DOMAIN Append(saves, sv) = 1..n
        BY <1>1, <2>2
    <2>4. 1..n = 1..Len(saves) \cup {n}
        BY <1>1, <1>3
    <2>5. DOMAIN Put(n, sv) = DOMAIN saves \cup {n}
        BY <2>1, <2>3, <2>4
    <2>6. \A m \in DOMAIN saves : Put(n, sv)[m] = saves[m]
        BY <2>1, <2>2, <2>3
    <2>7. \A r \in net : r.save \in DOMAIN saves /\ r.save # n
        BY <1>2, <2>1
    <2> QED
        BY <2>1, <2>2, <2>5, <2>6, <2>7
<1>4. CASE n \in Waiting
    <2>1. n \in DOMAIN saves /\ saves[n].stage = "deps"
        BY <1>4 DEF Waiting
    <2>2. Put(n, sv) = [saves EXCEPT ![n] = sv]
        BY <1>1, <2>1 DEF Put
    <2>3. /\ [saves EXCEPT ![n] = sv] \in Seq(SaveRecords) /\ n \in Nat
          /\ DOMAIN [saves EXCEPT ![n] = sv] = DOMAIN saves
        BY <1>1, <2>1
    <2>4. \A r \in net : r.save \in DOMAIN saves /\ r.save # n
        BY <1>2, <2>1
    <2> QED
        BY <2>1, <2>2, <2>3, <2>4
<1> QED
    BY <1>3, <1>4 DEF Fresh

\* Saves and requests after a save was put at n, whose requests are new.
LEMMA PutStep ==
    ASSUME RemovalInv, NEW n, Fresh(n), NEW sv \in SaveRecords, sv.stage # "deps",
           saves' = Put(n, sv), lapses' = lapses, Calm => Checked(sv),
           NEW new \in SUBSET Requests, net' = net \cup new,
           \A r \in new : /\ r.save = n
                          /\ r.kind = "remove" => r.ids \subseteq sv.remove \/ sv.workflows = "remove"
    PROVE  /\ saves' \in Seq(SaveRecords) /\ net' \subseteq Requests
           /\ SavesChecked' /\ RequestsOfSaves'
           /\ \A r \in net : saves'[r.save] = saves[r.save]
           /\ \A r \in new : saves'[r.save] = sv
<1>1. /\ saves' \in Seq(SaveRecords) /\ n \in Nat
      /\ DOMAIN saves' = DOMAIN saves \cup {n} /\ saves'[n] = sv
      /\ \A m \in DOMAIN saves : m # n => saves'[m] = saves[m]
      /\ \A r \in net : r.save \in DOMAIN saves /\ r.save # n
    <2>1. /\ Put(n, sv) \in Seq(SaveRecords) /\ n \in Nat
          /\ DOMAIN Put(n, sv) = DOMAIN saves \cup {n} /\ Put(n, sv)[n] = sv
          /\ \A m \in DOMAIN saves : m # n => Put(n, sv)[m] = saves[m]
          /\ \A r \in net : r.save \in DOMAIN saves /\ r.save # n
        BY PutSave
    <2> QED
        BY <2>1
<1>2. Calm' <=> Calm
    BY DEF Calm, Without
<1>3. SavesChecked'
    BY <1>1, <1>2 DEF RemovalInv, SavesChecked, Checked
<1>4. RequestsOfSaves'
    <2> SUFFICES ASSUME NEW r \in net' PROVE OfSave(r)'
        BY DEF RequestsOfSaves
    <2>1. CASE r \in net
        BY <1>1, <2>1 DEF RemovalInv, RequestsOfSaves, OfSave
    <2>2. CASE r \in new
        BY <1>1, <2>2 DEF OfSave
    <2> QED
        BY <2>1, <2>2
<1> QED
    BY <1>1, <1>3, <1>4 DEF RemovalInv, Typed

\* The requests of a save are about items, and carry what the save says.
LEMMA RequestsOfItems ==
    ASSUME NEW n \in Nat, NEW sv \in SaveRecords
    PROVE  \A r \in ItemRequests(n, sv) :
              /\ r \in Requests /\ r.save = n /\ r.stage = "items"
              /\ r.kind = "add" => r.ids \subseteq sv.add
              /\ r.kind = "remove" => r.ids \subseteq sv.remove
<1>1. addItems(sv) \subseteq sv.add /\ removeItems(sv) \subseteq sv.remove
    BY DEF addItems, removeItems
<1>2. sv.add \subseteq Items /\ sv.remove \subseteq Items
    BY DEF SaveRecords
<1>3. /\ Request(n, "items", "add", addItems(sv)) \in Requests
      /\ Request(n, "items", "remove", removeItems(sv)) \in Requests
    BY <1>1, <1>2 DEF Request, Requests
<1> QED
    BY <1>1, <1>3 DEF ItemRequests, Request

\* What a save that starts asks for, and that the check covers it.
LEMMA StartedSave ==
    ASSUME RemovalInv, NEW confirmed \in BOOLEAN
    PROVE  LET sv == Started(confirmed) IN
           /\ sv \in SaveRecords /\ sv.stage = "workflows" /\ sv.confirmed = confirmed
           /\ sv.add \cap saved.items = {}
           /\ Excluded(s, crawls) => sv.workflows = "remove"
           /\ Calm /\ Harmless(s, saved, crawls) => Checked(sv)
<1> DEFINE sv == Started(confirmed)
           d == difference(s, saved, crawls)
<1>1. /\ d.includedContainers = IF Added(s, crawls) THEN {W} ELSE {}
      /\ d.excludedContainers = IF Excluded(s, crawls) THEN {W} ELSE {}
      /\ saved.items \cap Crawls \subseteq known
            => d.removedItems \cap Crawls = RemovedCrawls(s, saved, crawls)
      /\ d.removedItems \subseteq saved.items
      /\ d.addedItems \cap saved.items = {}
      /\ d.addedItems \subseteq known \cup s.selected
    BY Difference
<1> HIDE DEF d
<1>2. sv = [stage |-> "workflows", confirmed |-> confirmed, want |-> Shown(s),
            had |-> saved.items \cap coll, add |-> d.addedItems,
            remove |-> d.removedItems \cup
                       (IF d.includedContainers = {} THEN {} ELSE OfWorkflow(s.deselected)),
            workflows |-> IF d.includedContainers # {} THEN "add"
                          ELSE IF d.excludedContainers # {} THEN "remove" ELSE "none"]
    BY DEF Started, d
<1> HIDE DEF sv
<1>3. /\ sv.stage = "workflows" /\ sv.confirmed = confirmed /\ sv.had = saved.items \cap coll
      /\ sv.add = d.addedItems
      /\ sv.remove = d.removedItems \cup
                     (IF Added(s, crawls) THEN OfWorkflow(s.deselected) ELSE {})
      /\ sv.workflows = IF Added(s, crawls) THEN "add"
                        ELSE IF Excluded(s, crawls) THEN "remove" ELSE "none"
    BY <1>1, <1>2
<1>4. sv \in SaveRecords
    <2>1. Shown(s) \subseteq Items
        BY DEF Shown, Items
    <2>2. /\ s.selected \subseteq Items /\ s.deselected \subseteq Items /\ known \subseteq Items
          /\ saved.items \subseteq Items
        BY DEF RemovalInv, Typed, IsSelection, Items
    <2>3. sv.add \subseteq Items /\ sv.remove \subseteq Items /\ sv.had \subseteq Items
        BY <1>1, <1>3, <2>2 DEF OfWorkflow
    <2>4. sv.workflows \in {"add", "remove", "none"}
        BY <1>3
    <2> QED
        BY <1>2, <1>3, <2>1, <2>3, <2>4 DEF SaveRecords
<1>5. Excluded(s, crawls) => ~Added(s, crawls)
    BY DEF Excluded, Added
<1>6. ASSUME Calm, Harmless(s, saved, crawls) PROVE Checked(sv)
    <2>1. d.removedItems \cap Deps \cap Crawls = {}
        BY <1>1, <1>6 DEF RemovalInv, Kept, Harmless
    <2>2. Added(s, crawls) => OfWorkflow(s.deselected) \cap saved.items \cap Crawls
                                \subseteq RemovedCrawls(s, saved, crawls)
        BY DEF RemovedCrawls, Full, OfWorkflow
    <2>3. sv.remove \cap sv.had \cap Deps \cap Crawls = {}
        BY <1>3, <1>6, <2>1, <2>2 DEF Harmless
    <2>4. sv.workflows = "remove" => sv.had \cap Deps \cap Crawls = {}
        BY <1>3, <1>6 DEF Harmless
    <2> QED
        BY <2>3, <2>4 DEF Checked
<1> QED
    BY <1>1, <1>3, <1>4, <1>5, <1>6 DEF sv

\* The same saves, of which stages may have changed.
Alike(a, b) ==
    /\ b \in Seq(SaveRecords) /\ DOMAIN b = DOMAIN a
    /\ \A m \in DOMAIN a :
          /\ b[m].confirmed = a[m].confirmed /\ b[m].had = a[m].had /\ b[m].add = a[m].add
          /\ b[m].remove = a[m].remove /\ b[m].workflows = a[m].workflows
          /\ a[m].stage # "deps" => b[m].stage # "deps"

\* A dialog that closes lets the saves that wait for the task go on, to nothing, and
\* changes nothing else.
LEMMA GoOnAlike == ASSUME saves \in Seq(SaveRecords) PROVE Alike(saves, GoOn)
<1>1. \A m \in DOMAIN saves : saves[m] \in SaveRecords
    OBVIOUS
<1>2. \A m \in DOMAIN saves :
         /\ GoOn[m] = IF m \in Waiting THEN [saves[m] EXCEPT !.stage = "saved"] ELSE saves[m]
         /\ GoOn[m] \in SaveRecords
    BY <1>1 DEF GoOn, SaveRecords
<1>3. DOMAIN GoOn = 1..Len(saves) /\ DOMAIN saves = 1..Len(saves) /\ Len(saves) \in Nat
    BY DEF GoOn
<1>4. GoOn \in Seq(SaveRecords)
    <2>1. GoOn = [m \in 1..Len(saves) |-> GoOn[m]]
        BY <1>3 DEF GoOn
    <2>2. \A m \in 1..Len(saves) : GoOn[m] \in SaveRecords
        BY <1>2, <1>3
    <2>3. GoOn \in [1..Len(saves) -> SaveRecords]
        BY <2>1, <2>2, Zenon
    <2> QED
        BY <1>3, <2>3
<1>5. \A m \in DOMAIN saves :
         /\ GoOn[m].confirmed = saves[m].confirmed /\ GoOn[m].had = saves[m].had
         /\ GoOn[m].add = saves[m].add /\ GoOn[m].remove = saves[m].remove
         /\ GoOn[m].workflows = saves[m].workflows
         /\ saves[m].stage # "deps" => GoOn[m].stage # "deps"
  <2> SUFFICES ASSUME NEW m \in DOMAIN saves
               PROVE  /\ GoOn[m].confirmed = saves[m].confirmed /\ GoOn[m].had = saves[m].had
                      /\ GoOn[m].add = saves[m].add /\ GoOn[m].remove = saves[m].remove
                      /\ GoOn[m].workflows = saves[m].workflows
                      /\ saves[m].stage # "deps" => GoOn[m].stage # "deps"
    OBVIOUS
  <2>1. saves[m] \in SaveRecords
    BY <1>1
  <2>2. GoOn[m] = [saves[m] EXCEPT !.stage = "saved"] \/ GoOn[m] = saves[m]
    BY <1>2
  <2> QED BY <2>1, <2>2 DEF SaveRecords
<1> QED
    BY <1>3, <1>4, <1>5 DEF Alike

\* A save moves to another stage, and nothing else.
LEMMA StageAlike ==
    ASSUME NEW a \in Seq(SaveRecords), NEW n \in DOMAIN a,
           NEW x \in {"items", "failed", "saved"}
    PROVE  Alike(a, [a EXCEPT ![n].stage = x])
<1> DEFINE b == [a EXCEPT ![n].stage = x]
<1>1. \A m \in DOMAIN a : a[m] \in SaveRecords
    OBVIOUS
<1>2. DOMAIN b = DOMAIN a /\ b[n] = [a[n] EXCEPT !.stage = x]
      /\ \A m \in DOMAIN a : m # n => b[m] = a[m]
    OBVIOUS
<1>3. [a[n] EXCEPT !.stage = x] \in SaveRecords
    BY <1>1 DEF SaveRecords
<1>4. b \in Seq(SaveRecords)
    BY <1>2, <1>3
<1> HIDE DEF b
<1>5. \A m \in DOMAIN a :
         /\ b[m].confirmed = a[m].confirmed /\ b[m].had = a[m].had /\ b[m].add = a[m].add
         /\ b[m].remove = a[m].remove /\ b[m].workflows = a[m].workflows
         /\ a[m].stage # "deps" => b[m].stage # "deps"
    BY <1>1, <1>2 DEF SaveRecords
<1>6. Alike(a, b)
    BY <1>2, <1>4, <1>5 DEF Alike
<1> QED
    BY <1>6 DEF b

\* An action that moves saves to other stages only.
LEMMA AlikeStep ==
    ASSUME NEW a, Alike(a, saves'), Calm' => Calm, Calm => \A m \in DOMAIN a : Checked(a[m]),
           \A r \in net' : /\ r.save \in DOMAIN a /\ a[r.save].stage # "deps"
                           /\ r.kind = "remove" => \/ r.ids \subseteq a[r.save].remove
                                                   \/ a[r.save].workflows = "remove"
    PROVE  SavesChecked' /\ RequestsOfSaves' /\ saves' \in Seq(SaveRecords)
<1>2. SavesChecked'
    BY DEF SavesChecked, Checked, Alike
<1>3. RequestsOfSaves'
    BY DEF RequestsOfSaves, OfSave, Alike
<1> QED
    BY <1>2, <1>3 DEF Alike

\* A save that has had all its answers closes the dialog.
LEMMA SavedStep ==
    ASSUME RemovalInv, NEW a \in Seq(SaveRecords), NEW n \in DOMAIN a, Saved(a, n),
           coll' \subseteq Items, UNCHANGED <<crawls, known, loads, inits, lapses>>,
           net' \subseteq Requests, Calm => \A m \in DOMAIN a : Checked(a[m]),
           \A r \in net' : /\ r.save \in DOMAIN a /\ a[r.save].stage # "deps"
                           /\ r.kind = "remove" => \/ r.ids \subseteq a[r.save].remove
                                                   \/ a[r.save].workflows = "remove"
    PROVE  RemovalInv'
<1>0. Calm' => Calm
    BY CalmStays
<1>1. reset /\ saves' = [a EXCEPT ![n].stage = "saved"]
    BY DEF Saved
<1>5. Alike(a, saves')
    BY <1>1, StageAlike
<1>6. SavesChecked' /\ RequestsOfSaves' /\ saves' \in Seq(SaveRecords)
    BY <1>0, <1>5, AlikeStep
<1>7. /\ IsSelection(s)' /\ saved' = [items |-> saved'.items, wf |-> saved'.wf]
      /\ saved'.items = {}
      /\ Kept' /\ OneLoad' /\ Untouched' /\ LookedUp' /\ NotBack'
    BY <1>0, <1>1, ResetStep
<1>8. Typed'
    BY <1>6, <1>7 DEF RemovalInv, Typed
<1> QED
    BY <1>6, <1>7, <1>8 DEF RemovalInv

\* A save that begins, confirmed or after a check of the selection as it is.
LEMMA SaveStep ==
    ASSUME RemovalInv, NEW n, Fresh(n), NEW confirmed \in BOOLEAN, NEW dp,
           save(n, confirmed, dp), UNCHANGED <<coll, crawls, known, loads, inits, lapses>>,
           confirmed \/ dp = Complete({}),
           Calm /\ dp = Complete({}) => Harmless(s, saved, crawls)
    PROVE  RemovalInv'
<1>1. PICK sv \in SaveRecords :
         /\ sv = Started(confirmed) /\ sv.stage = "workflows" /\ sv.confirmed = confirmed
         /\ sv.add \cap saved.items = {}
         /\ Excluded(s, crawls) => sv.workflows = "remove"
         /\ Calm /\ Harmless(s, saved, crawls) => Checked(sv)
    BY StartedSave
<1> DEFINE workflows == sv.workflows # "none"
           requests == IF workflows THEN {Request(n, "workflows", sv.workflows, Crawls)}
                       ELSE ItemRequests(n, sv)
           put == IF workflows THEN sv ELSE [sv EXCEPT !.stage = "items"]
<1>2. IF requests = {} THEN Saved(Put(n, sv), n) /\ UNCHANGED net
      ELSE /\ saves' = Put(n, put) /\ net' = net \cup requests
           /\ deps' = dp /\ UNCHANGED <<opened, s, saved>>
    BY <1>1 DEF save
<1>3. Calm => Checked(sv)
    BY <1>1 DEF Checked
<1>4. /\ Put(n, sv) \in Seq(SaveRecords) /\ n \in Nat
      /\ DOMAIN Put(n, sv) = DOMAIN saves \cup {n} /\ Put(n, sv)[n] = sv
      /\ \A m \in DOMAIN saves : m # n => Put(n, sv)[m] = saves[m]
      /\ \A r \in net : r.save \in DOMAIN saves /\ r.save # n
    <2>1. sv \in SaveRecords
        BY <1>1
    <2> QED
        BY <2>1, PutSave
<1>5. /\ put \in SaveRecords /\ put.stage # "deps" /\ put.add = sv.add /\ put.remove = sv.remove
      /\ put.workflows = sv.workflows /\ (Calm => Checked(put))
    BY <1>1, <1>3 DEF SaveRecords, Checked
<1> HIDE DEF put
<1>6. \A r \in requests :
         /\ r \in Requests /\ r.save = n
         /\ r.kind = "add" => sv.workflows = "add" \/ r.ids \subseteq sv.add
         /\ r.kind = "remove" => r.ids \subseteq sv.remove \/ sv.workflows = "remove"
    <2>1. CASE workflows
        <3>1. sv.workflows \in {"add", "remove"} /\ Crawls \subseteq Items
            BY <2>1 DEF SaveRecords, Items
        <3>2. requests = {[save |-> n, stage |-> "workflows", kind |-> sv.workflows, ids |-> Crawls]}
            BY <2>1 DEF Request
        <3> QED
            BY <1>4, <3>1, <3>2 DEF Requests
    <2>2. CASE ~workflows
        BY <1>4, <2>2, RequestsOfItems
    <2> QED
        BY <2>1, <2>2
<1> HIDE DEF requests
<1>7. CASE requests = {}
    <2>1. Saved(Put(n, sv), n) /\ net' = net
        BY <1>2, <1>7
    <2>2. Calm => \A m \in DOMAIN Put(n, sv) : Checked(Put(n, sv)[m])
        BY <1>3, <1>4 DEF RemovalInv, SavesChecked
    <2>3. \A r \in net' : /\ r.save \in DOMAIN Put(n, sv) /\ Put(n, sv)[r.save].stage # "deps"
                          /\ r.kind = "remove" => \/ r.ids \subseteq Put(n, sv)[r.save].remove
                                                  \/ Put(n, sv)[r.save].workflows = "remove"
        BY <1>4, <2>1 DEF RemovalInv, RequestsOfSaves, OfSave
    <2>4. coll' \subseteq Items /\ net' \subseteq Requests
        BY <2>1 DEF RemovalInv, Typed
    <2> QED
        BY <1>4, <2>1, <2>2, <2>3, <2>4, SavedStep
<1>8. CASE requests # {}
    <2>1. /\ saves' = Put(n, put) /\ net' = net \cup requests
          /\ deps' = dp /\ UNCHANGED <<opened, s, saved>>
        BY <1>2, <1>8
    <2>2. /\ saves' \in Seq(SaveRecords) /\ net' \subseteq Requests
          /\ SavesChecked' /\ RequestsOfSaves'
          /\ \A r \in net : saves'[r.save] = saves[r.save]
          /\ \A r \in requests : saves'[r.save] = put
        <3>1. requests \in SUBSET Requests
            BY <1>6
        <3>2. \A r \in requests :
                 /\ r.save = n
                 /\ r.kind = "remove" => r.ids \subseteq put.remove \/ put.workflows = "remove"
            BY <1>5, <1>6
        <3> QED
            BY <1>5, <2>1, <3>1, <3>2, PutStep
    <2>3. Calm' <=> Calm
        BY DEF Calm, Without
    <2>4. Typed' /\ Kept' /\ OneLoad' /\ Untouched'
        BY <2>1, <2>2, <2>3 DEF RemovalInv, Typed, Kept, OneLoad, Untouched, IsSelection
    <2>5. LookedUp'
        BY <2>1, <2>3 DEF LookedUp, Harmless, RemovedCrawls, Full, Added, Excluded
    <2>6. NotBack'
        <3> SUFFICES ASSUME Calm, Excluded(s, crawls), NEW r \in net'
                     PROVE  /\ r.kind = "add" => r.ids \cap saved.items \cap Crawls = {}
                            /\ r.stage = "workflows" => saves'[r.save].add \cap saved.items \cap Crawls = {}
            BY <2>1, <2>3 DEF NotBack, Excluded
        <3>1. CASE r \in net
            BY <2>2, <3>1 DEF RemovalInv, NotBack
        <3>2. CASE r \in requests
            BY <1>1, <1>5, <1>6, <2>2, <3>2
        <3> QED
            BY <2>1, <3>1, <3>2
    <2> QED
        BY <2>2, <2>4, <2>5, <2>6 DEF RemovalInv
<1> QED
    BY <1>7, <1>8

\* The dialog closes: saves under way go on without it.
LEMMA CloseStep == ASSUME RemovalInv, Close PROVE RemovalInv'
<1>0. Calm' => Calm
    BY LapseStays DEF Close
<1>1. /\ reset /\ saves' = GoOn
      /\ UNCHANGED <<coll, crawls, known, loads, inits, net>>
    BY DEF Close
<1>2. Alike(saves, saves')
    BY <1>1, GoOnAlike DEF RemovalInv, Typed
<1>3. /\ Calm => \A m \in DOMAIN saves : Checked(saves[m])
      /\ \A r \in net' : /\ r.save \in DOMAIN saves /\ saves[r.save].stage # "deps"
                         /\ r.kind = "remove" => \/ r.ids \subseteq saves[r.save].remove
                                                 \/ saves[r.save].workflows = "remove"
    BY <1>1 DEF RemovalInv, SavesChecked, RequestsOfSaves, OfSave
<1>4. SavesChecked' /\ RequestsOfSaves' /\ saves' \in Seq(SaveRecords)
    BY <1>0, <1>1, <1>2, <1>3, AlikeStep
<1>5. /\ IsSelection(s)' /\ saved' = [items |-> saved'.items, wf |-> saved'.wf]
      /\ saved'.items = {}
      /\ Kept' /\ OneLoad' /\ Untouched' /\ LookedUp' /\ NotBack'
    BY <1>0, <1>1, ResetStep
<1>6. Typed'
    BY <1>1, <1>4, <1>5 DEF RemovalInv, Typed
<1> QED
    BY <1>4, <1>5, <1>6 DEF RemovalInv

\* A save that waits, or is stopped for a confirmation, removes nothing.
LEMMA NewSaves ==
    /\ NewSave \in SaveRecords /\ Checked(NewSave)
    /\ [NewSave EXCEPT !.stage = "stopped"] \in SaveRecords
    /\ [NewSave EXCEPT !.stage = "stopped"].stage = "stopped"
    /\ Checked([NewSave EXCEPT !.stage = "stopped"])
BY DEF NewSave, SaveRecords, Checked

\* The task's answer is there: the save begins, or stops for a confirmation.
LEMMA AfterDependenciesStep ==
    ASSUME RemovalInv, NEW n, Fresh(n), NEW dp, afterDependencies(n, dp),
           UNCHANGED <<coll, crawls, known, loads, inits, lapses>>,
           Calm /\ dp = Complete({}) => Harmless(s, saved, crawls)
    PROVE  RemovalInv'
<1>1. CASE dp = Complete({})
    <2>1. save(n, FALSE, dp)
        BY <1>1 DEF afterDependencies
    <2> QED
        BY <1>1, <2>1, SaveStep
<1>2. CASE dp # Complete({})
    <2> DEFINE sv == [NewSave EXCEPT !.stage = "stopped"]
    <2>1. deps' = dp /\ saves' = Put(n, sv) /\ UNCHANGED <<opened, s, saved, net>>
        BY <1>2 DEF afterDependencies
    <2>2. sv \in SaveRecords /\ sv.stage # "deps" /\ Checked(sv)
        BY NewSaves
    <2> HIDE DEF sv
    <2>3. net' = net \cup {} /\ {} \in SUBSET Requests
        BY <2>1
    <2>4. /\ saves' \in Seq(SaveRecords) /\ net' \subseteq Requests
          /\ SavesChecked' /\ RequestsOfSaves'
          /\ \A r \in net : saves'[r.save] = saves[r.save]
        BY <2>1, <2>2, <2>3, PutStep
    <2>5. Calm' <=> Calm
        BY DEF Calm, Without
    <2>6. Typed' /\ Kept' /\ OneLoad' /\ Untouched'
        BY <2>1, <2>4, <2>5 DEF RemovalInv, Typed, Kept, OneLoad, Untouched, IsSelection
    <2>7. LookedUp'
        BY <1>2, <2>1 DEF LookedUp
    <2>8. NotBack'
        BY <2>1, <2>4, <2>5 DEF RemovalInv, NotBack, Excluded
    <2> QED
        BY <2>4, <2>6, <2>7, <2>8 DEF RemovalInv
<1> QED
    BY <1>1, <1>2

\* trySave: at once, after the task, or not at all.
LEMMA TrySaveStep == ASSUME RemovalInv, trySave PROVE RemovalInv'
<1>1. UNCHANGED <<lapses, coll, crawls, known, loads, inits>>
    BY DEF trySave
<1>2. CASE deps = Pending
    <2>1. saves' = Append(saves, NewSave) /\ UNCHANGED <<opened, s, saved, deps, net>>
        BY <1>2 DEF trySave
    <2>2. saves \in Seq(SaveRecords) /\ NewSave \in SaveRecords /\ Checked(NewSave)
        BY NewSaves DEF RemovalInv, Typed
    <2>3. PICK new : new = Len(saves) + 1 /\ Fresh(new) /\ saves' = Put(new, NewSave)
        BY <2>1, <2>2 DEF Put, Fresh
    <2>4. /\ Put(new, NewSave) \in Seq(SaveRecords) /\ new \in Nat
          /\ DOMAIN Put(new, NewSave) = DOMAIN saves \cup {new} /\ Put(new, NewSave)[new] = NewSave
          /\ \A m \in DOMAIN saves : m # new => Put(new, NewSave)[m] = saves[m]
          /\ \A r \in net : r.save \in DOMAIN saves /\ r.save # new
        <3>1. Fresh(new) /\ NewSave \in SaveRecords
            BY <2>2, <2>3
        <3> QED
            BY <3>1, PutSave
    <2>5. /\ saves' \in Seq(SaveRecords)
          /\ DOMAIN saves' = DOMAIN saves \cup {new} /\ saves'[new] = NewSave
          /\ \A m \in DOMAIN saves : m # new => saves'[m] = saves[m]
          /\ \A r \in net : r.save \in DOMAIN saves /\ r.save # new
        BY <2>3, <2>4
    <2>6. Calm' <=> Calm
        BY <1>1 DEF Calm, Without
    <2>7. SavesChecked' /\ RequestsOfSaves'
        BY <2>1, <2>2, <2>5, <2>6 DEF RemovalInv, SavesChecked, RequestsOfSaves, OfSave, Checked
    <2>8. Typed' /\ Kept' /\ OneLoad' /\ Untouched'
        BY <1>1, <2>1, <2>5, <2>6 DEF RemovalInv, Typed, Kept, OneLoad, Untouched, IsSelection
    <2>9. LookedUp' /\ NotBack'
        BY <1>1, <2>1, <2>5, <2>6 DEF RemovalInv, LookedUp, NotBack, Harmless, RemovedCrawls, Full,
                                      Added, Excluded
    <2> QED
        BY <2>7, <2>8, <2>9 DEF RemovalInv
<1>3. CASE deps # Pending
    <2>1. afterDependencies(Len(saves) + 1, deps) /\ Fresh(Len(saves) + 1)
        BY <1>3 DEF trySave, Fresh
    <2>2. Calm /\ deps = Complete({}) => Harmless(s, saved, crawls)
        BY DEF RemovalInv, LookedUp
    <2> QED
        BY <1>1, <2>1, <2>2, AfterDependenciesStep
<1> QED
    BY <1>2, <1>3

\* The user confirms.
LEMMA ConfirmStep == ASSUME RemovalInv, Confirm PROVE RemovalInv'
<1>1. /\ save(Len(saves) + 1, TRUE, deps) /\ Fresh(Len(saves) + 1)
      /\ UNCHANGED <<lapses, coll, crawls, known, loads, inits>>
    BY DEF Confirm, Fresh
<1>2. Calm /\ deps = Complete({}) => Harmless(s, saved, crawls)
    BY DEF RemovalInv, LookedUp
<1> QED
    BY <1>1, <1>2, SaveStep

\* The task settles, with no required crawl only where the selection removes none.
LEMMA DependenciesSettleStep ==
    ASSUME RemovalInv, NEW dp, dependenciesSettle(dp),
           Calm /\ dp = Complete({}) => Harmless(s, saved, crawls)
    PROVE  RemovalInv'
<1>1. UNCHANGED <<lapses, coll, crawls, known, loads, inits>>
    BY DEF dependenciesSettle
<1>2. CASE \E n \in Waiting : afterDependencies(n, dp)
    BY <1>1, <1>2, AfterDependenciesStep DEF Fresh
<1>3. CASE deps' = dp /\ UNCHANGED <<opened, s, saved, saves, net>>
    <2>1. Calm' <=> Calm
        BY <1>1 DEF Calm, Without
    <2>2. SavesChecked' /\ RequestsOfSaves'
        BY <1>3, <2>1, SavesStay
    <2>3. Typed' /\ Kept' /\ OneLoad' /\ Untouched'
        BY <1>1, <1>3, <2>1 DEF RemovalInv, Typed, Kept, OneLoad, Untouched, IsSelection
    <2>4. LookedUp'
        BY <1>1, <1>3, <2>1 DEF LookedUp, Harmless, RemovedCrawls, Full, Added, Excluded
    <2>5. NotBack'
        BY <1>1, <1>3, <2>1 DEF RemovalInv, NotBack, Excluded
    <2> QED
        BY <2>2, <2>3, <2>4, <2>5 DEF RemovalInv
<1> QED
    BY <1>2, <1>3 DEF dependenciesSettle

\* The task looks at the crawls removed one by one and, where the workflow is removed, at
\* those that are in the collection.
LEMMA DependenciesArriveStep == ASSUME RemovalInv, dependenciesArrive PROVE RemovalInv'
<1> DEFINE d == difference(s, saved, crawls)
           removed == d.removedItems \cup
                      (IF d.excludedContainers = {} THEN {} ELSE coll \cap Crawls)
<1>1. dependenciesSettle(Complete(Deps \cap removed))
    BY DEF dependenciesArrive
<1>2. /\ d.excludedContainers = IF Excluded(s, crawls) THEN {W} ELSE {}
      /\ saved.items \cap Crawls \subseteq known
            => d.removedItems \cap Crawls = RemovedCrawls(s, saved, crawls)
    BY Difference
<1> HIDE DEF d
<1>3. ASSUME Calm, Complete(Deps \cap removed) = Complete({})
      PROVE  Harmless(s, saved, crawls)
    <2>1. Deps \cap removed = {}
        BY <1>3 DEF Complete
    <2>2. saved.items \cap Crawls \subseteq known
        BY <1>3 DEF RemovalInv, Kept
    <2>3. RemovedCrawls(s, saved, crawls) \subseteq removed
        BY <1>2, <2>2
    <2>4. Excluded(s, crawls) => coll \cap Crawls \subseteq removed
        BY <1>2
    <2> QED
        BY <2>1, <2>3, <2>4 DEF Harmless
<1> HIDE DEF removed
<1> QED
    BY <1>1, <1>3, DependenciesSettleStep

\* The task fails.
LEMMA DependenciesFailStep == ASSUME RemovalInv, dependenciesFail PROVE RemovalInv'
<1> DEFINE dp == [status |-> "error", value |-> {}]
<1>1. dependenciesSettle(dp)
    BY DEF dependenciesFail
<1>2. dp # Complete({})
    BY DEF Complete
<1> HIDE DEF dp
<1> QED
    BY <1>1, <1>2, DependenciesSettleStep

\* The collection after a request: while the workflow is to be removed, nothing comes back.
LEMMA AppliedStep ==
    ASSUME RemovalInv, NEW r \in net, coll' \in {coll, Applied(r)},
           UNCHANGED <<s, saved, crawls, deps, lapses>>
    PROVE  coll' \subseteq Items /\ LookedUp'
<1>1. coll \subseteq Items /\ r \in Requests
    BY DEF RemovalInv, Typed
<1>2. coll' \subseteq Items
    BY <1>1 DEF Applied, Requests
<1>3. Calm' <=> Calm
    BY DEF Calm, Without
<1>4. ASSUME Calm, Excluded(s, crawls)
      PROVE  coll' \cap saved.items \cap Crawls \subseteq coll
    <2>1. r.kind = "add" => r.ids \cap saved.items \cap Crawls = {}
        BY <1>4 DEF RemovalInv, NotBack
    <2> QED
        BY <2>1 DEF Applied
<1>5. ASSUME Calm, Harmless(s, saved, crawls) PROVE Harmless(s, saved, crawls)'
    BY <1>4, <1>5 DEF Harmless, RemovedCrawls, Full, Added, Excluded
<1>6. LookedUp'
    BY <1>3, <1>5 DEF RemovalInv, LookedUp
<1> QED
    BY <1>2, <1>6

\* A request fails, done by the server or not: its save stops.
LEMMA RequestFailsStep == ASSUME RemovalInv, NEW r \in net, RequestFails(r) PROVE RemovalInv'
<1>1. /\ UNCHANGED <<lapses, opened, s, saved, crawls, known, loads, inits, deps>>
      /\ coll' \in {coll, Applied(r)} /\ net' = net \ {r}
      /\ saves' = [saves EXCEPT ![r.save].stage = "failed"] \/ saves' = saves
    BY DEF RequestFails, dialog
<1>2. coll' \subseteq Items /\ LookedUp'
    BY <1>1, AppliedStep
<1>3. /\ saves \in Seq(SaveRecords) /\ r.save \in DOMAIN saves
      /\ Calm => \A m \in DOMAIN saves : Checked(saves[m])
      /\ \A q \in net' : /\ q.save \in DOMAIN saves /\ saves[q.save].stage # "deps"
                         /\ q.kind = "remove" => \/ q.ids \subseteq saves[q.save].remove
                                                 \/ saves[q.save].workflows = "remove"
    BY <1>1 DEF RemovalInv, Typed, SavesChecked, RequestsOfSaves, OfSave
<1>4. Alike(saves, saves')
    <2>1. CASE saves' = [saves EXCEPT ![r.save].stage = "failed"]
        BY <1>3, <2>1, StageAlike
    <2>2. CASE saves' = saves
        BY <1>3, <2>2 DEF Alike
    <2> QED
        BY <1>1, <2>1, <2>2
<1>5. SavesChecked' /\ RequestsOfSaves' /\ saves' \in Seq(SaveRecords)
    BY <1>1, <1>3, <1>4, AlikeStep, CalmStays
<1>6. Calm' <=> Calm
    BY <1>1 DEF Calm, Without
<1>7. Typed' /\ Kept' /\ OneLoad' /\ Untouched'
    BY <1>1, <1>2, <1>5, <1>6 DEF RemovalInv, Typed, Kept, OneLoad, Untouched, IsSelection
<1>8. NotBack'
    BY <1>1, <1>3, <1>4, <1>6 DEF RemovalInv, NotBack, Excluded, Alike
<1> QED
    BY <1>2, <1>5, <1>7, <1>8 DEF RemovalInv

\* A request is done: the collection has what it asked for.
LEMMA AnsweredStep == ASSUME RemovalInv, NEW r \in net, Answered(r) PROVE RemovalInv'
<1> DEFINE n == r.save
           rest == net \ {r}
           items == ItemRequests(n, saves[n])
           next == /\ net' = rest \cup items /\ saves' = [saves EXCEPT ![n].stage = "items"]
                   /\ r.stage # "items"
           last == Saved(saves, n) /\ net' = rest
           idle == net' = rest /\ saves' = saves
<1>1. /\ coll' = Applied(r) /\ UNCHANGED <<lapses, crawls, known, loads, inits>>
      /\ last \/ (UNCHANGED <<opened, s, saved, deps>> /\ (next \/ idle))
    BY DEF Answered
<1>2. /\ saves \in Seq(SaveRecords) /\ n \in DOMAIN saves /\ r \in Requests
      /\ coll \subseteq Items /\ net \subseteq Requests
      /\ Calm => \A m \in DOMAIN saves : Checked(saves[m])
      /\ \A q \in net : /\ q.save \in DOMAIN saves /\ saves[q.save].stage # "deps"
                        /\ q.kind = "remove" => \/ q.ids \subseteq saves[q.save].remove
                                                \/ saves[q.save].workflows = "remove"
    BY DEF RemovalInv, Typed, SavesChecked, RequestsOfSaves, OfSave
<1>3. n \in Nat /\ saves[n] \in SaveRecords
    BY <1>2
<1>4. CASE last
    <2>1. coll' \subseteq Items
        BY <1>1, <1>2 DEF Applied, Requests
    <2> QED
        BY <1>1, <1>2, <1>4, <2>1, SavedStep
<1>5. CASE UNCHANGED <<opened, s, saved, deps>> /\ (next \/ idle)
    <2>1. coll' \subseteq Items /\ LookedUp'
        BY <1>1, <1>5, AppliedStep
    <2>2. \A q \in items :
             /\ q \in Requests /\ q.save = n /\ q.stage = "items"
             /\ q.kind = "add" => q.ids \subseteq saves[n].add
             /\ q.kind = "remove" => q.ids \subseteq saves[n].remove
        BY <1>3, RequestsOfItems
    <2> HIDE DEF items
    <2>3. \A q \in net' : q \in net \/ (q \in items /\ r.stage = "workflows")
        BY <1>2, <1>5 DEF Requests
    <2>4. Alike(saves, saves')
        <3>1. CASE next
            BY <1>2, <3>1, StageAlike
        <3>2. CASE idle
            BY <1>2, <3>2 DEF Alike
        <3> QED
            BY <1>5, <3>1, <3>2
    <2>5. \A q \in net' : /\ q.save \in DOMAIN saves /\ saves[q.save].stage # "deps"
                          /\ q.kind = "remove" => \/ q.ids \subseteq saves[q.save].remove
                                                  \/ saves[q.save].workflows = "remove"
        BY <1>2, <2>2, <2>3
    <2>6. SavesChecked' /\ RequestsOfSaves' /\ saves' \in Seq(SaveRecords)
        BY <1>1, <1>2, <2>4, <2>5, AlikeStep, CalmStays
    <2>7. Calm' <=> Calm
        BY <1>1 DEF Calm, Without
    <2>8. net' \subseteq Requests
        BY <1>2, <2>2, <2>3
    <2>9. Typed' /\ Kept' /\ OneLoad' /\ Untouched'
        BY <1>1, <1>5, <2>1, <2>6, <2>7, <2>8
        DEF RemovalInv, Typed, Kept, OneLoad, Untouched, IsSelection
    <2>10. NotBack'
        <3> SUFFICES ASSUME Calm, Excluded(s, crawls), NEW q \in net'
                     PROVE  /\ q.kind = "add" => q.ids \cap saved.items \cap Crawls = {}
                            /\ q.stage = "workflows" => saves'[q.save].add \cap saved.items \cap Crawls = {}
            BY <1>1, <1>5, <2>7 DEF NotBack, Excluded
        <3>1. saves'[q.save].add = saves[q.save].add
            BY <2>4, <2>5 DEF Alike
        <3>2. CASE q \in net
            BY <3>1, <3>2 DEF RemovalInv, NotBack
        <3>3. CASE q \in items /\ r.stage = "workflows"
            <4>1. saves[n].add \cap saved.items \cap Crawls = {}
                BY <3>3 DEF RemovalInv, NotBack
            <4> QED
                BY <2>2, <3>3, <4>1
        <3> QED
            BY <2>3, <3>2, <3>3
    <2> QED
        BY <2>1, <2>6, <2>9, <2>10 DEF RemovalInv
<1> QED
    BY <1>1, <1>4, <1>5

-----------------------------------------------------------------------------
\* Every step.
LEMMA RemovalNext == ASSUME RemovalInv, [Next]_vars PROVE RemovalInv'
<1>1. CASE Load
    BY <1>1, UploadsArriveStep, WorkflowsArriveStep, CrawlsArriveStep DEF Load
<1>2. CASE Edit
    <2>1. CASE ClickWorkflow
        BY <2>1, SelectionChangeStep DEF ClickWorkflow
    <2>2. ASSUME NEW c \in Crawls, ClickCrawl(c) PROVE RemovalInv'
        BY <2>2, SelectionChangeStep DEF ClickCrawl
    <2> QED
        BY <1>2, <2>1, <2>2, ItemChangeStep DEF Edit
<1>3. CASE Browse
    BY <1>3, InitSelectionStep, ReloadStep, ToggleOnlyInStep, CloseStep, PageChangeStep DEF Browse
<1>4. CASE Save
    BY <1>4, TrySaveStep, ConfirmStep, EditSelectionStep DEF Save
<1>5. CASE Answer
    BY <1>5, DependenciesArriveStep, AnsweredStep DEF Answer
<1>6. CASE Fail
    BY <1>6, DependenciesFailStep, RequestFailsStep DEF Fail
<1>7. CASE UNCHANGED vars
    <2>1. /\ UNCHANGED <<lapses, coll, opened, s, saved, crawls, known, deps, saves, net, inits>>
          /\ UNCHANGED loads
        BY <1>7 DEF vars, dialog
    <2>2. Calm' <=> Calm
        BY <2>1 DEF Calm, Without
    <2>3. LookedUp' /\ NotBack' /\ SavesChecked' /\ RequestsOfSaves' /\ IsSelection(s)'
        BY <2>1, <2>2, SelectionStays
    <2>4. Typed' /\ Kept' /\ OneLoad' /\ Untouched'
        BY <2>1, <2>2, <2>3 DEF RemovalInv, Typed, Kept, OneLoad, Untouched
    <2> QED
        BY <2>3, <2>4 DEF RemovalInv
<1> QED
    BY <1>1, <1>2, <1>3, <1>4, <1>5, <1>6, <1>7 DEF Next

\* No crawl that the dialog found in the collection and that others require is removed
\* unconfirmed (dependenciesTask, trySave), whatever the user selects by workflow or one by
\* one, whichever requests fail and in whatever order answers come.
THEOREM RemovalSafe == Spec => []ConfirmedRemoval
<1>1. Init => RemovalInv
    BY InitRemoval
<1>2. RemovalInv /\ [Next]_vars => RemovalInv'
    BY RemovalNext
<1>3. RemovalInv => ConfirmedRemoval
    <2> SUFFICES ASSUME RemovalInv, NEW r \in net, Calm, r.kind = "remove",
                        r.ids \cap saves[r.save].had \cap Deps \cap Crawls # {}
                 PROVE  saves[r.save].confirmed
        BY DEF ConfirmedRemoval, Calm
    <2>1. /\ r.save \in DOMAIN saves /\ Checked(saves[r.save])
          /\ r.ids \subseteq saves[r.save].remove \/ saves[r.save].workflows = "remove"
        BY DEF RemovalInv, SavesChecked, RequestsOfSaves, OfSave
    <2> QED
        BY <2>1 DEF Checked
<1> QED
    BY <1>1, <1>2, <1>3, PTL DEF Spec
-----------------------------------------------------------------------------
(* Uploads of archived items: what the web application shows of them is so.  *)

\* onUpload's callbacks settle an upload once: its entry appears with the request, and
\* is marked canceled or uploaded only by the event that ends the request.
SettledOnce ==
    \A u \in all(context) :
       /\ xhr[u] # "unsent"
       /\ (context[u].canceled \/ context[u].itemId) => xhr[u] = "done"

\* The inductive invariant: without SettledOnce an upload could be marked canceled by
\* onCancel after its item was stored, or stored after it was canceled.
UploadsInv == ShownIsTrue /\ SettledOnce

-----------------------------------------------------------------------------
(* The operators every handler uses.                                         *)

\* setUpload's entry is an upload again, and keeps what was known of a shown one.
LEMMA EntryType ==
    ASSUME UploadsTypeOK, NEW u \in UploadIds
    PROVE  /\ Entry(u) \in OrgUpload \cup {Undefined}
           /\ context[u] = Undefined => /\ Entry(u) \in OrgUpload
                                        /\ Entry(u).canceled = FALSE
                                        /\ Entry(u).itemId = FALSE
           /\ context[u] # Undefined => Entry(u) = context[u] /\ Entry(u) \in OrgUpload
BY DEF UploadsTypeOK, Entry, OrgUpload

\* After setContext the page and its dialog agree with the context, whatever it is.
LEMMA SetContextAgrees ==
    ASSUME UploadsTypeOK, NEW c \in [UploadIds -> OrgUpload \cup {Undefined}], setContext(c)
    PROVE  /\ context' = c
           /\ context' \in [UploadIds -> OrgUpload \cup {Undefined}]
           /\ open' \in BOOLEAN /\ hiding' \in BOOLEAN
           /\ cancelIds' \subseteq UploadIds
           /\ AsksAboutShown'
<1>1. /\ context' = c
      /\ cancelIds' = {u \in cancelIds : u \in all(c) \ canceled(c)}
      /\ open' = (all(c) # {})
      /\ hiding' = (hiding \/ (open /\ all(c) = {}))
    BY DEF setContext
<1>2. open' \in BOOLEAN /\ hiding' \in BOOLEAN
    BY <1>1 DEF UploadsTypeOK
<1>3. cancelIds' \subseteq all(c) \ canceled(c) /\ all(c) \subseteq UploadIds
    BY <1>1 DEF all
<1>4. all(context)' = all(c) /\ canceled(context)' = canceled(c)
    BY <1>1 DEF all, canceled
<1>5. cancelIds' # {} => open'
    BY <1>1, <1>3
<1> QED
    BY <1>1, <1>2, <1>3, <1>4, <1>5 DEF AsksAboutShown

-----------------------------------------------------------------------------
(* One lemma per handler that sets the context or ends a request.            *)

\* Nothing is uploaded at first.
LEMMA InitUploads == UploadsInit => UploadsInv
BY DEF UploadsInit, UploadsInv, ShownIsTrue, UploadsTypeOK, UploadedIsStored,
       InFlightKept, AsksAboutShown, SettledOnce, all, canceled, InFlight

\* onUpload and onUploadProgress: the entry of a request that goes on.
LEMMA ProgressStep ==
    ASSUME UploadsInv, NEW u \in UploadIds, NEW sent \in {"part", "all"},
           NEW going \in InFlight,
           xhr[u] # "done",
           xhr' = [xhr EXCEPT ![u] = going],
           uploadRequests' = uploadRequests \/ uploadRequests' = uploadRequests \cup {u},
           xhr[u] = "unsent" => uploadRequests' = uploadRequests \cup {u},
           setProgress(u, sent),
           form' \in BOOLEAN, UNCHANGED <<reliable, item>>
    PROVE  UploadsInv'
<1> DEFINE e == [Entry(u) EXCEPT !.named = TRUE, !.loaded = sent]
           c == [context EXCEPT ![u] = e]
<1> USE DEF UploadsInv, ShownIsTrue
<1>1. e \in OrgUpload /\ (context[u] # Undefined => ~e.canceled /\ ~e.itemId)
                      /\ (context[u] = Undefined => ~e.canceled /\ ~e.itemId)
    BY EntryType DEF OrgUpload, SettledOnce, all
<1>2. c \in [UploadIds -> OrgUpload \cup {Undefined}]
    BY <1>1 DEF UploadsTypeOK
<1>3. setContext(c)
    BY DEF setProgress
<1> HIDE DEF e
<1>4. context' = c /\ AsksAboutShown' /\ UploadsTypeOK'
    BY <1>2, <1>3, SetContextAgrees DEF UploadsTypeOK, InFlight
<1>5. InFlightKept'
    BY DEF InFlightKept, UploadsTypeOK, InFlight
<1>6. UploadedIsStored'
    BY <1>1, <1>4 DEF UploadedIsStored, all, UploadsTypeOK
<1>7. SettledOnce'
    BY <1>1, <1>4 DEF SettledOnce, all, UploadsTypeOK, InFlight
<1> QED
    BY <1>4, <1>5, <1>6, <1>7

\* uploadComplete: the request is still under way, so its entry is not canceled.
LEMMA CompleteStep ==
    ASSUME UploadsInv, NEW u \in UploadIds, uploadComplete(u)
    PROVE  UploadsInv'
<1> DEFINE e == [Entry(u) EXCEPT !.itemId = TRUE]
           c == [context EXCEPT ![u] = e]
<1> USE DEF UploadsInv, ShownIsTrue
<1>1. e \in OrgUpload /\ ~e.canceled /\ u \in item /\ xhr' = [xhr EXCEPT ![u] = "done"]
    BY EntryType DEF OrgUpload, SettledOnce, all, uploadComplete
<1>2. c \in [UploadIds -> OrgUpload \cup {Undefined}]
    BY <1>1 DEF UploadsTypeOK
<1>3. setContext(c)
    BY DEF uploadComplete
<1> HIDE DEF e
<1>4. context' = c /\ AsksAboutShown' /\ UploadsTypeOK'
    BY <1>1, <1>2, <1>3, SetContextAgrees DEF UploadsTypeOK, uploadComplete
<1>5. InFlightKept'
    BY <1>1 DEF InFlightKept, UploadsTypeOK, InFlight, uploadComplete
<1>6. UploadedIsStored'
    BY <1>1, <1>4 DEF UploadedIsStored, all, UploadsTypeOK, uploadComplete
<1>7. SettledOnce'
    BY <1>1, <1>4 DEF SettledOnce, all, UploadsTypeOK
<1> QED
    BY <1>4, <1>5, <1>6, <1>7

\* onCancel: only requests under way are aborted, and none of those has an item yet.
LEMMA CancelStep ==
    ASSUME UploadsInv, onCancel
    PROVE  UploadsInv'
<1> DEFINE aborted == {u \in cancelIds \cap uploadRequests : xhr[u] \in InFlight}
           e(u) == [Entry(u) EXCEPT !.canceled = TRUE]
           c == [u \in UploadIds |-> IF u \in aborted THEN e(u) ELSE context[u]]
<1> USE DEF UploadsInv, ShownIsTrue
<1>0. /\ xhr' = [u \in UploadIds |-> IF u \in aborted THEN "done" ELSE xhr[u]]
      /\ uploadRequests' = uploadRequests \ aborted
      /\ UNCHANGED <<reliable, item, form>>
      /\ aborted = {} => UNCHANGED <<context, open, hiding, cancelIds>>
      /\ aborted # {} => setContext(c)
    BY DEF onCancel
<1>1. \A u \in aborted : u \in UploadIds /\ e(u) \in OrgUpload /\ ~e(u).itemId
    BY EntryType DEF OrgUpload, SettledOnce, all, UploadsTypeOK, InFlight
<1>2. c \in [UploadIds -> OrgUpload \cup {Undefined}]
    BY <1>1 DEF UploadsTypeOK
<1>3. \A u \in aborted : xhr[u] \in InFlight
    OBVIOUS
<1> HIDE DEF aborted, e
<1>4. InFlightKept' /\ xhr' \in [UploadIds -> {"unsent", "done"} \cup InFlight]
    BY <1>0 DEF InFlightKept, UploadsTypeOK, InFlight
<1>5. CASE aborted = {}
    BY <1>0, <1>4, <1>5 DEF UploadsTypeOK, UploadedIsStored, AsksAboutShown,
        SettledOnce, all, canceled
<1>6. CASE aborted # {}
  <2>1. context' = c /\ AsksAboutShown' /\ UploadsTypeOK'
    BY <1>0, <1>2, <1>4, <1>6, SetContextAgrees DEF UploadsTypeOK
  <2>2. UploadedIsStored'
    BY <1>0, <1>1, <2>1 DEF UploadedIsStored, all, UploadsTypeOK
  <2>3. SettledOnce'
    BY <1>0, <1>1, <1>3, <2>1 DEF SettledOnce, all, UploadsTypeOK, InFlight
  <2> QED
    BY <1>4, <2>1, <2>2, <2>3
<1> QED
    BY <1>5, <1>6

\* removeOrHide: a canceled or an uploaded entry goes, or the alert that shows it.
LEMMA RemoveStep ==
    ASSUME UploadsInv, NEW u \in UploadIds, removeOrHide(u)
    PROVE  UploadsInv'
<1> DEFINE c == [context EXCEPT ![u] = Undefined]
<1> USE DEF UploadsInv, ShownIsTrue
<1>1. UNCHANGED <<reliable, xhr, item, uploadRequests, form>> /\ cancelIds = {}
    BY DEF removeOrHide
<1>2. CASE setContext(c)
  <2>1. context' = c /\ AsksAboutShown' /\ UploadsTypeOK'
    BY <1>1, <1>2, SetContextAgrees DEF UploadsTypeOK
  <2> QED
    BY <1>1, <2>1 DEF UploadsTypeOK, UploadedIsStored, SettledOnce, InFlightKept, all
<1>3. CASE open' = FALSE /\ hiding' = TRUE /\ UNCHANGED <<context, cancelIds>>
    BY <1>1, <1>3 DEF UploadsTypeOK, UploadedIsStored, SettledOnce, InFlightKept,
        AsksAboutShown, all, canceled
<1> QED
    BY <1>2, <1>3 DEF removeOrHide

\* The steps that leave the context and the requests alone, or clear what is shown.
LEMMA PageStep ==
    ASSUME UploadsInv,
           OpenForm \/ CloseForm \/ CloseAlert \/ ContinueUpload \/ AutoHide \/ AfterHide
    PROVE  UploadsInv'
<1> USE DEF UploadsInv, ShownIsTrue, UploadsTypeOK, UploadedIsStored, SettledOnce,
            InFlightKept, AsksAboutShown, all, canceled
<1>1. CASE OpenForm BY <1>1 DEF OpenForm
<1>2. CASE CloseForm BY <1>2 DEF CloseForm
<1>3. CASE CloseAlert BY <1>3 DEF CloseAlert, askCancel, inProgress, uploaded
<1>4. CASE ContinueUpload BY <1>4 DEF ContinueUpload
<1>5. CASE AutoHide BY <1>5 DEF AutoHide
<1>6. CASE AfterHide BY <1>6 DEF AfterHide
<1> QED BY <1>1, <1>2, <1>3, <1>4, <1>5, <1>6

\* The steps of the network and the server that leave the context alone, and the cross
\* beside an upload.
LEMMA RequestStep ==
    ASSUME UploadsInv, NEW u \in UploadIds,
           ServerStores(u) \/ uploadFails(u) \/ uploadRefused(u) \/ CancelOne(u)
    PROVE  UploadsInv'
<1> USE DEF UploadsInv, ShownIsTrue, UploadsTypeOK, UploadedIsStored, SettledOnce,
            InFlightKept, AsksAboutShown, all, canceled, InFlight
<1>1. CASE ServerStores(u) BY <1>1 DEF ServerStores
<1>2. CASE uploadFails(u) BY <1>2 DEF uploadFails
<1>3. CASE uploadRefused(u) BY <1>3 DEF uploadRefused
<1>4. CASE CancelOne(u) BY <1>4 DEF CancelOne, askCancel
<1> QED BY <1>1, <1>2, <1>3, <1>4

-----------------------------------------------------------------------------

\* Every step.
LEMMA UploadsStep == UploadsInv /\ [UploadsNext]_uploadVars => UploadsInv'
<1> SUFFICES ASSUME UploadsInv, [UploadsNext]_uploadVars PROVE UploadsInv'
    OBVIOUS
<1>1. CASE UNCHANGED uploadVars
    BY <1>1 DEF uploadVars, UploadsInv, ShownIsTrue, UploadsTypeOK,
        UploadedIsStored, SettledOnce, InFlightKept, AsksAboutShown, all, canceled
<1>2. ASSUME NEW u \in UploadIds, onSubmit(u) PROVE UploadsInv'
    BY <1>2, ProgressStep DEF onSubmit, onUpload, InFlight
<1>3. ASSUME NEW u \in UploadIds, onUploadProgress(u) PROVE UploadsInv'
  <2>1. PICK finished \in BOOLEAN :
           /\ xhr' = [xhr EXCEPT ![u] = IF finished THEN "processing" ELSE @]
           /\ setProgress(u, IF finished THEN "all" ELSE "part")
    BY <1>3 DEF onUploadProgress
  <2>2. /\ xhr[u] = "uploading" /\ form' = form
        /\ UNCHANGED <<reliable, item, uploadRequests>> /\ form \in BOOLEAN
    BY <1>3 DEF onUploadProgress, UploadsInv, ShownIsTrue, UploadsTypeOK
  <2>3. CASE finished
    BY <2>1, <2>2, <2>3, ProgressStep DEF InFlight
  <2>4. CASE ~finished
    <3>1. xhr' = [xhr EXCEPT ![u] = "uploading"] /\ setProgress(u, "part")
        BY <2>1, <2>2, <2>4
    <3> QED BY <2>2, <3>1, ProgressStep DEF InFlight
  <2> QED BY <2>3, <2>4
<1>4. ASSUME NEW u \in UploadIds, uploadComplete(u) PROVE UploadsInv'
    BY <1>4, CompleteStep
<1>5. ASSUME NEW u \in UploadIds, removeOrHide(u) PROVE UploadsInv'
    BY <1>5, RemoveStep
<1>6. CASE onCancel
    BY <1>6, CancelStep
<1> QED
    BY <1>1, <1>2, <1>3, <1>4, <1>5, <1>6, PageStep, RequestStep DEF UploadsNext

\* What is shown of uploads is so, for any set of uploads: an upload shown with an item
\* is stored and not also canceled, a request under way can be aborted by onCancel, and
\* the dialog asks only about uploads that are there.
THEOREM ShownSafe == UploadsSpec => []ShownIsTrue
<1>1. UploadsSpec => []UploadsInv
    BY InitUploads, UploadsStep, PTL DEF UploadsSpec
<1>2. UploadsInv => ShownIsTrue
    BY DEF UploadsInv
<1> QED
    BY <1>1, <1>2, PTL

\* An upload is settled once: one that is canceled or has its item never goes on.
THEOREM SettledSafe == UploadsSpec => []SettledOnce
<1>1. UploadsSpec => []UploadsInv
    BY InitUploads, UploadsStep, PTL DEF UploadsSpec
<1>2. UploadsInv => SettledOnce
    BY DEF UploadsInv
<1> QED
    BY <1>1, <1>2, PTL
=============================================================================
