--------------------------- MODULE SelectionDelta ---------------------------
(***************************************************************************)
(* What a selection of items, some of them in containers, adds to and      *)
(* removes from the original one (utils/nested-selection-difference.ts).   *)
(* A state st has                                                          *)
(*   containers      a function from containers to [itemCount,             *)
(*                   originalSelectedCount, wasFullySelected]              *)
(*   itemToContainer a function from the items known to be in a container  *)
(*   batchOps        a function from containers to [kind, items], items    *)
(*                   being the exceptions                                  *)
(*   originalSelectedItems, selectedItems, deselectedItems                 *)
(***************************************************************************)
EXTENDS Integers, FiniteSets, FiniteSetsExt

AtLeastZero(n) == IF n < 0 THEN 0 ELSE n

ContainerItems(st, c) ==
    {i \in DOMAIN st.itemToContainer : st.itemToContainer[i] = c}

In(st, i, cs) == i \in DOMAIN st.itemToContainer /\ st.itemToContainer[i] \in cs

OpsOf(st, kind) ==
    {c \in DOMAIN st.batchOps : c \in DOMAIN st.containers /\ st.batchOps[c].kind = kind}
includedContainers(st) == OpsOf(st, "include")
excludedContainers(st) == OpsOf(st, "exclude")

totalNewFromBatch_double(st, c) ==
    AtLeastZero(st.containers[c].itemCount
                - Cardinality((ContainerItems(st, c) \cap st.batchOps[c].items)
                              \ st.originalSelectedItems))

\* Items of an included container that are new, and those whose id is known.
totalNewFromBatch(st, c) ==
    LET items == ContainerItems(st, c) IN
    AtLeastZero(st.containers[c].itemCount
                - Cardinality(items \cap st.originalSelectedItems)
                - Cardinality((items \cap st.batchOps[c].items) \ st.originalSelectedItems))
batchKnownAdded(st, c) ==
    IF totalNewFromBatch(st, c) = 0 THEN {}
    ELSE ContainerItems(st, c) \ (st.originalSelectedItems \cup st.batchOps[c].items)
unknownAdded(st, c) ==
    AtLeastZero(totalNewFromBatch(st, c) - Cardinality(batchKnownAdded(st, c)))

\* Items an excluded container loses: all that were selected but the exceptions.
excludedCount(st, c) ==
    LET container == st.containers[c]
        originallySelected == IF container.wasFullySelected THEN container.itemCount
                              ELSE container.originalSelectedCount
        validExceptions == {i \in st.batchOps[c].items :
                                i \in st.originalSelectedItems /\ In(st, i, {c})}
    IN AtLeastZero(originallySelected - Cardinality(validExceptions))

currentlyFullySelected(st) ==
    includedContainers(st) \cup
    {c \in DOMAIN st.containers : st.containers[c].wasFullySelected
                                  /\ c \notin excludedContainers(st)}

addedItems(st) ==
    (UNION {batchKnownAdded(st, c) : c \in includedContainers(st)}) \cup
    {i \in st.selectedItems \ st.originalSelectedItems : ~In(st, i, includedContainers(st))}

removedItems(st) ==
    {i \in st.deselectedItems \cap st.originalSelectedItems :
        In(st, i, currentlyFullySelected(st))} \cup
    {i \in st.originalSelectedItems \ st.selectedItems :
        ~In(st, i, currentlyFullySelected(st) \cup excludedContainers(st))}

additions(st) ==
    Cardinality(addedItems(st)) +
    MapThenSumSet(LAMBDA c : unknownAdded(st, c), includedContainers(st))
removals(st) ==
    Cardinality(removedItems(st)) +
    MapThenSumSet(LAMBDA c : excludedCount(st, c), excludedContainers(st))

computeSelectionDelta(st) ==
    [addedItems |-> addedItems(st), removedItems |-> removedItems(st),
     includedContainers |-> includedContainers(st),
     excludedContainers |-> excludedContainers(st),
     additions |-> additions(st), removals |-> removals(st)]
=============================================================================
