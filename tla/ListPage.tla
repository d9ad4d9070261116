------------------------------- MODULE ListPage -------------------------------
(***************************************************************************)
(* A list page of the frontend (workflows, archived items, crawl runs,     *)
(* browser profiles): filters and sort order that SearchParamsValue keeps  *)
(* in the URL, the pager (btrix-pagination) with its own copy of the page  *)
(* number, the task that fetches the page and polls, and the browser's     *)
(* history.                                                                *)
(*                                                                         *)
(* A filter is abstracted to whether it is set: search (id, name, first    *)
(* seed), status (the states of the last crawl or of the item), mine and   *)
(* tags.  Filters with the same codec and the same controller stand for    *)
(* each other (schedule and isCrawlRunning for search, the profiles of a   *)
(* workflow and tagsType for tags).  An event handler and the updates of   *)
(* the elements it requests are one step; the answer of the server is      *)
(* another.                                                                *)
(***************************************************************************)
EXTENDS Naturals, Sequences, FiniteSets

CONSTANTS
    Items,        \* what the server lists
    MineItems, TagItems, StatusItems, NamedItems,   \* what each filter lets pass
    PageSize,     \* items per page
    Setups        \* the pages and what the user does there

ASSUME ListPageAssumption ==
    /\ IsFiniteSet(Items) /\ PageSize \in Nat \ {0}
    /\ \A s \in Setups : s.kind \in {"workflows", "items", "crawls", "profiles"}

VARIABLES
    setup,    \* the page, the user's acts, their bound, whether a fetch may fail
    tab,      \* the page's elements and the browser's history
    asked,    \* the arguments of the task's last run
    pending,  \* that run has not ended
    shown,    \* the task's value, from which the list is rendered
    timer,    \* the poll's timeout is set
    live,     \* the items the server still has
    acts,     \* what the user has done so far, in number
    did       \* the acts the properties make an exception of that have been done

vars == <<setup, tab, asked, pending, shown, timer, live, acts, did>>

Kind == setup.kind    \* "workflows", "items", "crawls" or "profiles"

Notable == {"direction", "status", "clear", "history", "reload", "delete", "hurry",
            "unpaged"}
Without(set) == did \intersect set = {}

Directions == {"asc", "desc"}
DefaultDirection(field) ==
    IF field = "other" /\ Kind \in {"workflows", "profiles"} THEN "asc" ELSE "desc"
DefaultSort == [field |-> "default", direction |-> "desc"]

NoFilters == [search |-> FALSE, status |-> FALSE, mine |-> FALSE, tags |-> "none"]
NoParams == [search |-> FALSE, status |-> FALSE, mine |-> FALSE, tags |-> FALSE,
             sortBy |-> FALSE, sortDir |-> "", page |-> 1]

(***************************************************************************)
(* The codecs.  A page without a value in the URL is page 1.               *)
(***************************************************************************)
EncodeSort(sort, params) ==
    [params EXCEPT
        !.sortBy = sort.field # "default",
        !.sortDir = IF sort.direction = DefaultDirection(sort.field) THEN ""
                    ELSE sort.direction]

\* The test for a known direction is the wrong way round.
DecodeSort(params) ==
    IF ~params.sortBy THEN DefaultSort
    ELSE [field |-> "other",
          direction |-> IF params.sortDir \in {""} \union Directions
                        THEN DefaultDirection("other") ELSE params.sortDir]

\* Of a status that is no longer set, the encoder deletes the key of the value
\* and not the parameter.
EncodeFilterBy(filters, params) ==
    [params EXCEPT !.search = filters.search,
                   !.status = filters.status \/ params.status]

EncodeProfilesFilterBy(filters, params) ==
    [params EXCEPT !.search = filters.search,
                   !.tags = filters.tags = "some",
                   !.mine = filters.mine]

EncodeMine_keep(filters, params) == [params EXCEPT !.mine = filters.mine \/ params.mine]

EncodeMine(filters, params) == [params EXCEPT !.mine = filters.mine]

EncodeTags(filters, params) == [params EXCEPT !.tags = filters.tags = "some"]

Decode(params) ==
    [search |-> params.search, status |-> params.status, mine |-> params.mine,
     tags |-> IF params.tags THEN "some" ELSE "none"]

\* What a filter does to the list: tags that are undefined filter nothing.
Norm(filters) == [filters EXCEPT !.tags = IF @ = "undefined" THEN "none" ELSE @]

(***************************************************************************)
(* The URL and the history.  Every change of the URL is announced to the   *)
(* controllers, which decode it at once.                                   *)
(***************************************************************************)
Url(t) == t.history[t.at].params
Wanted(t) == t.history[t.at].wanted

\* requestUpdate compares the old value with a property that does not exist:
\* of a value that was undefined it requests nothing.
Requests(old, new) ==
    \E k \in DOMAIN old :
        old[k] # new[k] /\ (k = "tags" => old.tags # "undefined")

\* onNavigate of every controller, the pager's too.
Navigate(t, params) ==
    LET turned == t.pager.there /\ t.pager.page # params.page IN
    [t EXCEPT
        !.filters = Decode(params),
        !.sort = DecodeSort(params),
        !.dirty = @ \/ Requests(t.filters, Decode(params))
                    \/ t.sort # DecodeSort(params) \/ turned,
        !.page = IF turned THEN params.page ELSE @,
        !.pager.page = IF turned THEN params.page ELSE @]

\* update, set and delete of SearchParamsController.
GoTo(t, params, replace) ==
    IF params = Url(t) THEN t
    ELSE LET n == Navigate(t, params)
             entry == [params |-> params, wanted |-> Wanted(t)] IN
         IF replace THEN [n EXCEPT !.history[t.at] = entry]
         ELSE [n EXCEPT !.history = Append(SubSeq(t.history, 1, t.at), entry),
                        !.at = t.at + 1]

\* setValue of SearchParamsValue for the filters.  The encoder of the profiles
\* page also keeps in the session's storage whether only one's own are listed.
SetValue(t, filters, params) ==
    IF filters = t.filters THEN t
    ELSE LET n == GoTo([t EXCEPT !.filters = filters], params, FALSE)
             told == Requests(t.filters, filters) IN
         [n EXCEPT !.dirty = @ \/ told, !.reset = @ \/ told,
                   !.stored = IF Kind = "profiles" THEN filters.mine ELSE @]
SetFilters(t, filters, Encode(_, _)) == SetValue(t, filters, Encode(filters, Url(t)))

SetSort(t, sort) ==
    IF sort = t.sort THEN t
    ELSE LET n == GoTo([t EXCEPT !.sort = sort], EncodeSort(sort, Url(t)), FALSE) IN
         [n EXCEPT !.dirty = TRUE, !.reset = TRUE]

\* The entry of the history remembers what the user has asked for there.
Wish(t, filters, sort) ==
    [t EXCEPT !.history[t.at].wanted = [filters |-> filters, sort |-> sort]]

\* A filter the user sets; the others of the same controller go with it.
UserSets(t, filters, Encode(_, _)) ==
    Wish(SetFilters(t, filters, Encode),
         [k \in DOMAIN filters |-> IF filters[k] # t.filters[k] THEN Norm(filters)[k]
                                   ELSE Wanted(t).filters[k]],
         Wanted(t).sort)

(***************************************************************************)
(* The pager.                                                              *)
(***************************************************************************)
Pages(total) == (total + PageSize - 1) \div PageSize
Constrain(page, pages) ==
    IF page > pages THEN (IF pages < 1 THEN 1 ELSE pages)
    ELSE IF page < 1 THEN 1 ELSE page

\* setPage: a change of the URL tells the page through the pager's own
\* controller, whatever dispatch says.
SetPage(t, page, dispatch, replace) ==
    IF page = t.pager.page THEN t
    ELSE LET n == GoTo(t, [Url(t) EXCEPT !.page = page], replace) IN
         [n EXCEPT !.pager.page = page,
                   !.page = IF dispatch THEN page ELSE @,
                   !.dirty = @ \/ (dispatch /\ page # t.page)]

\* willUpdate, with whether the page attribute has changed.
PagerUpdates(t, pageChanged) ==
    LET pages == Pages(t.pager.total)
        a == IF Url(t).page # t.pager.page
             THEN SetPage(t, Constrain(Url(t).page, pages), FALSE, FALSE) ELSE t IN
    IF pageChanged /\ a.pager.page > pages
    THEN SetPage(a, Constrain(a.pager.page, pages), TRUE, FALSE) ELSE a

\* The setter of page: a pager that is not connected yet hears no navigation.
SetAttribute(t, page) ==
    LET n == IF page = t.pager.page THEN t
             ELSE GoTo(t, [Url(t) EXCEPT !.page = page], FALSE) IN
    [n EXCEPT !.pager.page = page, !.pager.attribute = page]

NoPager == [there |-> FALSE, page |-> 1, attribute |-> 1, total |-> 0]

\* On the workflows page the pager is there, hidden, when all fits on a page.
HasPager(total) == IF Kind = "workflows" THEN total > 0 ELSE total > PageSize

\* The list is rendered from an answer.
Render(t, page, total) ==
    IF ~HasPager(total) THEN [t EXCEPT !.pager = NoPager]
    ELSE IF ~t.pager.there
    THEN LET n == SetAttribute([t EXCEPT !.pager = NoPager], page) IN
         PagerUpdates([n EXCEPT !.pager.there = TRUE, !.pager.total = total], page # 1)
    ELSE LET turned == page # t.pager.attribute /\ page # t.pager.page
             n == IF page = t.pager.attribute THEN t ELSE SetAttribute(t, page) IN
         IF turned \/ total # t.pager.total
         THEN PagerUpdates([n EXCEPT !.pager.total = total], turned) ELSE n

(***************************************************************************)
(* The page's own update: willUpdate, then the task with changed arguments.*)
(***************************************************************************)
ResetItems_pageOnly(t) == [t EXCEPT !.page = 1]

ResetWorkflows(t) ==
    LET n == [t EXCEPT !.page = 1] IN
    IF n.pager.there THEN SetPage(n, 1, FALSE, TRUE) ELSE n
ResetItems(t) == IF t.pager.there THEN SetPage(t, 1, TRUE, TRUE) ELSE t
ResetCrawls(t) == IF t.pager.there THEN SetPage(t, 1, TRUE, TRUE) ELSE t
ResetProfiles(t) == [t EXCEPT !.page = 1]

Reset(t) ==
    CASE Kind = "workflows" -> ResetWorkflows(t)
      [] Kind = "items"     -> ResetItems(t)
      [] Kind = "crawls"    -> ResetCrawls(t)
      [] OTHER              -> ResetProfiles(t)

Args(t) == [filters |-> Norm(t.filters), sort |-> t.sort, page |-> t.page]

Matching(args) ==
    {i \in live : /\ args.filters.mine => i \in MineItems
                  /\ args.filters.tags = "some" => i \in TagItems
                  /\ args.filters.status => i \in StatusItems
                  /\ args.filters.search => i \in NamedItems}

\* The task starts: its timeout is cleared, an earlier run is aborted.
Runs(args) == asked' = args /\ pending' = TRUE /\ timer' = FALSE

\* The elements have been changed to t: what they requested is done.
Updated(t) ==
    LET n == IF t.reset THEN Reset(t) ELSE t
        clean == [n EXCEPT !.dirty = FALSE, !.reset = FALSE] IN
    /\ tab' = clean
    /\ IF t.dirty /\ Args(clean) # asked THEN Runs(Args(clean))
       ELSE UNCHANGED <<asked, pending, timer>>

\* The user does something of the kind a, while a list is loading only in a
\* hurry.  It is noted whether there is no pager, past the first page, to take back.
Does(a) ==
    /\ a \in setup.acts /\ (pending => "hurry" \in setup.acts)
    /\ acts < setup.maxActs /\ acts' = acts + 1
    /\ did' = did \union (Notable \intersect
         {a, IF pending THEN "hurry" ELSE a,
             IF ~tab.pager.there /\ Url(tab).page # 1 THEN "unpaged" ELSE a})
    /\ UNCHANGED setup

FilterEncoder(filters, params) ==
    IF Kind = "profiles" THEN EncodeProfilesFilterBy(filters, params)
    ELSE EncodeFilterBy(filters, params)
MineEncoder(filters, params) ==
    IF Kind = "profiles" THEN EncodeProfilesFilterBy(filters, params)
    ELSE EncodeMine(filters, params)
TagsEncoder(filters, params) ==
    IF Kind = "profiles" THEN EncodeProfilesFilterBy(filters, params)
    ELSE EncodeTags(filters, params)

(***************************************************************************)
(* The page is opened at the URL it finds.                                 *)
(***************************************************************************)
\* The archived items take the session's storage, which nothing writes, for
\* what the URL says; with their type, which the first update finds changed,
\* they clear the search.
OpenItems(t) ==
    LET mine == SetFilters(t, [t.filters EXCEPT !.mine = t.stored], EncodeMine) IN
    SetFilters(mine, [mine.filters EXCEPT !.search = FALSE, !.status = FALSE],
               EncodeFilterBy)
OpenCrawls(t) ==
    SetFilters(t, [t.filters EXCEPT !.mine = t.stored], EncodeMine)
OpenProfiles(t) == [t EXCEPT !.filters.mine = t.stored \/ @]

Open(history, at, stored) ==
    LET params == history[at].params
        t == [history |-> history, at |-> at, stored |-> stored,
              filters |-> Decode(params), sort |-> DecodeSort(params),
              page |-> params.page, pager |-> NoPager, dirty |-> FALSE, reset |-> FALSE]
        opened == CASE Kind = "items"    -> OpenItems(t)
                    [] Kind = "crawls"   -> OpenCrawls(t)
                    [] Kind = "profiles" -> OpenProfiles(t)
                    [] OTHER             -> t IN
    [opened EXCEPT !.dirty = FALSE, !.reset = FALSE]

NothingShown == [there |-> FALSE, args |-> [filters |-> NoFilters, sort |-> DefaultSort,
                                            page |-> 1], total |-> 0]

Init ==
    /\ setup \in Setups
    /\ tab = Open(<<[params |-> NoParams,
                     wanted |-> [filters |-> NoFilters, sort |-> DefaultSort]]>>, 1, FALSE)
    /\ asked = Args(tab) /\ pending = TRUE /\ timer = FALSE
    /\ shown = NothingShown
    /\ live = Items /\ acts = 0 /\ did = {}

Reload ==
    /\ Does("reload")
    /\ tab' = Open(tab.history, tab.at, tab.stored)
    /\ shown' = NothingShown
    /\ Runs(Args(tab'))
    /\ UNCHANGED live

(***************************************************************************)
(* What the user does with the controls.                                   *)
(***************************************************************************)
ChangeSearch ==
    /\ Does("search")
    /\ Updated(UserSets(tab, [tab.filters EXCEPT !.search = ~@], FilterEncoder))
    /\ UNCHANGED <<shown, live>>

ChangeStatus ==
    /\ Does("status") /\ Kind # "profiles"
    /\ Updated(UserSets(tab, [tab.filters EXCEPT !.status = ~@], FilterEncoder))
    /\ UNCHANGED <<shown, live>>

ChangeMine ==
    /\ Does("mine")
    /\ Updated(UserSets(tab, [tab.filters EXCEPT !.mine = ~@], MineEncoder))
    /\ UNCHANGED <<shown, live>>

ChangeTags ==
    /\ Does("tags")
    /\ Updated(UserSets(tab, [tab.filters EXCEPT !.tags = IF @ = "some" THEN "none"
                                                          ELSE "some"], TagsEncoder))
    /\ UNCHANGED <<shown, live>>

\* The field of the order is chosen, with its direction.
ChangeField ==
    LET field == IF tab.sort.field = "other" THEN "default" ELSE "other"
        sort == [field |-> field, direction |-> DefaultDirection(field)] IN
    /\ Does("field")
    /\ Updated(Wish(SetSort(tab, sort), Wanted(tab).filters, sort))
    /\ UNCHANGED <<shown, live>>

\* The direction of the order is turned round.
ToggleDirection ==
    LET sort == [tab.sort EXCEPT !.direction = IF @ = "asc" THEN "desc" ELSE "asc"] IN
    /\ Does("direction")
    /\ Updated(Wish(SetSort(tab, sort), Wanted(tab).filters, sort))
    /\ UNCHANGED <<shown, live>>

\* A workflow list filtered by status alone has no button to clear it.
HasFiltersSet ==
    \/ tab.filters.search \/ tab.filters.mine \/ tab.filters.tags = "some"
    \/ Kind # "workflows" /\ tab.filters.status

ClearWorkflows(t) ==
    LET a == UserSets(t, [t.filters EXCEPT !.search = FALSE, !.status = FALSE],
                      EncodeFilterBy)
        b == UserSets(a, [a.filters EXCEPT !.mine = FALSE], EncodeMine) IN
    UserSets(b, [b.filters EXCEPT !.tags = "undefined"], EncodeTags)
ClearItems(t) ==
    LET a == UserSets(t, [t.filters EXCEPT !.search = FALSE, !.status = FALSE],
                      EncodeFilterBy)
        b == UserSets(a, [a.filters EXCEPT !.mine = FALSE], EncodeMine) IN
    UserSets(b, [b.filters EXCEPT !.tags = "none"], EncodeTags)
ClearProfiles(t) == UserSets(t, NoFilters, EncodeProfilesFilterBy)

ClearFilters ==
    /\ Does("clear") /\ HasFiltersSet
    /\ Updated(CASE Kind = "workflows" -> ClearWorkflows(tab)
                 [] Kind = "profiles"  -> ClearProfiles(tab)
                 [] OTHER              -> ClearItems(tab))
    /\ UNCHANGED <<shown, live>>

ClickPage(page) ==
    /\ Does("page")
    /\ tab.pager.there /\ Pages(tab.pager.total) > 1
    /\ page \in 1 .. Pages(tab.pager.total) /\ page # tab.pager.page
    /\ Updated(SetPage(tab, page, TRUE, FALSE))
    /\ UNCHANGED <<shown, live>>

\* Back or forward.  The navigation is announced before the URL has changed;
\* the pager may update before it has.
Traverse(to, early) ==
    LET n == Navigate(tab, tab.history[to].params)
        turned == n.pager # tab.pager
        before == Url(tab).page IN
    /\ Does("history")
    /\ to \in {tab.at - 1, tab.at + 1} \intersect DOMAIN tab.history
    /\ early => turned /\ before <= Pages(tab.pager.total)
    /\ Updated([n EXCEPT !.at = to, !.pager.page = IF early THEN before ELSE @])
    /\ UNCHANGED <<shown, live>>

DeleteItem(item) ==
    /\ Does("delete") /\ shown.there /\ item \in Matching(shown.args)
    /\ live' = live \ {item}
    /\ tab' = IF Kind = "profiles" THEN [tab EXCEPT !.page = 1] ELSE tab
    /\ Runs(Args(tab'))
    /\ UNCHANGED shown

(***************************************************************************)
(* The task.                                                               *)
(***************************************************************************)
\* The run has ended with the elements as in t: the page is updated, and the
\* task runs again where its arguments have changed meanwhile.
Ended(t, polls) ==
    /\ tab' = [t EXCEPT !.dirty = FALSE, !.reset = FALSE]
    /\ IF Args(t) # asked THEN Runs(Args(t))
       ELSE pending' = FALSE /\ timer' = polls /\ UNCHANGED asked

Arrive_unpolled ==
    LET total == Cardinality(Matching(asked)) IN
    /\ pending
    /\ shown' = [there |-> TRUE, args |-> asked, total |-> total]
    /\ Ended(Render(tab, asked.page, total), FALSE)
    /\ UNCHANGED <<setup, live, acts, did>>

Arrive ==
    LET total == Cardinality(Matching(asked)) IN
    /\ pending
    /\ shown' = [there |-> TRUE, args |-> asked, total |-> total]
    /\ Ended(Render(tab, asked.page, total), Kind # "profiles")
    /\ UNCHANGED <<setup, live, acts, did>>

\* A failed run leaves no value, and sets no timeout.
Fail ==
    /\ setup.failures /\ pending
    /\ shown' = NothingShown
    /\ Ended([tab EXCEPT !.pager = NoPager], FALSE)
    /\ did' = did \union {"failed"}
    /\ UNCHANGED <<setup, live, acts>>

Poll ==
    /\ timer
    /\ Runs(Args(tab))
    /\ UNCHANGED <<setup, tab, shown, live, acts, did>>

Next ==
    \/ Reload \/ ChangeSearch \/ ChangeStatus \/ ChangeMine \/ ChangeTags
    \/ ChangeField \/ ToggleDirection \/ ClearFilters
    \/ \E page \in 1 .. Cardinality(Items) : ClickPage(page)
    \/ \E to \in 1 .. Len(tab.history), early \in BOOLEAN : Traverse(to, early)
    \/ \E item \in Items : DeleteItem(item)
    \/ Arrive \/ Fail \/ Poll

\* The server answers, and the timeout of the poll comes.
Spec == Init /\ [][Next]_vars /\ WF_vars(Arrive \/ Poll)

(***************************************************************************)
(* Properties.                                                             *)
(***************************************************************************)
\* The values SearchParamsValue holds, and page numbers that start at 1.
TypeOK ==
    /\ tab.filters \in [search : BOOLEAN, status : BOOLEAN, mine : BOOLEAN,
                        tags : {"none", "some", "undefined"}]
    /\ tab.sort \in [field : {"default", "other"}, direction : Directions]
    /\ tab.at \in DOMAIN tab.history
    /\ tab.page \in Nat \ {0} /\ tab.pager.page \in Nat \ {0}
    /\ tab.stored \in BOOLEAN /\ ~tab.dirty /\ ~tab.reset
    /\ pending \in BOOLEAN /\ timer \in BOOLEAN
    /\ live \subseteq Items

\* The filters and the order in force are the ones the user asked for at this
\* entry of the history, through pages, reloads and the browser's buttons:
\* what setValue encodes in the URL, onNavigate and a new page decode.  Not so
\* where the direction of the order was turned round or a status was set, where
\* archived items or crawl runs were reloaded, and where profiles were reloaded
\* after a step through the history.
AsAsked ==
    /\ Without({"direction", "status"})
    /\ Kind \in {"items", "crawls"} => Without({"reload"})
    /\ Kind = "profiles" => ~({"history", "reload"} \subseteq did)
    => [filters |-> Norm(tab.filters), sort |-> tab.sort] = Wanted(tab)

\* A list at rest (no run of the task pending) is the one its filters, order
\* and page ask for: every change of them reaches the page through
\* requestUpdate.  Not so for workflows whose filters were all cleared.
ListIsCurrent ==
    ~pending /\ shown.there /\ (Kind = "workflows" => Without({"clear"})) =>
        shown.args = Args(tab)

\* The pager's own page (_page of btrix-pagination) is the one that is listed,
\* and so is the URL's: a filter takes all three to the first page.  Not so for
\* profiles, whose filters leave the pager and the URL where they were, after
\* a step through the history, which a pager may hear of too early, and for
\* workflows filtered past the first page while there is no pager to take back.
PagerShowsPage ==
    /\ ~pending /\ tab.pager.there
    /\ Kind # "profiles" /\ Without({"history"})
    /\ Kind = "workflows" => Without({"unpaged"})
    => tab.pager.page = shown.args.page /\ Url(tab).page = shown.args.page

\* The page that is listed is not past the last one: a filter takes the list to
\* its first page before it shrinks.  This is for a user who waits for each list
\* and does not delete from it, turns the order round, reloads and goes back and
\* forth, with fetches that succeed; a page past the end is clamped by the pager
\* (willUpdate) only where its attribute page changes.
PageInBounds ==
    /\ ~pending /\ shown.there /\ shown.total > 0
    /\ Kind # "profiles" /\ did \subseteq {"direction", "reload", "history", "unpaged"}
    => shown.args.page <= Pages(shown.total)

\* A list that is out of date is brought up to date, by the next poll of the
\* task (workflowsTask) at the latest.
ListCatchesUp == []<>(shown.there => shown.args = Args(tab))

\* The list that is shown is the one the user asked for: what was asked is in force, and
\* what is in force is listed (SearchParamsValue, the task's arguments).
ListAsAsked == TypeOK /\ AsAsked /\ ListIsCurrent

\* The list, the pager and the URL agree on a page, and it exists (btrix-pagination).
PagesAgree == PagerShowsPage /\ PageInBounds
===============================================================================
