------------------------------ MODULE ItemReview ------------------------------
(***************************************************************************)
(* The page on which a crawl is reviewed (archived-item-qa.ts): the page   *)
(* of the crawl under review, its notes and approval, and what the crawl   *)
(* and the analysis run captured of it, shown side by side.                *)
(*                                                                         *)
(* Content is fetched from the service worker of replay-web-page (external)*)
(* through a hidden frame; the worker knows a crawl or a run once an       *)
(* embedded replay-web-page has loaded it, which then sends messages.      *)
(* Requests are answered in any order.                                     *)
(***************************************************************************)
EXTENDS Naturals, FiniteSets

CONSTANTS Pages, Runs, Notes,
          Tabs,          \* some of "screenshots", "text", "replay"
          Setups,        \* of which a behaviour has one: was the service worker there before
                         \* the page was opened, what the user looks at and how much he
                         \* does, which lapses occur
          Nothing

\* "hasty": the user does not wait until all is loaded; "fault": a request fails;
\* "replay": the page changes while its replay is shown. Properties say which of these
\* they need not to have happened.
Lapses == {"hasty", "fault", "replay"}

ASSUME ItemReviewAssumption ==
    /\ Tabs \subseteq {"screenshots", "text", "replay"}
    /\ Setups \subseteq [worker : BOOLEAN, runs : SUBSET Runs, tabs : SUBSET Tabs,
                          acts : Nat, lapses : SUBSET Lapses]

Sides == {"crawl", "qa"}
Approvals == {"none", "yes", "no"}

\* What stands for null is neither a page nor content.
ASSUME NothingAssumption ==
    /\ Nothing \notin [id : Pages, notes : SUBSET Notes, approved : Approvals]
    /\ Nothing \notin [page : Pages, source : Runs \cup {"item"}, ok : BOOLEAN]

VARIABLES
    notes, approved,                 \* the server's pages
    itemPageId, qaRunId, tab, page,
    data,          \* crawlData, qaData: null, or what is shown in each tab
    registered,    \* crawlDataRegistered, qaDataRegistered
    frame,         \* the hidden frame
    worker,        \* what the service worker knows
    calls,         \* requests in flight
    sent,          \* requests made, to tell them apart
    acts, used,
    setup,         \* of Setups (never changes)
    lapses         \* the lapses there were

store == <<notes, approved>>
asked == <<itemPageId, qaRunId, tab>>
vars == <<store, asked, page, data, registered, frame, worker, calls, sent, acts, used, setup, lapses>>

Worker == setup.worker
Lapse(set) ==
    /\ set \subseteq setup.lapses
    /\ lapses' = lapses \cup set
If(condition, what) == IF condition THEN {what} ELSE {}
Without(set) == lapses \cap set = {}

Null == [null |-> TRUE, shown |-> [t \in Tabs |-> Nothing]]
\* Of which page, and of which run, the content is; a revoked blob URL shows nothing.
Content(p, s) == [page |-> p, source |-> s, ok |-> TRUE]
SourceOf(side) == IF side = "qa" THEN qaRunId ELSE "item"
Call(kind, side, p, t, s, x) ==
    [kind |-> kind, side |-> side, page |-> p, tab |-> t, source |-> s, arg |-> x]
Numbered(set) == {[n |-> sent + 1, call |-> c] : c \in set}
Issue(set) ==
    /\ calls' = calls \cup Numbered(set)
    /\ sent' = sent + 1
Answer(c, set) ==
    /\ calls' = (calls \ {c}) \cup Numbered(set)
    /\ sent' = IF set = {} THEN sent ELSE sent + 1

fetchPage(p, r) == {Call("page", "crawl", p, tab, r, Nothing)}

\* fetchContentForTab, for the page, the tab and the source of this moment. While the
\* frame loads, its navigation aborts what is fetched in it.
fetchContent(side, p, t, r) ==
    IF p = Nothing \/ frame # "loaded" \/ (side = "qa" /\ (r = Nothing \/ t = "replay")) THEN {}
    ELSE {Call("content", side, p.id, t, IF side = "qa" THEN r ELSE "item", Nothing)}

Init ==
    /\ notes = [p \in Pages |-> {}] /\ approved = [p \in Pages |-> "none"]
    /\ setup \in Setups
    /\ itemPageId \in Pages /\ qaRunId \in setup.runs /\ tab \in setup.tabs
    /\ page = Nothing
    /\ data = [s \in Sides |-> Null] /\ registered = [s \in Sides |-> FALSE]
    /\ frame = "none"
    /\ worker \in IF Worker THEN SUBSET (setup.runs \cup {"item"}) ELSE {{}}
    /\ calls = {[n |-> 1, call |-> Call("page", "crawl", itemPageId, tab, qaRunId, Nothing)]}
    /\ sent = 1 /\ acts = 0 /\ used = {} /\ lapses = {}

-----------------------------------------------------------------------------
(* A new value of page.                                                      *)

Revoked(d) ==
    [d EXCEPT !.shown = [t \in Tabs |-> IF t = "screenshots" /\ @[t] # Nothing
                                        THEN [@[t] EXCEPT !.ok = FALSE] ELSE @[t]]]

\* willUpdate when page changes from one value to another: the content of the page before
\* is dropped, unless the replay is shown, and fetched again.
PageSet_keep(new, c) ==
    /\ page' = new
    /\ frame' = IF frame = "none" THEN "loading" ELSE frame
    /\ Answer(c, IF page = Nothing THEN {}
                 ELSE UNION {fetchContent(s, new, tab, qaRunId) : s \in Sides})
    /\ Lapse(If(page # Nothing /\ tab = "replay", "replay"))
    /\ UNCHANGED data
PageSet(new, c) ==
    /\ page' = new
    /\ frame' = IF frame = "none" THEN "loading" ELSE frame
    /\ Lapse(If(page # Nothing /\ tab = "replay", "replay"))
    /\ IF page = Nothing
       THEN UNCHANGED data /\ Answer(c, {})
       ELSE /\ data' = [s \in Sides |-> IF tab = "replay" THEN Revoked(data[s]) ELSE Null]
            /\ Answer(c, UNION {fetchContent(s, new, tab, qaRunId) : s \in Sides})

PageArrives(c) ==
    /\ c \in calls /\ c.call.kind = "page"
    /\ PageSet([id |-> c.call.page, notes |-> notes[c.call.page],
                approved |-> approved[c.call.page]], c)
    /\ UNCHANGED <<setup, store, asked, registered, worker, acts, used>>

-----------------------------------------------------------------------------
(* What the user does.                                                       *)

Quiet == calls = {} /\ frame # "loading"
Settled == Quiet /\ \A s \in Sides : registered[s]
Act ==
    /\ acts < setup.acts /\ Lapse(If(~Settled, "hasty"))
    /\ acts' = acts + 1

\* Another page is selected: navToPage; willUpdate fetches it.
navToPage(p) ==
    /\ Act /\ p # itemPageId
    /\ itemPageId' = p
    /\ Issue(fetchPage(p, qaRunId))
    /\ UNCHANGED <<setup, store, qaRunId, tab, page, data, registered, frame, worker, used>>

SelectTab(t) ==
    /\ Act /\ t # tab
    /\ tab' = t
    /\ Issue(UNION {fetchContent(s, page, t, qaRunId) : s \in Sides})
    /\ UNCHANGED <<setup, store, itemPageId, qaRunId, page, data, registered, frame, worker, used>>

\* Another analysis run is selected.
SelectRun(r) ==
    /\ Act /\ r # qaRunId
    /\ qaRunId' = r
    /\ data' = [data EXCEPT !["qa"] = Null]
    /\ Issue(fetchPage(itemPageId, r) \cup fetchContent("qa", page, tab, r))
    /\ UNCHANGED <<setup, store, itemPageId, tab, page, registered, frame, worker, used>>

onSubmitComment(x) ==
    /\ Act /\ page # Nothing /\ x \notin used
    /\ used' = used \cup {x}
    /\ Issue({Call("note", "crawl", itemPageId, tab, qaRunId, x)})
    /\ UNCHANGED <<setup, store, asked, page, data, registered, frame, worker>>

deletePageComment(x) ==
    /\ Act /\ page # Nothing /\ x \in page.notes
    /\ Issue({Call("delete", "crawl", itemPageId, tab, qaRunId, x)})
    /\ UNCHANGED <<setup, store, asked, page, data, registered, frame, worker, used>>

\* The button toggles what the page shown has; the request is for itemPageId.
submitApproval(a) ==
    /\ Act /\ page # Nothing /\ a \in {"yes", "no"}
    /\ Issue({Call("approval", "crawl", itemPageId, tab, qaRunId,
                   IF page.approved = a THEN "none" ELSE a)})
    /\ UNCHANGED <<setup, store, asked, page, data, registered, frame, worker, used>>

-----------------------------------------------------------------------------
(* Answers.                                                                  *)

NoteAdded(c) ==
    /\ c \in calls /\ c.call.kind = "note"
    /\ notes' = [notes EXCEPT ![c.call.page] = @ \cup {c.call.arg}]
    /\ PageSet([page EXCEPT !.notes = @ \cup {c.call.arg}], c)
    /\ UNCHANGED <<setup, approved, asked, registered, worker, acts, used>>

\* delete_page_notes reads the notes and writes those that remain.
DeleteReads(c) ==
    /\ c \in calls /\ c.call.kind = "delete"
    /\ Answer(c, {[c.call EXCEPT !.kind = "write", !.arg = notes[c.call.page] \ {@},
                                 !.source = c.call.arg]})
    /\ UNCHANGED <<setup, lapses, store, asked, page, data, registered, frame, worker, acts, used>>
NoteDeleted(c) ==
    /\ c \in calls /\ c.call.kind = "write"
    /\ notes' = [notes EXCEPT ![c.call.page] = c.call.arg]
    /\ PageSet([page EXCEPT !.notes = @ \ {c.call.source}], c)
    /\ UNCHANGED <<setup, approved, asked, registered, worker, acts, used>>

\* The event carries the page id of the moment of the answer; onUpdatePageApproval.
ApprovalStored(c) ==
    /\ c \in calls /\ c.call.kind = "approval"
    /\ approved' = [approved EXCEPT ![c.call.page] = c.call.arg]
    /\ IF page.id = itemPageId THEN PageSet([page EXCEPT !.approved = c.call.arg], c)
       ELSE Answer(c, {}) /\ UNCHANGED <<lapses, page, data, frame>>
    /\ UNCHANGED <<setup, notes, asked, registered, worker, acts, used>>

RequestFails(c) ==
    /\ c \in calls /\ c.call.kind \in {"page", "note", "approval", "content"}
    /\ Lapse({"fault"})
    /\ Answer(c, {})
    /\ UNCHANGED <<setup, store, asked, page, data, registered, frame, worker, acts, used>>

\* The service worker has the content; it lacks it (404), or does not know the source.
ContentArrives(c) ==
    /\ c \in calls /\ c.call.kind = "content"
    /\ LET side == c.call.side  known == c.call.source \in worker IN
       \/ /\ known /\ Lapse({})
          /\ data' = [data EXCEPT ![side] = [null |-> FALSE, shown |->
                        [@.shown EXCEPT ![c.call.tab] = Content(c.call.page, c.call.source)]]]
          /\ registered' = [registered EXCEPT ![side] = TRUE]
       \/ /\ Lapse(If(known, "fault"))
          /\ data' = [data EXCEPT ![side] = [Null EXCEPT !.null = ~known]]
          /\ registered' = [registered EXCEPT ![side] = known]
    /\ Answer(c, {})
    /\ UNCHANGED <<setup, store, asked, page, frame, worker, acts, used>>

-----------------------------------------------------------------------------
(* The hidden frame and the embedded replay-web-page.                        *)

FrameLoads_idle ==
    /\ frame = "loading"
    /\ frame' = "loaded"
    /\ UNCHANGED <<setup, lapses, store, asked, page, data, registered, worker, calls, sent, acts, used>>
FrameLoads ==
    /\ frame = "loading"
    /\ frame' = "loaded"
    /\ IF Worker
       THEN /\ calls' = calls \cup {[n |-> sent + 1, call |->
                          Call("content", s, page.id, tab, SourceOf(s), Nothing)] :
                          s \in {x \in Sides : x = "crawl" \/ tab # "replay"}}
            /\ sent' = sent + 1
       ELSE UNCHANGED <<calls, sent>>
    /\ UNCHANGED <<setup, lapses, store, asked, page, data, registered, worker, acts, used>>

\* replay-web-page is rendered until the endpoint is taken for registered.
Rendered(side) == ~registered[side]
RwpLoads(side) ==
    /\ Rendered(side) /\ SourceOf(side) \notin worker
    /\ worker' = worker \cup {SourceOf(side)}
    /\ UNCHANGED <<setup, lapses, store, asked, page, data, registered, frame, calls, sent, acts, used>>

\* handleRwpMessage
RwpMessage(side) ==
    /\ Rendered(side) /\ SourceOf(side) \in worker
    /\ \E s \in (IF side = "qa" /\ ~registered["qa"] THEN {"qa"}
                 ELSE IF ~registered["crawl"] THEN {"crawl"} ELSE {}) :
          /\ registered' = [registered EXCEPT ![s] = TRUE]
          /\ Issue(fetchContent(s, page, tab, qaRunId))
    /\ UNCHANGED <<setup, lapses, store, asked, page, data, frame, worker, acts, used>>

-----------------------------------------------------------------------------
User ==
    \/ \E p \in Pages : navToPage(p)
    \/ \E t \in setup.tabs : SelectTab(t)
    \/ \E r \in setup.runs : SelectRun(r)
    \/ \E x \in Notes : onSubmitComment(x) \/ deletePageComment(x)
    \/ \E a \in Approvals : submitApproval(a)
Answers(c) ==
    \/ PageArrives(c) \/ NoteAdded(c) \/ DeleteReads(c) \/ NoteDeleted(c) \/ ApprovalStored(c)
    \/ RequestFails(c) \/ ContentArrives(c)
Loading == FrameLoads \/ \E s \in Sides : RwpLoads(s) \/ RwpMessage(s)
Next == User \/ Loading \/ \E c \in calls : Answers(c)

\* Requests are answered; frames load and send their message.
Fairness ==
    /\ WF_vars(\E c \in calls : Answers(c))
    /\ WF_vars(FrameLoads)
    /\ \A s \in Sides : WF_vars(RwpLoads(s)) /\ WF_vars(RwpMessage(s))
Spec == Init /\ [][Next]_vars /\ Fairness

-----------------------------------------------------------------------------
\* The values of the stores and of the page; an element without content shows none.
TypeOK ==
    /\ notes \in [Pages -> SUBSET Notes] /\ approved \in [Pages -> Approvals]
    /\ itemPageId \in Pages /\ qaRunId \in Runs /\ tab \in Tabs
    /\ page # Nothing => /\ page.id \in Pages /\ page.notes \subseteq Notes
                         /\ page.approved \in Approvals
    /\ \A s \in Sides : /\ data[s].null \in BOOLEAN /\ registered[s] \in BOOLEAN
                        /\ data[s].null => data[s].shown = Null.shown
    /\ frame \in {"none", "loading", "loaded"} /\ worker \subseteq Runs \cup {"item"}
    /\ \A c \in calls : c.n <= sent

\* When all requests are answered the page shown is the one that was selected, with the
\* notes and the approval the server has for it, if the reviewer waits for each.
PageShown ==
    Quiet /\ page # Nothing /\ Without({"hasty", "fault"}) =>
        /\ page.id = itemPageId
        /\ page.notes = notes[page.id] /\ page.approved = approved[page.id]

\* What is shown beside the page is content of this page and of the run selected, and
\* can be shown: its blob URL is not revoked (unless the page changed under the replay).
ContentShown ==
    Without({"hasty", "fault", "replay"}) => \A s \in Sides : LET x == data[s].shown[tab] IN
        page # Nothing /\ x # Nothing
            => x.page = page.id /\ x.source = SourceOf(s) /\ x.ok

\* Once the user is done, the content of the crawl is loaded, with a service worker that
\* was there. (Without one, its message may come before the page it is waited for with.)
ContentLoads ==
    <>[](data["crawl"].shown[tab] # Nothing \/ ~Worker \/ ~Without({"hasty", "fault"}))

\* The page and the content beside it are those selected (fetchPage, fetchContentForTab).
SelectedIsShown == TypeOK /\ PageShown /\ ContentShown
==============================================================================
