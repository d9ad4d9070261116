--------------------------- MODULE WorkflowDetail ---------------------------
(***************************************************************************)
(* The page of one crawl workflow in the web application                   *)
(* (pages/org/workflow-detail.ts): the Lit tasks that fetch the workflow,  *)
(* its latest crawl and its list of crawls, the task that polls, and the   *)
(* operations run, scale, pause or resume, stop and cancel, against a      *)
(* server whose crawl goes on meanwhile.                                   *)
(*                                                                         *)
(* A Lit Task (external) has a status and a value.  run() supersedes the   *)
(* run before it: its request is aborted and only the last run sets the    *)
(* value, undefined when it throws.  After every update of the page a task *)
(* runs again when its arguments have changed; these runs are part of the  *)
(* action that changes them.  latest stands for latestCrawlTask and        *)
(* logTotalsTask, which always run together.                               *)
(***************************************************************************)
EXTENDS Naturals, FiniteSets

CONSTANTS Setups,        \* of which a behaviour has one: how many crawls the workflow can
                         \* have, how many times the user acts on the page, the operations
                         \* he may use, and whether requests may fail
          None,          \* null or undefined
          Sent           \* a request that the server has not read yet

Ops == {"run", "scale", "pauseResume", "stop", "cancel", "edit"}

ASSUME BoundsAssumption ==
    Setups \subseteq [crawls : Nat \ {0}, uses : Nat, ops : SUBSET Ops, errors : BOOLEAN]

VARIABLES
    server,        \* the workflow as the database has it, with its last crawl
    workflow,      \* workflowTask: status, request, value, and prevValues.workflow
    latest,        \* latestCrawlTask and logTotalsTask: status, request and value
    crawls,        \* crawlsTask: status, request and value
    poll,          \* pollTask: its runs, the timers set, the ticks under way
    lastCrawlId,
    isCancelingRun,
    openDialogName,
    op,            \* the task of every operation
    tab,           \* groupedWorkflowTab
    isEditing,
    connected,     \* is the element in the page?
    uses,          \* how many times the user has acted
    started,       \* the crawl that the answer to run names, while it is under way
    setup          \* of Setups (never changes)

vars == <<server, workflow, latest, crawls, poll, lastCrawlId, isCancelingRun,
          openDialogName, op, tab, isEditing, connected, uses, started, setup>>

view == <<lastCrawlId, isCancelingRun, openDialogName, tab, isEditing, connected>>

NoCrawl == 0
CrawlIds == 0 .. setup.crawls
Errors == setup.errors

PausedStates == {"paused"}
ActiveStates == {"starting", "running"} \cup PausedStates
FinalStates  == {"complete", "canceled"}

\* What the API answers about a workflow and about a crawl of it.
Workflows == [lastCrawlId : CrawlIds, lastCrawlState : ActiveStates \cup FinalStates \cup {None},
              lastCrawlShouldPause : BOOLEAN, lastCrawlStopping : BOOLEAN]
CrawlData == [id : CrawlIds, state : ActiveStates \cup FinalStates \cup {None}]

\* What stands for no value, or for a request, is no answer.
ASSUME AnswersAssumption ==
    /\ None # Sent
    /\ \A x \in {None, Sent} :
          /\ x \notin [lastCrawlId : Nat, lastCrawlState : ActiveStates \cup FinalStates \cup {None},
                       lastCrawlShouldPause : BOOLEAN, lastCrawlStopping : BOOLEAN]
          /\ x \notin [id : Nat, state : ActiveStates \cup FinalStates \cup {None}]

CrawlOf(w) == [id |-> w.lastCrawlId, state |-> w.lastCrawlState]

-----------------------------------------------------------------------------
(* Predicates of utils/crawler.ts and utils/workflow.ts.                     *)

isActive(state) == state \in ActiveStates
isPaused(w) == w.lastCrawlState \in PausedStates
isCrawlRunning(w) == w.lastCrawlState \in ActiveStates
isRunningNotPaused(w) == isCrawlRunning(w) /\ ~isPaused(w)
isRunningNotStopping(w) ==
    isRunningNotPaused(w) /\ ~w.lastCrawlStopping /\ ~w.lastCrawlShouldPause

isActivelyCrawling(w) == isRunningNotStopping(w) /\ w.lastCrawlState = "running"

\* The field "state" of a workflow, which workflows do not have: isActive is
\* called with the workflow itself at two places of this page.
stateOfWorkflow(w) == "undefined"

-----------------------------------------------------------------------------
(* Tasks.                                                                    *)

RunTask(t) == [t EXCEPT !.status = "pending", !.req = Sent]

RunLatest_kept(t, id) == t

\* latestCrawlTask answers null at once when there is no crawl.
RunLatest(t, id) ==
    IF id = NoCrawl THEN [t EXCEPT !.status = "complete", !.req = None, !.val = None]
                    ELSE RunTask(t)

\* stopPoll clears the timer that is pollTask's value; the run of pollTask that
\* waits for other tasks ignores its abort signal and goes on.
stopPoll(p) == [p EXCEPT !.timers = {t \in @ : ~t.registered}]

\* Timers are no longer pollTask's value once it has another one.
Unregister(timers) == {[t EXCEPT !.registered = FALSE] : t \in timers}

\* The runs of pollTask that wait for nothing any more set their timer: the last
\* run's is the task's value, the others' timers are known to nobody.
SetTimers(p) ==
    LET ready == {r \in p.runs : r.wait = {}}
        new   == {[workflow |-> r.workflow, registered |-> r.last] : r \in ready}
    IN  [p EXCEPT !.runs = @ \ ready,
                  !.timers = new \cup IF \E r \in ready : r.last THEN Unregister(@) ELSE @]

\* pollTask runs again: earlier runs are superseded.  Promise.all waits for the
\* tasks under way, and fails at once for one whose last run failed.
pollTask(p, w, editing, L, C) ==
    LET old  == {[r EXCEPT !.last = FALSE] : r \in p.runs}
        wait == IF w = None \/ w.lastCrawlId = NoCrawl THEN {}
                ELSE {x \in {"latest", "crawls"} :
                        (IF x = "latest" THEN L ELSE C).status = "pending"}
        failed == /\ w # None
                  /\ w.lastCrawlId # NoCrawl
                  /\ "error" \in {L.status, C.status}
    IN  IF w = None \/ editing \/ failed
        THEN [p EXCEPT !.runs = old, !.timers = Unregister(@)]
        ELSE SetTimers([p EXCEPT !.runs =
                 old \cup {[workflow |-> w, wait |-> wait, last |-> TRUE]}])

\* A task pollTask's runs wait for has completed, or has failed.
PollTaskDone(p, x) ==
    SetTimers([p EXCEPT !.runs = {[r EXCEPT !.wait = @ \ {x}] : r \in @}])
PollTaskFailed(p, x) ==
    [p EXCEPT !.runs = {r \in @ : x \notin r.wait},
              !.timers = IF \E r \in p.runs : r.last /\ x \in r.wait
                         THEN Unregister(@) ELSE @]

\* An operation whose own run of workflowTask has ended, or was superseded, ends.
\* After stop, cancel and scale the dialog, whichever is open, closes.
OpsEnded == [o \in Ops |-> IF op[o] = "refetch" THEN "idle" ELSE op[o]]
dialogAfterOps ==
    IF \E o \in Ops \cap {"stop", "cancel", "scale"} : op[o] = "refetch"
    THEN None ELSE openDialogName

-----------------------------------------------------------------------------
(* The answer for the workflow, and what follows from it in the same turn.   *)

crawlChanged(w, curr) ==
    \/ w.lastCrawlState # curr.lastCrawlState
    \/ w.lastCrawlId # curr.lastCrawlId

TickLatest_running(w, curr) == isRunningNotPaused(curr) /\ tab = "latest"

\* What a tick, made with workflow w, retrieves once curr has come.
TickLatest(w, curr) ==
    IF isRunningNotPaused(curr) THEN tab = "latest" ELSE crawlChanged(w, curr)
TickCrawls(w, curr) ==
    IF isRunningNotPaused(curr) THEN tab = "crawls" ELSE crawlChanged(w, curr)
TickCloses(w, curr) ==
    /\ ~isRunningNotPaused(curr)
    /\ crawlChanged(w, curr)
    /\ isActive(stateOfWorkflow(w))
    /\ openDialogName = "scale"

cancelingAfter(w) == isCancelingRun /\ ~isActive(stateOfWorkflow(w))

\* workflowTask has the value w; fetched is FALSE for the value kept while
\* editing.  id, P, L and C are what the handler has made of lastCrawlId, poll,
\* latest and crawls before.
WorkflowIs(w, fetched, editing, id, P, L, C) ==
    LET newId   == IF fetched THEN w.lastCrawlId ELSE id
        changed == newId # id
        latest2 == IF changed THEN RunLatest(L, newId)
                   ELSE IF \E t \in P.ticks : TickLatest(t, w) THEN RunLatest(L, id) ELSE L
        crawls2 == IF changed \/ \E t \in P.ticks : TickCrawls(t, w) THEN RunTask(C) ELSE C
    IN  /\ workflow' = [status |-> "complete", req |-> None, val |-> w, prev |-> w]
        /\ lastCrawlId' = newId
        /\ isCancelingRun' = IF fetched THEN cancelingAfter(w) ELSE isCancelingRun
        /\ latest' = latest2
        /\ crawls' = crawls2
        /\ poll' = IF fetched \/ editing # isEditing
                   THEN pollTask([P EXCEPT !.ticks = {}], w, editing, latest2, crawls2)
                   ELSE [P EXCEPT !.ticks = {}]
        /\ openDialogName' = IF \E t \in P.ticks : TickCloses(t, w)
                             THEN None ELSE dialogAfterOps

\* workflowTask runs: stopPoll, then the value kept while editing, or a request.
RunWorkflow(editing, id, P, L, C) ==
    IF editing /\ workflow.prev # None
    THEN WorkflowIs(workflow.prev, FALSE, editing, id, stopPoll(P), L, C)
    ELSE /\ workflow' = [workflow EXCEPT !.status = "pending", !.req = Sent]
         /\ poll' = IF editing # isEditing
                    THEN pollTask(stopPoll(P), workflow.val, editing, L, C)
                    ELSE stopPoll(P)
         /\ lastCrawlId' = id
         /\ latest' = L
         /\ crawls' = C
         /\ openDialogName' = dialogAfterOps
         /\ UNCHANGED isCancelingRun

-----------------------------------------------------------------------------
Init ==
    /\ server \in [lastCrawlId : {NoCrawl}, lastCrawlState : {None},
                   lastCrawlShouldPause : {FALSE}, lastCrawlStopping : {FALSE}]
               \cup [lastCrawlId : {1}, lastCrawlState : {"running"},
                   lastCrawlShouldPause : {FALSE}, lastCrawlStopping : {FALSE}]
    /\ workflow = [status |-> "pending", req |-> Sent, val |-> None, prev |-> None]
    /\ latest = [status |-> "complete", req |-> None, val |-> None]
    /\ crawls = [status |-> "pending", req |-> Sent, val |-> None]
    /\ poll = [runs |-> {}, timers |-> {}, ticks |-> {}]
    /\ lastCrawlId = NoCrawl
    /\ isCancelingRun = FALSE
    /\ openDialogName = None
    /\ op = [o \in Ops |-> "idle"]
    /\ tab = "latest"
    /\ isEditing = FALSE
    /\ connected = TRUE
    /\ uses = 0
    /\ started = NoCrawl
    /\ setup \in Setups

-----------------------------------------------------------------------------
(* Requests for data.  The server reads the answer, then the answer arrives. *)

ReadWorkflow ==
    /\ workflow.req = Sent
    /\ workflow' = [workflow EXCEPT !.req = server]
    /\ UNCHANGED <<setup, started, server, latest, crawls, poll, view, op, uses>>

ReadLatest ==
    /\ latest.req = Sent
    /\ \E s \in IF lastCrawlId = server.lastCrawlId THEN {server.lastCrawlState}
                                                    ELSE FinalStates :
          latest' = [latest EXCEPT !.req = [id |-> lastCrawlId, state |-> s]]
    /\ UNCHANGED <<setup, started, server, workflow, crawls, poll, view, op, uses>>

ReadCrawls ==
    /\ crawls.req = Sent
    /\ crawls' = [crawls EXCEPT !.req = CrawlOf(server)]
    /\ UNCHANGED <<setup, started, server, workflow, latest, poll, view, op, uses>>

WorkflowAnswer ==
    /\ workflow.req \in Workflows
    /\ WorkflowIs(workflow.req, TRUE, isEditing, lastCrawlId, poll, latest, crawls)
    /\ op' = OpsEnded
    /\ UNCHANGED <<setup, started, server, tab, isEditing, connected, uses>>

\* A task that fails has no value: pollTask runs with no workflow and ends, the
\* ticks under way fail, and the page shows an error.
WorkflowFails ==
    /\ Errors
    /\ workflow.req # None
    /\ workflow' = [workflow EXCEPT !.status = "error", !.req = None, !.val = None]
    /\ poll' = pollTask([poll EXCEPT !.ticks = {}], None, isEditing, latest, crawls)
    /\ op' = OpsEnded
    /\ openDialogName' = dialogAfterOps
    /\ UNCHANGED <<setup, started, server, latest, crawls, lastCrawlId, isCancelingRun, tab, isEditing,
                   connected, uses>>

LatestAnswer ==
    /\ latest.req \in CrawlData
    /\ latest' = [status |-> "complete", req |-> None, val |-> latest.req]
    /\ poll' = PollTaskDone(poll, "latest")
    /\ UNCHANGED <<setup, started, server, workflow, crawls, view, op, uses>>

CrawlsAnswer ==
    /\ crawls.req \in CrawlData
    /\ crawls' = [status |-> "complete", req |-> None, val |-> crawls.req]
    /\ poll' = PollTaskDone(poll, "crawls")
    /\ UNCHANGED <<setup, started, server, workflow, latest, view, op, uses>>

DataFails ==
    /\ Errors
    /\ \/ /\ latest.req # None
          /\ latest' = [status |-> "error", req |-> None, val |-> None]
          /\ poll' = PollTaskFailed(poll, "latest")
          /\ UNCHANGED crawls
       \/ /\ crawls.req # None
          /\ crawls' = [status |-> "error", req |-> None, val |-> None]
          /\ poll' = PollTaskFailed(poll, "crawls")
          /\ UNCHANGED latest
    /\ UNCHANGED <<setup, started, server, workflow, view, op, uses>>

\* The timer pollTask has set, with the workflow it was set for.
TimerFires(t) ==
    /\ t \in poll.timers
    /\ RunWorkflow(isEditing, lastCrawlId,
           [poll EXCEPT !.timers = @ \ {t}, !.ticks = @ \cup {t.workflow}], latest, crawls)
    /\ op' = OpsEnded
    /\ UNCHANGED <<setup, started, server, tab, isEditing, connected, uses>>

Tick == \E t \in poll.timers : TimerFires(t)

-----------------------------------------------------------------------------
(* The user.                                                                 *)

Uses ==
    /\ uses < setup.uses
    /\ uses' = uses + 1

\* The controls are there when a workflow is shown, not its editor or an error.
Shown == connected /\ ~isEditing /\ workflow.status # "error" /\ workflow.val # None

OpenDialog(name) ==
    /\ Shown
    /\ name \in setup.ops
    /\ isCrawlRunning(workflow.val)
    /\ ~isCancelingRun
    /\ lastCrawlId # NoCrawl
    /\ name = "stop" => ~workflow.val.lastCrawlStopping
    /\ name = "scale" => isRunningNotStopping(workflow.val)
    /\ openDialogName' = name
    /\ UNCHANGED <<setup, started, server, workflow, latest, crawls, poll, lastCrawlId, isCancelingRun,
                   op, tab, isEditing, connected, uses>>

CloseDialog ==
    /\ Shown
    /\ openDialogName # None
    /\ openDialogName' = None
    /\ UNCHANGED <<setup, started, server, workflow, latest, crawls, poll, lastCrawlId, isCancelingRun,
                   op, tab, isEditing, connected, uses>>

disablePauseResume(w) ==
    \/ w.lastCrawlShouldPause = ~isPaused(w)
    \/ op["pauseResume"] # "idle"
hidePauseResume(w) ==
    \/ lastCrawlId = NoCrawl
    \/ isCancelingRun
    \/ w.lastCrawlState = "starting"
    \/ w.lastCrawlStopping

\* An operation starts: stopPoll, then its request with the crawl and the wish of
\* this moment.  A second click while the request is under way is left out.
StartOp(o) ==
    /\ Shown
    /\ o \in setup.ops \ {"edit"}
    /\ Uses
    /\ CASE o = "run" -> ~isCrawlRunning(workflow.val) /\ op[o] = "idle"
         [] o = "pauseResume" -> /\ isCrawlRunning(workflow.val)
                                 /\ ~hidePauseResume(workflow.val)
                                 /\ ~disablePauseResume(workflow.val)
         [] OTHER -> openDialogName = o /\ op[o] = "idle"
    /\ op' = [op EXCEPT ![o] = IF o = "pauseResume" /\ ~isPaused(workflow.val)
                               THEN "asking_pause" ELSE "asking"]
    /\ poll' = stopPoll(poll)
    /\ isCancelingRun' = (isCancelingRun \/ o = "cancel")
    /\ UNCHANGED <<setup, started, server, workflow, latest, crawls, lastCrawlId, openDialogName,
                   tab, isEditing, connected>>

OpAnswer_norefetch(o) ==
    /\ op[o] \in {"served", "failed"}
    /\ op' = [op EXCEPT ![o] = "idle"]
    /\ lastCrawlId' = IF o = "run" /\ op[o] = "served" THEN started ELSE lastCrawlId
    /\ started' = IF o = "run" THEN NoCrawl ELSE started
    /\ UNCHANGED <<setup, server, workflow, latest, crawls, poll, isCancelingRun,
                   openDialogName, tab, isEditing, connected, uses>>

\* The operation's answer, whether it succeeded or not: the list of crawls and the
\* workflow are fetched again.
OpAnswer(o) ==
    /\ op[o] \in {"served", "failed"}
    /\ LET ran == o = "run" /\ op[o] = "served"
           id == IF ran THEN started ELSE lastCrawlId
           L  == IF id # lastCrawlId THEN RunLatest(latest, id) ELSE latest
           C  == IF id # lastCrawlId \/ o \in {"pauseResume", "stop", "cancel"}
                 THEN RunTask(crawls) ELSE crawls
           kept == isEditing /\ workflow.prev # None
       IN /\ tab' = IF ran THEN "latest" ELSE tab
          /\ started' = IF ran THEN NoCrawl ELSE started
          /\ op' = [OpsEnded EXCEPT ![o] = IF kept THEN "idle" ELSE "refetch"]
          /\ RunWorkflow(isEditing, id, poll, L, C)
    /\ UNCHANGED <<setup, server, isEditing, connected, uses>>

\* Saved exclusions fetch the workflow again (handleExclusionChange).
handleExclusionChange ==
    /\ Shown
    /\ isActivelyCrawling(workflow.val)
    /\ ~isCancelingRun
    /\ Uses
    /\ RunWorkflow(isEditing, lastCrawlId, poll, latest, crawls)
    /\ op' = OpsEnded
    /\ UNCHANGED <<setup, started, server, tab, isEditing, connected>>

SelectTab(t) ==
    /\ Shown
    /\ tab # t
    /\ tab' = t
    /\ Uses
    /\ UNCHANGED <<setup, started, server, workflow, latest, crawls, poll, lastCrawlId, isCancelingRun,
                   openDialogName, op, isEditing, connected>>

\* The editor opens and closes: workflowTask and pollTask run again.
ToggleEditing ==
    /\ "edit" \in setup.ops
    /\ connected
    /\ Uses
    /\ isEditing' = ~isEditing
    /\ RunWorkflow(~isEditing, lastCrawlId, poll, latest, crawls)
    /\ op' = OpsEnded
    /\ UNCHANGED <<setup, started, server, tab, connected>>

Disconnect ==
    /\ connected
    /\ Uses
    /\ connected' = FALSE
    /\ poll' = stopPoll(poll)
    /\ UNCHANGED <<setup, started, server, workflow, latest, crawls, lastCrawlId, isCancelingRun,
                   openDialogName, op, tab, isEditing>>

-----------------------------------------------------------------------------
(* The server (external): its crawl goes on, and it serves the operations.   *)

CrawlGoesOn ==
    /\ LET s == server.lastCrawlState
       IN \/ /\ s = "starting"
             /\ server' = [server EXCEPT !.lastCrawlState = "running"]
          \/ /\ s = "running"
             /\ server.lastCrawlShouldPause
             /\ server' = [server EXCEPT !.lastCrawlState = "paused"]
          \/ /\ s = "paused"
             /\ ~server.lastCrawlShouldPause
             /\ server' = [server EXCEPT !.lastCrawlState = "running"]
          \/ /\ s \in ActiveStates
             /\ s = "running" \/ server.lastCrawlStopping
             /\ server' = [server EXCEPT !.lastCrawlState = "complete",
                                         !.lastCrawlShouldPause = FALSE,
                                         !.lastCrawlStopping = FALSE]
    /\ UNCHANGED <<setup, started, workflow, latest, crawls, poll, view, op, uses>>

NewCrawl == [lastCrawlId |-> server.lastCrawlId + 1, lastCrawlState |-> "starting",
             lastCrawlShouldPause |-> FALSE, lastCrawlStopping |-> FALSE]

\* A scheduled crawl starts.
ScheduledRun ==
    /\ server.lastCrawlState \notin ActiveStates
    /\ server.lastCrawlId < setup.crawls
    /\ server' = NewCrawl
    /\ UNCHANGED <<setup, started, workflow, latest, crawls, poll, view, op, uses>>

Serves(o) ==
    /\ op[o] \in {"asking", "asking_pause"}
    /\ IF isActive(server.lastCrawlState)
       THEN /\ op' = [op EXCEPT ![o] = IF o = "run" THEN "failed" ELSE "served"]
            /\ UNCHANGED started
            /\ server' =
                CASE o = "pauseResume" ->
                       [server EXCEPT !.lastCrawlShouldPause = (op[o] = "asking_pause")]
                  [] o = "stop" -> [server EXCEPT !.lastCrawlStopping = TRUE]
                  [] o = "cancel" -> [server EXCEPT !.lastCrawlState = "canceled",
                                                    !.lastCrawlShouldPause = FALSE,
                                                    !.lastCrawlStopping = FALSE]
                  [] OTHER -> server
       ELSE IF o = "run" /\ server.lastCrawlId < setup.crawls
       THEN /\ op' = [op EXCEPT ![o] = "served"]
            /\ server' = NewCrawl
            /\ started' = NewCrawl.lastCrawlId
       ELSE op' = [op EXCEPT ![o] = "failed"] /\ UNCHANGED <<server, started>>
    /\ UNCHANGED <<setup, workflow, latest, crawls, poll, view, uses>>

ServerFails(o) ==
    /\ Errors
    /\ op[o] \in {"asking", "asking_pause"}
    /\ op' = [op EXCEPT ![o] = "failed"]
    /\ UNCHANGED <<setup, started, server, workflow, latest, crawls, poll, view, uses>>

Next ==
    \/ ReadWorkflow \/ ReadLatest \/ ReadCrawls \/ WorkflowAnswer \/ WorkflowFails
    \/ LatestAnswer \/ CrawlsAnswer \/ DataFails
    \/ Tick
    \/ \E name \in {"stop", "cancel", "scale"} : OpenDialog(name)
    \/ CloseDialog
    \/ \E o \in Ops : StartOp(o) \/ OpAnswer(o) \/ Serves(o) \/ ServerFails(o)
    \/ handleExclusionChange
    \/ \E t \in {"latest", "crawls", "settings"} : SelectTab(t)
    \/ ToggleEditing \/ Disconnect
    \/ CrawlGoesOn \/ ScheduledRun

Spec == Init /\ [][Next]_vars

\* Requests are answered, and timers fire.
Fairness ==
    /\ WF_vars(ReadWorkflow \/ WorkflowAnswer)
    /\ WF_vars(ReadLatest \/ LatestAnswer)
    /\ WF_vars(ReadCrawls \/ CrawlsAnswer)
    /\ WF_vars(Tick)
    /\ WF_vars(\E o \in Ops : OpAnswer(o) \/ Serves(o))

FairSpec == Spec /\ Fairness

-----------------------------------------------------------------------------
(* Properties.                                                               *)

Task(Req, Val) == [status : {"pending", "complete", "error"},
                   req : Req \cup {None, Sent}, val : Val \cup {None}]

\* The values of the tasks and of the server's workflow, whichever request ends last.
TypeOK ==
    /\ server \in Workflows
    /\ workflow.status \in {"pending", "complete", "error"}
    /\ workflow.req \in Workflows \cup {None, Sent}
    /\ {workflow.val, workflow.prev} \subseteq Workflows \cup {None}
    /\ latest \in Task(CrawlData, CrawlData)
    /\ crawls \in Task(CrawlData, CrawlData)
    /\ poll.runs \subseteq [workflow : Workflows, wait : SUBSET {"latest", "crawls"}, last : BOOLEAN]
    /\ poll.timers \subseteq [workflow : Workflows, registered : BOOLEAN]
    /\ poll.ticks \subseteq Workflows
    /\ lastCrawlId \in CrawlIds
    /\ isCancelingRun \in BOOLEAN
    /\ openDialogName \in {None, "stop", "cancel", "scale"}
    /\ op \in [Ops -> {"idle", "asking", "asking_pause", "served", "failed", "refetch"}]
    /\ tab \in {"latest", "crawls", "settings"}
    /\ isEditing \in BOOLEAN /\ connected \in BOOLEAN
    /\ uses \in 0 .. setup.uses /\ started \in CrawlIds /\ setup \in Setups

\* Once operations have ended and the workflow has come, the page does not show a
\* wish for the crawl (to pause, to stop) older than the one the user has made
\* here: an answer read before the operation never stays.
WishesShown ==
    ( /\ workflow.status = "complete"
      /\ ~isEditing
      /\ \A o \in Ops : op[o] = "idle"
      /\ workflow.val.lastCrawlId = server.lastCrawlId
      /\ isCrawlRunning(server) )
    => /\ workflow.val.lastCrawlShouldPause = server.lastCrawlShouldPause
       /\ workflow.val.lastCrawlStopping = server.lastCrawlStopping

\* The crawl whose data the page shows never goes back to an earlier one, also when
\* a run starts while the workflow is being fetched. (Only the answer to a run that comes
\* after a later crawl was seen goes back to its own, and the workflow is fetched again.)
LastCrawlNeverBack ==
    [][\/ lastCrawlId' >= lastCrawlId
       \/ /\ op["run"] = "served" /\ op'["run"] # "served"
          /\ lastCrawlId' = started
          /\ workflow'.req = Sent \/ isEditing]_vars

\* What is shown as the latest crawl is the crawl the page is at, unless it is
\* being fetched or the fetch failed.
LatestIsLast ==
    latest.status = "complete" =>
        IF lastCrawlId = NoCrawl THEN latest.val = None
        ELSE latest.val # None /\ latest.val.id = lastCrawlId

\* A page nobody touches comes to show that a crawl is over, in the workflow, as the
\* latest crawl and in the list of crawls. (Where another fetch than the poll's is the
\* first to see the end, the latest crawl stays as it was.)
OutcomeShown ==
    []<>(\/ server.lastCrawlState \notin FinalStates
         \/ uses > 0 \/ Errors
         \/ /\ workflow.val # None /\ CrawlOf(workflow.val) = CrawlOf(server)
            /\ latest.val = CrawlOf(server)
            /\ crawls.val = CrawlOf(server))

\* What the page shows at rest is current: the user's wishes are those the server has, and
\* the latest crawl is the last one (workflowTask, latestCrawlTask).
ShownIsCurrent == TypeOK /\ WishesShown /\ LatestIsLast
=============================================================================
