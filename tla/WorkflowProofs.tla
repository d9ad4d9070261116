--------------------------- MODULE WorkflowProofs ---------------------------
(***************************************************************************)
(* The page of a workflow shows what is current, for any number of crawls  *)
(* and of clicks: the invariant ShownIsCurrent of WorkflowDetail, and its  *)
(* action property LastCrawlNeverBack. The second part is about the        *)
(* schedule of a workflow: the invariant ScheduleSound of Schedule, and    *)
(* its action property SaveKeeps, for every zone, day and hour. The two    *)
(* specifications share no variable.                                       *)
(***************************************************************************)
EXTENDS WorkflowDetail, Schedule, WellFoundedInduction, FiniteSetTheorems, TLAPS

Statuses == {"pending", "complete", "error"}
WorkflowTask == [status : Statuses, req : Workflows \cup {None, Sent},
                 val : Workflows \cup {None}, prev : Workflows \cup {None}]
DataTask == Task(CrawlData, CrawlData)
PollRun == [workflow : Workflows, wait : SUBSET {"latest", "crawls"}, last : BOOLEAN]
Timer == [workflow : Workflows, registered : BOOLEAN]
Poll == [runs : SUBSET PollRun, timers : SUBSET Timer, ticks : SUBSET Workflows]
Dialogs == {None, "stop", "cancel", "scale"}
OpStates == {"idle", "asking", "asking_pause", "served", "failed", "refetch"}
Tabs == {"latest", "crawls", "settings"}

\* TypeOK with a name for the type of each variable, and the records in full; a task that
\* is complete has a value.
Typed ==
    /\ server \in Workflows
    /\ workflow \in WorkflowTask
    /\ workflow.status = "complete" => workflow.val \in Workflows
    /\ latest \in DataTask /\ crawls \in DataTask
    /\ poll \in Poll
    /\ lastCrawlId \in CrawlIds
    /\ isCancelingRun \in BOOLEAN /\ openDialogName \in Dialogs
    /\ op \in [Ops -> OpStates]
    /\ tab \in Tabs /\ isEditing \in BOOLEAN /\ connected \in BOOLEAN
    /\ uses \in 0 .. setup.uses /\ started \in CrawlIds /\ setup \in Setups

\* An answer read for the workflow is of no earlier crawl than the page is at, and no crawl
\* is known that the server does not have.
CrawlsKnown ==
    /\ lastCrawlId <= server.lastCrawlId /\ started <= server.lastCrawlId
    /\ \A w \in {workflow.val, workflow.prev} :
          w \in Workflows => w.lastCrawlId <= server.lastCrawlId
    /\ workflow.req \in Workflows =>
          /\ lastCrawlId <= workflow.req.lastCrawlId
          /\ workflow.req.lastCrawlId <= server.lastCrawlId

\* w has the wishes that the server has for the crawl that is running.
HasWishes(w) ==
    w.lastCrawlId = server.lastCrawlId /\ isCrawlRunning(server) =>
       /\ w.lastCrawlShouldPause = server.lastCrawlShouldPause
       /\ w.lastCrawlStopping = server.lastCrawlStopping

\* Wishes change with an operation that is served, and its answer fetches the workflow
\* again: with none of them on its way back, what was read and what is shown has them.
WishesKnown ==
    (\A o \in Ops : op[o] # "served") =>
       /\ workflow.req \in Workflows => HasWishes(workflow.req)
       /\ workflow.status = "complete" /\ ~isEditing => HasWishes(workflow.val)

\* The task of the latest crawl is about the crawl id.
LatestOf(L, id) ==
    /\ L.req # None => L.status = "pending" /\ id # NoCrawl
    /\ L.req \in CrawlData => L.req.id = id
    /\ L.status = "complete" => IF id = NoCrawl THEN L.val = None
                                ELSE L.val # None /\ L.val.id = id

\* The inductive invariant.
DetailInv == Typed /\ CrawlsKnown /\ WishesKnown /\ LatestOf(latest, lastCrawlId)

-----------------------------------------------------------------------------
(* What is no answer, and the types that stay.                               *)

LEMMA NoAnswers ==
    ASSUME setup \in Setups
    PROVE  /\ None \notin Workflows /\ Sent \notin Workflows
           /\ None \notin CrawlData /\ Sent \notin CrawlData
           /\ CrawlIds \subseteq Nat /\ NoCrawl \in CrawlIds /\ 1 \in CrawlIds
<1>1. setup.crawls \in Nat \ {0}
    BY BoundsAssumption
<1>2. CrawlIds \subseteq Nat /\ NoCrawl \in CrawlIds /\ 1 \in CrawlIds
    BY <1>1 DEF CrawlIds, NoCrawl
<1>3. \A x \in {None, Sent} : x \notin Workflows /\ x \notin CrawlData
    BY <1>2, AnswersAssumption DEF Workflows, CrawlData
<1> QED BY <1>2, <1>3

LEMMA TypesStay ==
    ASSUME setup' = setup
    PROVE  /\ Workflows' = Workflows /\ CrawlData' = CrawlData /\ CrawlIds' = CrawlIds
           /\ WorkflowTask' = WorkflowTask /\ DataTask' = DataTask /\ Poll' = Poll
BY DEF Workflows, CrawlData, CrawlIds, WorkflowTask, DataTask, Task, Poll, PollRun, Timer

LEMMA CrawlOfType ==
    ASSUME NEW w \in Workflows
    PROVE  CrawlOf(w) \in CrawlData /\ w.lastCrawlId \in CrawlIds
BY DEF CrawlOf, Workflows, CrawlData

-----------------------------------------------------------------------------
(* Tasks.                                                                    *)

LEMMA RunTaskType ==
    ASSUME NEW t \in DataTask
    PROVE  RunTask(t) \in DataTask /\ RunTask(t).status = "pending" /\ RunTask(t).req = Sent
BY DEF RunTask, DataTask, Task

\* latestCrawlTask, run for a crawl, is about this crawl.
LEMMA RunLatestOf ==
    ASSUME setup \in Setups, NEW t \in DataTask, NEW id \in CrawlIds
    PROVE  RunLatest(t, id) \in DataTask /\ LatestOf(RunLatest(t, id), id)
<1>1. CASE id = NoCrawl
  <2>1. /\ RunLatest(t, id) \in DataTask /\ RunLatest(t, id).status = "complete"
        /\ RunLatest(t, id).req = None /\ RunLatest(t, id).val = None
    BY <1>1 DEF RunLatest, DataTask, Task
  <2> QED BY <1>1, <2>1, NoAnswers DEF LatestOf
<1>2. CASE id # NoCrawl
  <2>1. RunLatest(t, id) = RunTask(t)
    BY <1>2 DEF RunLatest
  <2> QED BY <1>2, <2>1, RunTaskType, NoAnswers DEF LatestOf
<1> QED BY <1>1, <1>2

LEMMA SetTimersType ==
    ASSUME NEW p \in Poll
    PROVE  SetTimers(p) \in Poll
<1> DEFINE ready == {r \in p.runs : r.wait = {}}
           new == {[workflow |-> r.workflow, registered |-> r.last] : r \in ready}
           timers == new \cup IF \E r \in ready : r.last THEN Unregister(p.timers) ELSE p.timers
<1>1. p.runs \subseteq PollRun /\ p.timers \subseteq Timer
    BY DEF Poll
<1>2. new \subseteq Timer
    BY <1>1 DEF PollRun, Timer
<1>3. Unregister(p.timers) \subseteq Timer
    BY <1>1 DEF Unregister, Timer
<1>4. timers \subseteq Timer /\ (p.runs \ ready) \subseteq PollRun
    BY <1>1, <1>2, <1>3
<1>5. SetTimers(p) = [p EXCEPT !.runs = p.runs \ ready, !.timers = timers]
    BY DEF SetTimers
<1> HIDE DEF ready, timers
<1> QED BY <1>4, <1>5 DEF Poll

LEMMA StopPollType ==
    ASSUME NEW p \in Poll
    PROVE  stopPoll(p) \in Poll
BY DEF stopPoll, Poll

\* pollTask keeps runs and timers of workflows that were there.
LEMMA PollTaskType ==
    ASSUME NEW p \in Poll, NEW w \in Workflows \cup {None}, NEW editing, NEW L, NEW C
    PROVE  pollTask(p, w, editing, L, C) \in Poll
<1> DEFINE old == {[r EXCEPT !.last = FALSE] : r \in p.runs}
           wait == IF w = None \/ w.lastCrawlId = NoCrawl THEN {}
                   ELSE {x \in {"latest", "crawls"} :
                           (IF x = "latest" THEN L ELSE C).status = "pending"}
           run == [workflow |-> w, wait |-> wait, last |-> TRUE]
<1>1. p.runs \subseteq PollRun /\ p.timers \subseteq Timer
    BY DEF Poll
<1>2. old \subseteq PollRun
    BY <1>1 DEF PollRun
<1>3. Unregister(p.timers) \subseteq Timer
    BY <1>1 DEF Unregister, Timer
<1>4. wait \subseteq {"latest", "crawls"}
    OBVIOUS
<1>5. w # None => run \in PollRun
    BY <1>4 DEF PollRun
<1>6. \/ pollTask(p, w, editing, L, C) = [p EXCEPT !.runs = old, !.timers = Unregister(p.timers)]
      \/ /\ w # None
         /\ pollTask(p, w, editing, L, C) = SetTimers([p EXCEPT !.runs = old \cup {run}])
    BY DEF pollTask
<1> HIDE DEF old, run
<1>7. [p EXCEPT !.runs = old, !.timers = Unregister(p.timers)] \in Poll
    BY <1>2, <1>3 DEF Poll
<1>8. w # None => [p EXCEPT !.runs = old \cup {run}] \in Poll
    BY <1>2, <1>5 DEF Poll
<1> QED BY <1>6, <1>7, <1>8, SetTimersType

LEMMA PollWaitsType ==
    ASSUME NEW p \in Poll, NEW x
    PROVE  PollTaskDone(p, x) \in Poll /\ PollTaskFailed(p, x) \in Poll
<1>1. p.runs \subseteq PollRun /\ p.timers \subseteq Timer
    BY DEF Poll
<1>2. PollTaskDone(p, x) \in Poll
  <2>1. {[r EXCEPT !.wait = @ \ {x}] : r \in p.runs} \subseteq PollRun
    BY <1>1 DEF PollRun
  <2>2. [p EXCEPT !.runs = {[r EXCEPT !.wait = @ \ {x}] : r \in @}] \in Poll
    BY <2>1 DEF Poll
  <2> QED BY <2>2, SetTimersType DEF PollTaskDone
<1>3. PollTaskFailed(p, x) \in Poll
  <2> DEFINE timers == IF \E r \in p.runs : r.last /\ x \in r.wait THEN Unregister(p.timers)
                       ELSE p.timers
             runs == {r \in p.runs : x \notin r.wait}
  <2>1. timers \subseteq Timer /\ runs \subseteq PollRun
    BY <1>1 DEF Unregister, Timer
  <2>2. PollTaskFailed(p, x) = [p EXCEPT !.runs = runs, !.timers = timers]
    BY DEF PollTaskFailed
  <2> HIDE DEF timers, runs
  <2> QED BY <2>1, <2>2 DEF Poll
<1> QED BY <1>2, <1>3

-----------------------------------------------------------------------------
(* workflowTask: its value, and its runs.                                    *)

LEMMA DialogAfterOps ==
    ASSUME Typed
    PROVE  dialogAfterOps \in Dialogs
BY DEF dialogAfterOps, Typed, Dialogs

LEMMA OpsEndedType ==
    ASSUME Typed
    PROVE  /\ OpsEnded \in [Ops -> OpStates]
           /\ \A o \in Ops : OpsEnded[o] = "served" <=> op[o] = "served"
<1>1. \A o \in Ops : op[o] \in OpStates
    BY DEF Typed
<1> QED BY <1>1 DEF OpsEnded, OpStates

LEMMA UsesType ==
    ASSUME Typed, Uses, setup' = setup
    PROVE  uses' \in 0 .. setup.uses
<1>1. setup.uses \in Nat
    BY BoundsAssumption DEF Typed
<1> QED BY <1>1 DEF Typed, Uses

\* workflowTask has a value: the tasks that run for it, and with its ticks, are about the
\* crawl the page is at then.
LEMMA WorkflowIsStep ==
    ASSUME Typed, NEW w \in Workflows, NEW fetched \in BOOLEAN, NEW editing \in BOOLEAN,
           NEW id \in CrawlIds, NEW P \in Poll, NEW L \in DataTask, LatestOf(L, id),
           NEW C \in DataTask, WorkflowIs(w, fetched, editing, id, P, L, C)
    PROVE  /\ workflow' = [status |-> "complete", req |-> None, val |-> w, prev |-> w]
           /\ lastCrawlId' = (IF fetched THEN w.lastCrawlId ELSE id) /\ lastCrawlId' \in CrawlIds
           /\ latest' \in DataTask /\ LatestOf(latest', lastCrawlId')
           /\ crawls' \in DataTask /\ poll' \in Poll
           /\ isCancelingRun' \in BOOLEAN /\ openDialogName' \in Dialogs
<1> DEFINE newId == IF fetched THEN w.lastCrawlId ELSE id
           latest2 == IF newId # id THEN RunLatest(L, newId)
                      ELSE IF \E t \in P.ticks : TickLatest(t, w) THEN RunLatest(L, id) ELSE L
           crawls2 == IF newId # id \/ \E t \in P.ticks : TickCrawls(t, w) THEN RunTask(C) ELSE C
           P2 == [P EXCEPT !.ticks = {}]
<1>1. newId \in CrawlIds
    BY CrawlOfType
<1>2. latest2 \in DataTask /\ LatestOf(latest2, newId)
    BY <1>1, RunLatestOf DEF Typed
<1>3. crawls2 \in DataTask
    BY RunTaskType
<1>4. P2 \in Poll
    BY DEF Poll
<1> HIDE DEF latest2, crawls2, P2
<1>5. /\ workflow' = [status |-> "complete", req |-> None, val |-> w, prev |-> w]
      /\ lastCrawlId' = newId /\ latest' = latest2 /\ crawls' = crawls2
    BY DEF WorkflowIs, latest2, crawls2
<1>6. poll' \in Poll
  <2>1. poll' = (IF fetched \/ editing # isEditing THEN pollTask(P2, w, editing, latest2, crawls2)
                 ELSE P2)
    BY DEF WorkflowIs, latest2, crawls2, P2
  <2>2. pollTask(P2, w, editing, latest2, crawls2) \in Poll
    BY <1>4, PollTaskType
  <2> QED BY <1>4, <2>1, <2>2
<1>7. isCancelingRun' \in BOOLEAN
  <2>1. isCancelingRun' = IF fetched THEN cancelingAfter(w) ELSE isCancelingRun
    BY DEF WorkflowIs
  <2> QED BY <2>1 DEF cancelingAfter, Typed
<1>8. openDialogName' \in Dialogs
  <2>1. openDialogName' = IF \E t \in P.ticks : TickCloses(t, w) THEN None ELSE dialogAfterOps
    BY DEF WorkflowIs
  <2> QED BY <2>1, DialogAfterOps DEF Dialogs
<1> QED BY <1>1, <1>2, <1>3, <1>5, <1>6, <1>7, <1>8

\* workflowTask runs: it waits for an answer, or keeps the value it has while editing.
LEMMA RunWorkflowStep ==
    ASSUME Typed, NEW editing \in BOOLEAN, NEW id \in CrawlIds, NEW P \in Poll,
           NEW L \in DataTask, LatestOf(L, id), NEW C \in DataTask,
           RunWorkflow(editing, id, P, L, C)
    PROVE  /\ \/ workflow' = [workflow EXCEPT !.status = "pending", !.req = Sent]
              \/ /\ editing /\ workflow.prev \in Workflows
                 /\ workflow' = [status |-> "complete", req |-> None, val |-> workflow.prev,
                                 prev |-> workflow.prev]
           /\ lastCrawlId' = id
           /\ latest' \in DataTask /\ LatestOf(latest', lastCrawlId')
           /\ crawls' \in DataTask /\ poll' \in Poll
           /\ isCancelingRun' \in BOOLEAN /\ openDialogName' \in Dialogs
<1>1. stopPoll(P) \in Poll
    BY StopPollType
<1>2. workflow.prev \in Workflows \cup {None} /\ workflow.val \in Workflows \cup {None}
    BY DEF Typed, WorkflowTask
<1>3. CASE editing /\ workflow.prev # None
  <2>1. WorkflowIs(workflow.prev, FALSE, editing, id, stopPoll(P), L, C)
    BY <1>3 DEF RunWorkflow
  <2> QED BY <1>1, <1>2, <1>3, <2>1, WorkflowIsStep
<1>4. CASE ~(editing /\ workflow.prev # None)
  <2>1. /\ workflow' = [workflow EXCEPT !.status = "pending", !.req = Sent]
        /\ poll' = IF editing # isEditing
                   THEN pollTask(stopPoll(P), workflow.val, editing, L, C) ELSE stopPoll(P)
        /\ lastCrawlId' = id /\ latest' = L /\ crawls' = C
        /\ openDialogName' = dialogAfterOps /\ isCancelingRun' = isCancelingRun
    BY <1>4 DEF RunWorkflow
  <2>2. poll' \in Poll
    BY <1>1, <1>2, <2>1, PollTaskType
  <2> QED BY <2>1, <2>2, DialogAfterOps DEF Typed
<1> QED BY <1>3, <1>4

\* A step that runs workflowTask keeps the invariant, if the crawl the page is at then is
\* one the server has.
LEMMA RefetchStep ==
    ASSUME DetailInv, NEW id \in CrawlIds, id <= server.lastCrawlId, NEW P \in Poll,
           NEW L \in DataTask, LatestOf(L, id), NEW C \in DataTask,
           isEditing' \in BOOLEAN, RunWorkflow(isEditing', id, P, L, C),
           op' \in [Ops -> OpStates], tab' \in Tabs, uses' \in 0 .. setup.uses,
           started' \in CrawlIds, started' <= server.lastCrawlId,
           UNCHANGED <<setup, server, connected>>
    PROVE  DetailInv' /\ lastCrawlId' = id /\ (workflow'.req = Sent \/ isEditing')
<1> USE DEF DetailInv
<1>1. /\ \/ workflow' = [workflow EXCEPT !.status = "pending", !.req = Sent]
         \/ /\ isEditing' /\ workflow.prev \in Workflows
            /\ workflow' = [status |-> "complete", req |-> None, val |-> workflow.prev,
                            prev |-> workflow.prev]
      /\ lastCrawlId' = id
      /\ latest' \in DataTask /\ LatestOf(latest', lastCrawlId')
      /\ crawls' \in DataTask /\ poll' \in Poll
      /\ isCancelingRun' \in BOOLEAN /\ openDialogName' \in Dialogs
    BY RunWorkflowStep
<1>2. /\ Workflows' = Workflows /\ CrawlData' = CrawlData /\ CrawlIds' = CrawlIds
      /\ WorkflowTask' = WorkflowTask /\ DataTask' = DataTask /\ Poll' = Poll
    BY TypesStay
<1>3. /\ workflow' \in WorkflowTask /\ workflow'.req \notin Workflows
      /\ workflow'.status = "complete" => isEditing' /\ workflow'.val \in Workflows
      /\ workflow'.val \in {workflow.val, workflow.prev} /\ workflow'.prev = workflow.prev
      /\ workflow'.req = Sent \/ isEditing'
  <2>1. CASE workflow' = [workflow EXCEPT !.status = "pending", !.req = Sent]
    <3>1. /\ workflow' \in WorkflowTask /\ workflow'.req = Sent /\ workflow'.status = "pending"
          /\ workflow'.val = workflow.val /\ workflow'.prev = workflow.prev
      BY <2>1 DEF Typed, WorkflowTask, Statuses
    <3> QED BY <3>1, NoAnswers DEF Typed
  <2>2. CASE /\ isEditing' /\ workflow.prev \in Workflows
             /\ workflow' = [status |-> "complete", req |-> None, val |-> workflow.prev,
                             prev |-> workflow.prev]
    <3>1. /\ workflow' \in WorkflowTask /\ workflow'.req = None
          /\ workflow'.val = workflow.prev /\ workflow'.prev = workflow.prev
      BY <2>2 DEF WorkflowTask, Statuses
    <3> QED BY <2>2, <3>1, NoAnswers DEF Typed
  <2> QED BY <1>1, <2>1, <2>2
<1>4. Typed'
    BY <1>1, <1>2, <1>3 DEF Typed
<1>5. CrawlsKnown'
    BY <1>1, <1>2, <1>3 DEF CrawlsKnown
<1>6. WishesKnown'
    BY <1>2, <1>3 DEF WishesKnown
<1>7. LatestOf(latest, lastCrawlId)'
    BY <1>1, <1>2 DEF LatestOf
<1> QED BY <1>1, <1>3, <1>4, <1>5, <1>6, <1>7

-----------------------------------------------------------------------------
(* Requests for data.                                                        *)

\* The server reads what is asked for as it is at that moment.
LEMMA ReadStep ==
    ASSUME DetailInv, ReadWorkflow \/ ReadLatest \/ ReadCrawls
    PROVE  DetailInv' /\ lastCrawlId' = lastCrawlId
<1> USE DEF DetailInv
<1>1. /\ UNCHANGED <<setup, started, server, poll, view, op, uses>>
      /\ UNCHANGED <<lastCrawlId, isCancelingRun, openDialogName, tab, isEditing, connected>>
    BY DEF ReadWorkflow, ReadLatest, ReadCrawls, view
<1>2. /\ Workflows' = Workflows /\ CrawlData' = CrawlData /\ CrawlIds' = CrawlIds
      /\ WorkflowTask' = WorkflowTask /\ DataTask' = DataTask /\ Poll' = Poll
    BY <1>1, TypesStay
<1>3. CASE ReadWorkflow
  <2>1. /\ workflow' = [workflow EXCEPT !.req = server] /\ UNCHANGED <<latest, crawls>>
    BY <1>3 DEF ReadWorkflow
  <2>2. /\ workflow' \in WorkflowTask /\ workflow'.req = server
        /\ workflow'.status = workflow.status
        /\ workflow'.val = workflow.val /\ workflow'.prev = workflow.prev
    BY <2>1 DEF Typed, WorkflowTask
  <2>3. Typed'
    BY <1>1, <1>2, <2>1, <2>2 DEF Typed
  <2>4. CrawlsKnown'
    BY <1>1, <1>2, <2>2, CrawlOfType, NoAnswers DEF CrawlsKnown, Typed
  <2>5. WishesKnown'
    BY <1>1, <1>2, <2>2 DEF WishesKnown, HasWishes
  <2>6. LatestOf(latest, lastCrawlId)'
    BY <1>1, <1>2, <2>1 DEF LatestOf
  <2> QED BY <1>1, <2>3, <2>4, <2>5, <2>6
<1>4. CASE ReadLatest
  <2>1. PICK s \in ActiveStates \cup FinalStates \cup {None} :
           latest' = [latest EXCEPT !.req = [id |-> lastCrawlId, state |-> s]]
    BY <1>4 DEF ReadLatest, Typed, Workflows
  <2>2. [id |-> lastCrawlId, state |-> s] \in CrawlData
    BY DEF Typed, CrawlData
  <2>3. /\ latest' \in DataTask /\ latest'.req = [id |-> lastCrawlId, state |-> s]
        /\ latest'.status = latest.status /\ latest'.val = latest.val
        /\ latest.req = Sent /\ UNCHANGED <<workflow, crawls>>
    BY <1>4, <2>1, <2>2 DEF ReadLatest, Typed, DataTask, Task
  <2>4. latest.status = "pending" /\ lastCrawlId # NoCrawl
    BY <2>3, AnswersAssumption DEF LatestOf
  <2>5. Typed'
    BY <1>1, <1>2, <2>3 DEF Typed
  <2>6. LatestOf(latest, lastCrawlId)'
    BY <1>1, <2>3, <2>4 DEF LatestOf
  <2> QED BY <1>1, <1>2, <2>3, <2>5, <2>6 DEF CrawlsKnown, WishesKnown, HasWishes
<1>5. CASE ReadCrawls
  <2>1. crawls' \in DataTask /\ UNCHANGED <<workflow, latest>>
    BY <1>5, CrawlOfType DEF ReadCrawls, Typed, DataTask, Task
  <2>2. Typed'
    BY <1>1, <1>2, <2>1 DEF Typed
  <2> QED BY <1>1, <1>2, <2>1, <2>2 DEF CrawlsKnown, WishesKnown, HasWishes, LatestOf
<1> QED BY <1>3, <1>4, <1>5

\* The answer for the workflow: the page moves on to the crawl it names.
LEMMA WorkflowAnswerStep ==
    ASSUME DetailInv, WorkflowAnswer
    PROVE  DetailInv' /\ lastCrawlId' >= lastCrawlId
<1> USE DEF DetailInv
<1> DEFINE w == workflow.req
<1>1. /\ w \in Workflows /\ op' = OpsEnded
      /\ WorkflowIs(w, TRUE, isEditing, lastCrawlId, poll, latest, crawls)
      /\ UNCHANGED <<setup, started, server, tab, isEditing, connected, uses>>
    BY DEF WorkflowAnswer
<1>2. /\ Workflows' = Workflows /\ CrawlData' = CrawlData /\ CrawlIds' = CrawlIds
      /\ WorkflowTask' = WorkflowTask /\ DataTask' = DataTask /\ Poll' = Poll
    BY <1>1, TypesStay
<1> HIDE DEF w
<1>3. /\ workflow' = [status |-> "complete", req |-> None, val |-> w, prev |-> w]
      /\ lastCrawlId' = w.lastCrawlId /\ lastCrawlId' \in CrawlIds
      /\ latest' \in DataTask /\ LatestOf(latest', lastCrawlId')
      /\ crawls' \in DataTask /\ poll' \in Poll
      /\ isCancelingRun' \in BOOLEAN /\ openDialogName' \in Dialogs
    BY <1>1, WorkflowIsStep DEF Typed
<1>4. /\ workflow' \in WorkflowTask /\ workflow'.req = None /\ workflow'.val = w
      /\ workflow'.prev = w /\ workflow'.status = "complete"
    BY <1>1, <1>3 DEF WorkflowTask, Statuses
<1>5. Typed'
    BY <1>1, <1>2, <1>3, <1>4, OpsEndedType DEF Typed
<1>6. CrawlsKnown' /\ lastCrawlId' >= lastCrawlId
    BY <1>1, <1>2, <1>3, <1>4, NoAnswers DEF CrawlsKnown, Typed, w
<1>7. WishesKnown'
    BY <1>1, <1>2, <1>4, NoAnswers, OpsEndedType DEF WishesKnown, HasWishes, Typed, w
<1>8. LatestOf(latest, lastCrawlId)'
    BY <1>2, <1>3 DEF LatestOf
<1> QED BY <1>5, <1>6, <1>7, <1>8

LEMMA WorkflowFailsStep ==
    ASSUME DetailInv, WorkflowFails
    PROVE  DetailInv' /\ lastCrawlId' = lastCrawlId
<1> USE DEF DetailInv
<1>1. /\ workflow' = [workflow EXCEPT !.status = "error", !.req = None, !.val = None]
      /\ op' = OpsEnded /\ openDialogName' = dialogAfterOps
      /\ UNCHANGED <<setup, started, server, latest, crawls, lastCrawlId, isCancelingRun, tab,
                     isEditing, connected, uses>>
    BY DEF WorkflowFails
<1>2. /\ Workflows' = Workflows /\ CrawlData' = CrawlData /\ CrawlIds' = CrawlIds
      /\ WorkflowTask' = WorkflowTask /\ DataTask' = DataTask /\ Poll' = Poll
    BY <1>1, TypesStay
<1>3. /\ workflow' \in WorkflowTask /\ workflow'.req = None /\ workflow'.val = None
      /\ workflow'.prev = workflow.prev /\ workflow'.status = "error"
    BY <1>1 DEF Typed, WorkflowTask, Statuses
<1>4. poll' \in Poll
  <2>1. [poll EXCEPT !.ticks = {}] \in Poll
    BY DEF Typed, Poll
  <2> QED BY <2>1, PollTaskType DEF WorkflowFails
<1>5. Typed'
    BY <1>1, <1>2, <1>3, <1>4, OpsEndedType, DialogAfterOps DEF Typed
<1>6. CrawlsKnown'
    BY <1>1, <1>2, <1>3, NoAnswers DEF CrawlsKnown, Typed
<1>7. WishesKnown'
    BY <1>2, <1>3, NoAnswers DEF WishesKnown, Typed
<1>8. LatestOf(latest, lastCrawlId)'
    BY <1>1, <1>2 DEF LatestOf
<1> QED BY <1>1, <1>5, <1>6, <1>7, <1>8

\* The answers for the latest crawl and for the list of crawls, and their failures.
LEMMA DataStep ==
    ASSUME DetailInv, LatestAnswer \/ CrawlsAnswer \/ DataFails
    PROVE  DetailInv' /\ lastCrawlId' = lastCrawlId
<1> USE DEF DetailInv
<1>1. /\ UNCHANGED <<setup, started, server, workflow, op, uses>>
      /\ UNCHANGED <<lastCrawlId, isCancelingRun, openDialogName, tab, isEditing, connected>>
    BY DEF LatestAnswer, CrawlsAnswer, DataFails, view
<1>2. /\ Workflows' = Workflows /\ CrawlData' = CrawlData /\ CrawlIds' = CrawlIds
      /\ WorkflowTask' = WorkflowTask /\ DataTask' = DataTask /\ Poll' = Poll
    BY <1>1, TypesStay
<1>3. poll' \in Poll
    BY PollWaitsType DEF LatestAnswer, CrawlsAnswer, DataFails, Typed
<1>4. latest' \in DataTask /\ crawls' \in DataTask
    BY DEF LatestAnswer, CrawlsAnswer, DataFails, Typed, DataTask, Task
<1>5. Typed'
    BY <1>1, <1>2, <1>3, <1>4 DEF Typed
<1>6. CrawlsKnown' /\ WishesKnown'
    BY <1>1, <1>2 DEF CrawlsKnown, WishesKnown, HasWishes
<1>7. LatestOf(latest, lastCrawlId)'
  <2>1. \/ latest' = latest
        \/ latest' = [status |-> "error", req |-> None, val |-> None]
        \/ /\ latest.req \in CrawlData
           /\ latest' = [status |-> "complete", req |-> None, val |-> latest.req]
    BY DEF LatestAnswer, CrawlsAnswer, DataFails
  <2>2. latest.req \in CrawlData => /\ latest.req # None /\ latest.req.id = lastCrawlId
                                    /\ lastCrawlId # NoCrawl
    BY NoAnswers DEF LatestOf, Typed
  <2> QED BY <1>1, <1>2, <2>1, <2>2, NoAnswers DEF LatestOf, Typed
<1> QED BY <1>1, <1>5, <1>6, <1>7

-----------------------------------------------------------------------------
(* Steps that run workflowTask again.                                        *)

LEMMA TickStep ==
    ASSUME DetailInv, Tick
    PROVE  DetailInv' /\ lastCrawlId' = lastCrawlId
<1> USE DEF DetailInv
<1>1. PICK t \in poll.timers : TimerFires(t)
    BY DEF Tick
<1> DEFINE P == [poll EXCEPT !.timers = @ \ {t}, !.ticks = @ \cup {t.workflow}]
<1>2. P \in Poll
  <2>1. poll.timers \subseteq Timer /\ poll.ticks \subseteq Workflows /\ poll \in Poll
    BY DEF Typed, Poll
  <2>2. t.workflow \in Workflows
    BY <2>1 DEF Timer
  <2> QED BY <2>1, <2>2 DEF Poll
<1>3. /\ op' = OpsEnded /\ UNCHANGED <<setup, started, server, tab, isEditing, connected, uses>>
      /\ RunWorkflow(isEditing, lastCrawlId, P, latest, crawls)
    BY <1>1 DEF TimerFires
<1> HIDE DEF P
<1>4. op' \in [Ops -> OpStates]
    BY <1>3, OpsEndedType
<1> QED BY <1>2, <1>3, <1>4, RefetchStep DEF Typed, CrawlsKnown

\* The user saves exclusions, or opens or closes the editor.
LEMMA EditStep ==
    ASSUME DetailInv, handleExclusionChange \/ ToggleEditing
    PROVE  DetailInv' /\ lastCrawlId' = lastCrawlId
<1> USE DEF DetailInv
<1>1. /\ op' = OpsEnded /\ UNCHANGED <<setup, started, server, tab, connected>> /\ Uses
      /\ isEditing' \in BOOLEAN
      /\ RunWorkflow(isEditing', lastCrawlId, poll, latest, crawls)
  <2>1. CASE handleExclusionChange
    BY <2>1 DEF handleExclusionChange, Typed
  <2>2. CASE ToggleEditing
    BY <2>2 DEF ToggleEditing, Typed
  <2> QED BY <2>1, <2>2
<1>2. op' \in [Ops -> OpStates]
    BY <1>1, OpsEndedType
<1>3. uses' \in 0 .. setup.uses
    BY <1>1, UsesType
<1> QED BY <1>1, <1>2, <1>3, RefetchStep DEF Typed, CrawlsKnown

\* The answer to an operation.  The one to a run names the crawl that it started.
LEMMA OpAnswerStep ==
    ASSUME DetailInv, NEW o \in Ops, OpAnswer(o)
    PROVE  /\ DetailInv'
           /\ \/ lastCrawlId' = lastCrawlId
              \/ /\ op["run"] = "served" /\ op'["run"] # "served"
                 /\ lastCrawlId' = started
                 /\ workflow'.req = Sent \/ isEditing
<1> USE DEF DetailInv
<1> DEFINE ran == o = "run" /\ op[o] = "served"
           id == IF ran THEN started ELSE lastCrawlId
           L == IF id # lastCrawlId THEN RunLatest(latest, id) ELSE latest
           C == IF id # lastCrawlId \/ o \in {"pauseResume", "stop", "cancel"}
                THEN RunTask(crawls) ELSE crawls
           kept == isEditing /\ workflow.prev # None
<1>1. /\ tab' = (IF ran THEN "latest" ELSE tab)
      /\ started' = (IF ran THEN NoCrawl ELSE started)
      /\ op' = [OpsEnded EXCEPT ![o] = IF kept THEN "idle" ELSE "refetch"]
      /\ RunWorkflow(isEditing, id, poll, L, C)
      /\ UNCHANGED <<setup, server, isEditing, connected, uses>>
    BY DEF OpAnswer
<1>2. id \in CrawlIds /\ id <= server.lastCrawlId
    BY DEF Typed, CrawlsKnown
<1>3. L \in DataTask /\ LatestOf(L, id)
    BY <1>2, RunLatestOf DEF Typed
<1>4. C \in DataTask
    BY RunTaskType DEF Typed
<1>5. tab' \in Tabs /\ started' \in CrawlIds /\ started' <= server.lastCrawlId
  <2>1. NoCrawl \in CrawlIds /\ NoCrawl <= server.lastCrawlId
    BY NoAnswers, CrawlOfType DEF Typed, NoCrawl
  <2> QED BY <1>1, <2>1 DEF Typed, CrawlsKnown, Tabs
<1>6. op' \in [Ops -> OpStates] /\ op'[o] # "served"
    BY <1>1, OpsEndedType DEF OpStates
<1> HIDE DEF id, L, C
<1>7. DetailInv' /\ lastCrawlId' = id /\ (workflow'.req = Sent \/ isEditing')
    BY <1>1, <1>2, <1>3, <1>4, <1>5, <1>6, RefetchStep DEF Typed
<1> QED BY <1>1, <1>6, <1>7 DEF id

-----------------------------------------------------------------------------
(* The user's other steps, and the server's.                                 *)

\* Dialogs, tabs, the start of an operation and leaving the page change nothing that is shown.
LEMMA UserStep ==
    ASSUME DetailInv,
           \/ \E name \in {"stop", "cancel", "scale"} : OpenDialog(name)
           \/ CloseDialog
           \/ \E o \in Ops : StartOp(o)
           \/ \E t \in Tabs : SelectTab(t)
           \/ Disconnect
    PROVE  DetailInv' /\ lastCrawlId' = lastCrawlId
<1> USE DEF DetailInv
<1>1. /\ UNCHANGED <<setup, started, server, workflow, latest, crawls, lastCrawlId, isEditing>>
    BY DEF OpenDialog, CloseDialog, StartOp, SelectTab, Disconnect
<1>2. /\ Workflows' = Workflows /\ CrawlData' = CrawlData /\ CrawlIds' = CrawlIds
      /\ WorkflowTask' = WorkflowTask /\ DataTask' = DataTask /\ Poll' = Poll
    BY <1>1, TypesStay
<1>3. poll' \in Poll
    BY StopPollType DEF OpenDialog, CloseDialog, StartOp, SelectTab, Disconnect, Typed
<1>4. uses' \in 0 .. setup.uses
  <2>1. uses' = uses \/ Uses
    BY DEF OpenDialog, CloseDialog, StartOp, SelectTab, Disconnect
  <2> QED BY <1>1, <2>1, UsesType DEF Typed
<1>5. /\ isCancelingRun' \in BOOLEAN /\ openDialogName' \in Dialogs
      /\ tab' \in Tabs /\ connected' \in BOOLEAN
    BY DEF OpenDialog, CloseDialog, StartOp, SelectTab, Disconnect, Typed, Dialogs
<1>6. /\ op' \in [Ops -> OpStates]
      /\ (\A o \in Ops : op'[o] # "served") => \A o \in Ops : op[o] # "served"
  <2>1. op' = op \/ \E o \in Ops : StartOp(o)
    BY DEF OpenDialog, CloseDialog, SelectTab, Disconnect
  <2>2. ASSUME NEW o \in Ops, StartOp(o)
        PROVE  /\ op' \in [Ops -> OpStates]
               /\ (\A i \in Ops : op'[i] # "served") => \A i \in Ops : op[i] # "served"
    <3>1. op[o] \in {"idle", "asking"}
      BY <2>2 DEF StartOp, disablePauseResume
    <3> QED BY <2>2, <3>1 DEF StartOp, Typed, OpStates
  <2> QED BY <2>1, <2>2 DEF Typed
<1>7. Typed'
    BY <1>1, <1>2, <1>3, <1>4, <1>5, <1>6 DEF Typed
<1>8. CrawlsKnown' /\ WishesKnown' /\ LatestOf(latest, lastCrawlId)'
    BY <1>1, <1>2, <1>6 DEF CrawlsKnown, WishesKnown, HasWishes, LatestOf
<1> QED BY <1>1, <1>7, <1>8

\* The server has another state of its crawl, another crawl, or another wish; only the answer
\* to come of an operation that it has served may hold wishes that the page does not show.
LEMMA ServerStep ==
    ASSUME DetailInv,
           \/ CrawlGoesOn \/ ScheduledRun
           \/ \E o \in Ops : Serves(o) \/ ServerFails(o)
    PROVE  DetailInv' /\ lastCrawlId' = lastCrawlId
<1> USE DEF DetailInv
<1>1. /\ UNCHANGED <<setup, workflow, latest, crawls, poll, uses>>
      /\ UNCHANGED <<lastCrawlId, isCancelingRun, openDialogName, tab, isEditing, connected>>
    BY DEF CrawlGoesOn, ScheduledRun, Serves, ServerFails, view
<1>2. /\ Workflows' = Workflows /\ CrawlData' = CrawlData /\ CrawlIds' = CrawlIds
      /\ WorkflowTask' = WorkflowTask /\ DataTask' = DataTask /\ Poll' = Poll
    BY <1>1, TypesStay
<1>3. CrawlIds \subseteq Nat /\ setup.crawls \in Nat /\ server.lastCrawlId \in Nat
    BY NoAnswers, BoundsAssumption, CrawlOfType DEF Typed
<1>3a. /\ server \in Workflows /\ op \in [Ops -> OpStates]
       /\ started \in CrawlIds /\ started \in Nat /\ started <= server.lastCrawlId
    BY <1>3 DEF Typed, CrawlsKnown
<1>4. server.lastCrawlId < setup.crawls =>
         NewCrawl \in Workflows /\ NewCrawl.lastCrawlId = server.lastCrawlId + 1
    BY <1>3 DEF NewCrawl, Typed, Workflows, CrawlIds, ActiveStates
\* What a step of the server leaves of the invariant.
<1> DEFINE Served ==
       /\ op' \in [Ops -> OpStates]
       /\ server' \in Workflows /\ server'.lastCrawlId >= server.lastCrawlId
       /\ started' \in CrawlIds /\ started' <= server'.lastCrawlId
       /\ (\A o \in Ops : op'[o] # "served") =>
             /\ \A o \in Ops : op[o] # "served"
             /\ \/ server'.lastCrawlId > server.lastCrawlId
                \/ ~isCrawlRunning(server')
                \/ /\ isCrawlRunning(server)
                   /\ server'.lastCrawlShouldPause = server.lastCrawlShouldPause
                   /\ server'.lastCrawlStopping = server.lastCrawlStopping
<1>5. ASSUME CrawlGoesOn PROVE Served
  <2>1. /\ UNCHANGED <<op, started>> /\ server' \in Workflows
        /\ server'.lastCrawlId = server.lastCrawlId
        /\ \/ ~isCrawlRunning(server')
           \/ /\ isCrawlRunning(server)
              /\ server'.lastCrawlShouldPause = server.lastCrawlShouldPause
              /\ server'.lastCrawlStopping = server.lastCrawlStopping
    BY <1>5 DEF CrawlGoesOn, Typed, Workflows, isCrawlRunning, ActiveStates, FinalStates,
                PausedStates
  <2> QED BY <1>3, <1>3a, <2>1
<1>6. ASSUME ScheduledRun PROVE Served
  <2>1. UNCHANGED <<op, started>> /\ server' = NewCrawl /\ server.lastCrawlId < setup.crawls
    BY <1>6 DEF ScheduledRun
  <2> QED BY <1>3, <1>3a, <1>4, <2>1
<1>7. ASSUME NEW o \in Ops, Serves(o)
      PROVE  Served
  <2>1. op[o] # "served"
    BY <1>7 DEF Serves
  <2>2. CASE isActive(server.lastCrawlState)
    <3>1. /\ op' = [op EXCEPT ![o] = IF o = "run" THEN "failed" ELSE "served"]
          /\ UNCHANGED started
          /\ o = "run" => server' = server
          /\ server' \in Workflows /\ server'.lastCrawlId = server.lastCrawlId
      <4>1. /\ op' = [op EXCEPT ![o] = IF o = "run" THEN "failed" ELSE "served"]
            /\ UNCHANGED started
        BY <1>7, <2>2 DEF Serves
      <4>2. /\ o = "pauseResume" => server' =
                  [server EXCEPT !.lastCrawlShouldPause = (op[o] = "asking_pause")]
            /\ o = "stop" => server' = [server EXCEPT !.lastCrawlStopping = TRUE]
            /\ o = "cancel" => server' = [server EXCEPT !.lastCrawlState = "canceled",
                                                       !.lastCrawlShouldPause = FALSE,
                                                       !.lastCrawlStopping = FALSE]
            /\ o \in {"run", "scale", "edit"} => server' = server
        BY <1>7, <2>2 DEF Serves
      <4>3. server' \in Workflows /\ server'.lastCrawlId = server.lastCrawlId
        BY <4>2 DEF Typed, Workflows, FinalStates, Ops
      <4> QED BY <4>1, <4>2, <4>3
    <3>2. op' \in [Ops -> OpStates]
      BY <3>1 DEF Typed, OpStates
    <3>3. isCrawlRunning(server)
      BY <2>2 DEF isActive, isCrawlRunning
    <3> QED BY <1>3, <2>1, <3>1, <3>2, <3>3, CrawlOfType DEF Typed, CrawlsKnown
  <2>3. CASE ~isActive(server.lastCrawlState) /\ o = "run" /\ server.lastCrawlId < setup.crawls
    <3>1. /\ op' = [op EXCEPT ![o] = "served"] /\ server' = NewCrawl
          /\ started' = NewCrawl.lastCrawlId
      BY <1>7, <2>3 DEF Serves
    <3>2. op' \in [Ops -> OpStates] /\ op'[o] = "served"
      BY <3>1 DEF Typed, OpStates
    <3> QED BY <1>3, <1>4, <2>3, <3>1, <3>2, CrawlOfType DEF Typed
  <2>4. CASE ~isActive(server.lastCrawlState) /\ ~(o = "run" /\ server.lastCrawlId < setup.crawls)
    <3>1. op' = [op EXCEPT ![o] = "failed"] /\ UNCHANGED <<server, started>>
      BY <1>7, <2>4 DEF Serves
    <3>2. op' \in [Ops -> OpStates]
      BY <3>1 DEF Typed, OpStates
    <3>3. ~isCrawlRunning(server)
      BY <2>4 DEF isActive, isCrawlRunning
    <3> QED BY <1>3, <2>1, <3>1, <3>2, <3>3, CrawlOfType DEF Typed, CrawlsKnown, isCrawlRunning
  <2> QED BY <2>2, <2>3, <2>4
<1>8. ASSUME NEW o \in Ops, ServerFails(o)
      PROVE  Served
  <2>1. op' = [op EXCEPT ![o] = "failed"] /\ op[o] # "served" /\ UNCHANGED <<server, started>>
    BY <1>8 DEF ServerFails
  <2>2. op' \in [Ops -> OpStates]
    BY <2>1 DEF Typed, OpStates
  <2>3. isCrawlRunning(server') \/ ~isCrawlRunning(server')
    OBVIOUS
  <2>4. server' = server /\ \A i \in Ops : i # o => op'[i] = op[i]
    BY <2>1 DEF Typed
  <2>5. server'.lastCrawlId >= server.lastCrawlId
    BY <1>3, <2>4
  <2> QED BY <2>1, <2>2, <2>3, <2>4, <2>5, <1>3a DEF isCrawlRunning
<1>9. Served
    BY <1>5, <1>6, <1>7, <1>8
<1>10. Typed'
    BY <1>1, <1>2, <1>9 DEF Typed
<1>11. CrawlsKnown'
  <2>1. server.lastCrawlId \in Nat /\ server'.lastCrawlId \in Nat /\ lastCrawlId \in Nat
    BY <1>3, <1>9, CrawlOfType DEF Typed
  <2>2. \A w \in Workflows : w.lastCrawlId \in Nat
    BY <1>3, CrawlOfType
  <2> QED BY <1>1, <1>2, <1>9, <2>1, <2>2 DEF CrawlsKnown
<1>12. WishesKnown'
  <2>1. SUFFICES ASSUME \A o \in Ops : op'[o] # "served",
                        NEW w \in Workflows, HasWishes(w), w.lastCrawlId <= server.lastCrawlId
                 PROVE  HasWishes(w)'
    BY <1>1, <1>2, <1>9 DEF WishesKnown, Typed, CrawlsKnown
  <2>2. server.lastCrawlId \in Nat /\ server'.lastCrawlId \in Nat /\ w.lastCrawlId \in Nat
    BY <1>3, <1>9, CrawlOfType DEF Typed
  <2> QED BY <1>9, <2>1, <2>2 DEF HasWishes
<1>13. LatestOf(latest, lastCrawlId)'
    BY <1>1, <1>2 DEF LatestOf
<1> QED BY <1>1, <1>10, <1>11, <1>12, <1>13

-----------------------------------------------------------------------------
(* The specification.                                                        *)

LEMMA InitDetail ==
    ASSUME Init
    PROVE  DetailInv
<1> USE DEF Init
<1>1. setup \in Setups /\ 0 \in 0 .. setup.uses
    BY BoundsAssumption
<1>2. /\ CrawlIds \subseteq Nat /\ NoCrawl \in CrawlIds /\ 1 \in CrawlIds
      /\ None \notin Workflows /\ Sent \notin Workflows /\ None \notin CrawlData
    BY <1>1, NoAnswers
<1>3. server \in Workflows
    BY <1>2 DEF Workflows, ActiveStates
<1>4. workflow \in WorkflowTask /\ workflow.status # "complete"
    BY DEF WorkflowTask, Statuses
<1>5. latest \in DataTask /\ crawls \in DataTask /\ LatestOf(latest, lastCrawlId)
    BY <1>2 DEF DataTask, Task, LatestOf
<1>6. poll \in Poll /\ op \in [Ops -> OpStates]
    BY DEF Poll, OpStates
<1>7. Typed
    BY <1>1, <1>2, <1>3, <1>4, <1>5, <1>6 DEF Typed, Dialogs, Tabs
<1>8. CrawlsKnown /\ WishesKnown
  <2>1. server.lastCrawlId \in Nat
    BY <1>2, <1>3, CrawlOfType
  <2> QED BY <1>2, <2>1 DEF CrawlsKnown, WishesKnown, NoCrawl
<1> QED BY <1>5, <1>7, <1>8 DEF DetailInv

LEMMA DetailStep ==
    ASSUME DetailInv, [Next]_vars
    PROVE  /\ DetailInv'
           /\ \/ lastCrawlId' >= lastCrawlId
              \/ /\ op["run"] = "served" /\ op'["run"] # "served"
                 /\ lastCrawlId' = started
                 /\ workflow'.req = Sent \/ isEditing
<1>1. lastCrawlId >= lastCrawlId
    BY NoAnswers DEF DetailInv, Typed
<1>2. CASE UNCHANGED vars
  <2>1. UNCHANGED <<server, workflow, latest, crawls, poll, lastCrawlId, isCancelingRun,
                    openDialogName, op, tab, isEditing, connected, uses, started, setup>>
    BY <1>2 DEF vars
  <2>2. /\ Workflows' = Workflows /\ CrawlData' = CrawlData /\ CrawlIds' = CrawlIds
        /\ WorkflowTask' = WorkflowTask /\ DataTask' = DataTask /\ Poll' = Poll
    BY <2>1, TypesStay
  <2> QED BY <1>1, <2>1, <2>2 DEF DetailInv, Typed, CrawlsKnown, WishesKnown, HasWishes, LatestOf
<1>3. CASE Next
  <2>1. CASE ReadWorkflow \/ ReadLatest \/ ReadCrawls
    BY <1>1, <2>1, ReadStep
  <2>2. CASE WorkflowAnswer
    BY <2>2, WorkflowAnswerStep
  <2>3. CASE WorkflowFails
    BY <1>1, <2>3, WorkflowFailsStep
  <2>4. CASE LatestAnswer \/ CrawlsAnswer \/ DataFails
    BY <1>1, <2>4, DataStep
  <2>5. CASE Tick
    BY <1>1, <2>5, TickStep
  <2>6. CASE handleExclusionChange \/ ToggleEditing
    BY <1>1, <2>6, EditStep
  <2>7. CASE \E o \in Ops : OpAnswer(o)
    BY <1>1, <2>7, OpAnswerStep
  <2>8. CASE \/ \E name \in {"stop", "cancel", "scale"} : OpenDialog(name)
             \/ CloseDialog
             \/ \E o \in Ops : StartOp(o)
             \/ \E t \in Tabs : SelectTab(t)
             \/ Disconnect
    BY <1>1, <2>8, UserStep
  <2>9. CASE \/ CrawlGoesOn \/ ScheduledRun
             \/ \E o \in Ops : Serves(o) \/ ServerFails(o)
    BY <1>1, <2>9, ServerStep
  <2> QED BY <1>3, <2>1, <2>2, <2>3, <2>4, <2>5, <2>6, <2>7, <2>8, <2>9 DEF Next, Tabs
<1> QED BY <1>2, <1>3

LEMMA InvCurrent ==
    ASSUME DetailInv
    PROVE  ShownIsCurrent
<1>1. TypeOK
    BY DEF DetailInv, Typed, TypeOK, WorkflowTask, Statuses, DataTask, Poll, PollRun, Timer,
           Dialogs, OpStates, Tabs
<1>2. WishesShown
  <2>1. (\A o \in Ops : op[o] = "idle") => \A o \in Ops : op[o] # "served"
    OBVIOUS
  <2> QED BY <2>1 DEF DetailInv, WishesShown, WishesKnown, HasWishes
<1>3. LatestIsLast
    BY DEF DetailInv, LatestOf, LatestIsLast
<1> QED BY <1>1, <1>2, <1>3 DEF ShownIsCurrent

\* What the page of a workflow shows at rest is current: its wishes for the crawl are the
\* server's, and what is shown as the latest crawl is the crawl the page is at, whatever
\* fetches, ticks and operations cross (workflowTask, latestCrawlTask, pollTask).
THEOREM CurrentSafe == Spec => []ShownIsCurrent
<1>1. Spec => []DetailInv
    BY InitDetail, DetailStep, PTL DEF Spec
<1> QED BY <1>1, InvCurrent, PTL

\* The page never goes back to an earlier crawl, but with the late answer to a run, which
\* fetches the workflow again (workflowTask, runNow).
THEOREM NeverBackSafe == Spec => LastCrawlNeverBack
<1>1. Spec => []DetailInv
    BY InitDetail, DetailStep, PTL DEF Spec
<1>2. DetailInv /\ [Next]_vars =>
        [\/ lastCrawlId' >= lastCrawlId
         \/ /\ op["run"] = "served" /\ op'["run"] # "served"
            /\ lastCrawlId' = started
            /\ workflow'.req = Sent \/ isEditing]_vars
    BY DetailStep
<1> QED BY <1>1, <1>2, PTL DEF Spec, LastCrawlNeverBack

-----------------------------------------------------------------------------
(* Schedule: the calendar.                                                   *)

\* A set of natural numbers that is not empty has a least element.
LEMMA MinIn ==
    ASSUME NEW S \in SUBSET Nat, S # {}
    PROVE  Min(S) \in S /\ \A y \in S : Min(S) <= y
<1>1. PICK x \in S : \A y \in S : <<y, x>> \notin OpToRel(<, Nat)
    BY NatLessThanWellFounded, WFMin
<1>2. ASSUME NEW y \in S PROVE x <= y
  <2>1. <<y, x>> \in Nat \X Nat /\ <<y, x>>[1] = y /\ <<y, x>>[2] = x /\ x \in Nat /\ y \in Nat
    OBVIOUS
  <2>2. ~(y < x)
    BY <1>1, <2>1 DEF OpToRel
  <2> QED BY <2>1, <2>2
<1> QED
    BY <1>2 DEF Min

\* The month a day is in.
Lengths == {<<0, 31>>, <<31, 28>>, <<59, 31>>, <<90, 30>>, <<120, 31>>, <<151, 30>>,
            <<181, 31>>, <<212, 31>>, <<243, 30>>, <<273, 31>>, <<304, 30>>, <<334, 31>>}

\* The month that getDate looks for is the one whose days enclose the day of the year.
LEMMA MonthIs ==
    ASSUME NEW m \in Lengths, NEW y \in Int, m[1] <= y, y < m[1] + m[2]
    PROVE  Max({s \in MonthStarts : s <= y}) = m[1]
<1>1. m[1] \in MonthStarts /\ \A s \in MonthStarts : s <= y => s <= m[1]
    BY DEF Lengths, MonthStarts
<1>2. m[1] \in Int /\ MonthStarts \subseteq Int
    BY DEF Lengths, MonthStarts
<1> DEFINE S == {s \in MonthStarts : s <= y}
<1>3. m[1] \in S /\ \A s \in S : m[1] >= s
    BY <1>1, <1>2
<1>4. ASSUME NEW x \in S, \A s \in S : x >= s PROVE x = m[1]
  <2>1. x >= m[1] /\ m[1] >= x
    BY <1>3, <1>4
  <2>2. x \in Int
    BY <1>2
  <2> QED BY <1>2, <2>1, <2>2
<1> QED
    BY <1>3, <1>4 DEF Max

\* Every day of the year is in a month.
LEMMA InMonth ==
    ASSUME NEW y \in 0..364
    PROVE  \E m \in Lengths : m[1] <= y /\ y < m[1] + m[2]
<1> DEFINE W(a, b) == <<a, b>> \in Lengths /\ <<a, b>>[1] = a /\ <<a, b>>[2] = b
<1>1. /\ W(0, 31) /\ W(31, 28) /\ W(59, 31) /\ W(90, 30) /\ W(120, 31) /\ W(151, 30)
      /\ W(181, 31) /\ W(212, 31) /\ W(243, 30) /\ W(273, 31) /\ W(304, 30) /\ W(334, 31)
    BY DEF Lengths
<1>2. \A a, b : W(a, b) /\ a <= y /\ y < a + b => \E m \in Lengths : m[1] <= y /\ y < m[1] + m[2]
    OBVIOUS
<1> HIDE DEF W
<1>3. \/ 0 <= y /\ y < 0 + 31
      \/ 31 <= y /\ y < 31 + 28
      \/ 59 <= y /\ y < 59 + 31
      \/ 90 <= y /\ y < 90 + 30
      \/ 120 <= y /\ y < 120 + 31
      \/ 151 <= y /\ y < 151 + 30
      \/ 181 <= y /\ y < 181 + 31
      \/ 212 <= y /\ y < 212 + 31
      \/ 243 <= y /\ y < 243 + 30
      \/ 273 <= y /\ y < 273 + 31
      \/ 304 <= y /\ y < 304 + 30
      \/ 334 <= y /\ y < 334 + 31
    OBVIOUS
<1> QED
    BY <1>1, <1>2, <1>3

\* The first and the date of a day, by its month.
LEMMA DateIs ==
    ASSUME NEW d \in Nat, NEW m \in Lengths, m[1] <= d % 365, d % 365 < m[1] + m[2]
    PROVE  FirstOfMonth(d) = (d - (d % 365)) + m[1] /\ getDate(d) = (d % 365) - m[1] + 1
<1>1. d % 365 \in 0..364 /\ m[1] \in Int
    BY DEF Lengths
<1>2. Max({s \in MonthStarts : s <= (d % 365)}) = m[1]
    BY <1>1, MonthIs
<1> QED
    BY <1>1, <1>2 DEF FirstOfMonth, getDate

\* Months have 28 to 31 days and end within the year.
LEMMA MonthTypes ==
    ASSUME NEW m \in Lengths
    PROVE  m[1] \in 0..334 /\ m[2] \in 28..31 /\ m[1] + m[2] <= 365
BY DEF Lengths

\* The days of a month.
InThis(e, a, b) == a <= e % 365 /\ e % 365 < a + b
Month(a, b) ==
    \A e \in Nat : InThis(e, a, b) => /\ FirstOfMonth(e) = (e - (e % 365)) + a
                                      /\ getDate(e) = (e % 365) - a + 1

\* A month of the table is a month in every year.
LEMMA MonthOf ==
    ASSUME NEW m \in Lengths
    PROVE  Month(m[1], m[2])
BY DateIs DEF Month, InThis

\* Every day is in a month.
LEMMA HasMonth ==
    ASSUME NEW d \in Nat
    PROVE  \E a \in 0..334, b \in 28..31 : a + b <= 365 /\ InThis(d, a, b) /\ Month(a, b)
<1>1. d % 365 \in 0..364
    OBVIOUS
<1>2. PICK m \in Lengths : m[1] <= d % 365 /\ d % 365 < m[1] + m[2]
    BY <1>1, InMonth
<1> DEFINE a == m[1]
           b == m[2]
<1>3. InThis(d, a, b)
    BY <1>2 DEF InThis
<1>4. Month(a, b)
    BY MonthOf
<1>5. a \in 0..334 /\ b \in 28..31 /\ a + b <= 365
    BY MonthTypes
<1> HIDE DEF a, b
<1> QED
    BY <1>3, <1>4, <1>5

\* A month has a first day, and dates from 1 to 31.
LEMMA DateType ==
    ASSUME NEW d \in Nat
    PROVE  /\ FirstOfMonth(d) \in Nat /\ FirstOfMonth(d) <= d /\ d < FirstOfMonth(d) + 31
           /\ getDate(d) \in 1..31
<1>1. PICK a \in 0..334, b \in 28..31 : a + b <= 365 /\ InThis(d, a, b) /\ Month(a, b)
    BY HasMonth
<1> DEFINE y == d % 365
<1>2. FirstOfMonth(d) = (d - y) + a /\ getDate(d) = y - a + 1 /\ a <= y /\ y < a + b
    BY <1>1 DEF Month, InThis
<1>3. y \in 0..364 /\ y <= d
    OBVIOUS
<1> HIDE DEF y
<1> QED
    BY <1>2, <1>3

\* Every month has the dates from 1 to 28.
LEMMA DateInMonth ==
    ASSUME NEW d \in Nat, NEW n \in 1..28
    PROVE  getDate(FirstOfMonth(d) + n - 1) = n
<1>1. PICK a \in 0..334, b \in 28..31 : a + b <= 365 /\ InThis(d, a, b) /\ Month(a, b)
    BY HasMonth
<1> DEFINE x == d - (d % 365)
           e == FirstOfMonth(d) + n - 1
<1>2. x \in Nat /\ x % 365 = 0
    OBVIOUS
<1>3. FirstOfMonth(d) = x + a
    BY <1>1 DEF Month
<1> HIDE DEF x
<1>4. e = x + (a + n - 1) /\ a + n - 1 \in 0..364 /\ a + n - 1 < a + b
    BY <1>1, <1>2, <1>3
<1>5. e \in Nat /\ e % 365 = a + n - 1
    BY <1>2, <1>4
<1> HIDE DEF e
<1>6. InThis(e, a, b)
    BY <1>4, <1>5 DEF InThis
<1>7. getDate(e) = n
    BY <1>1, <1>5, <1>6 DEF Month
<1> QED
    BY <1>7 DEF e

\* Any date comes within two months: months of 31 days are at most 61 apart.
LEMMA DateComes ==
    ASSUME NEW d \in Nat, NEW n \in 1..31
    PROVE  \E e \in (d + 1)..(d + 62) : getDate(e) = n
<1> DEFINE y == d % 365
           At(s) == y < s + n - 1 /\ s + n - 1 <= y + 62
           x == d - y
           Goal == \E e \in (d + 1)..(d + 62) : getDate(e) = n
<1>1. y \in 0..364 /\ x \in Nat /\ d = x + y /\ x % 365 = 0
    OBVIOUS
<1>2. \/ At(0) \/ At(59) \/ At(120) \/ At(181) \/ At(212) \/ At(273) \/ At(334) \/ At(365)
    BY <1>1
<1> HIDE DEF y, x, Goal
<1>3. ASSUME NEW s \in 0..334, Month(s, 31), NEW z \in Nat, z % 365 = 0,
             d < z + s + n - 1, z + s + n - 1 <= d + 62
      PROVE  Goal
  <2> DEFINE e == z + s + n - 1
  <2>1. e \in (d + 1)..(d + 62) /\ e \in Nat /\ e % 365 = s + n - 1
    BY <1>3
  <2> HIDE DEF e
  <2>2. getDate(e) = n
    BY <1>3, <2>1 DEF Month, InThis
  <2> QED
    BY <2>1, <2>2 DEF Goal
<1>4. ASSUME NEW s \in {0, 59, 120, 181, 212, 273, 334} PROVE Month(s, 31) /\ s \in 0..334
  <2>1. <<s, 31>> \in Lengths /\ <<s, 31>>[1] = s /\ <<s, 31>>[2] = 31
    BY DEF Lengths
  <2> QED BY <2>1, MonthOf
<1>5. ASSUME NEW s \in {0, 59, 120, 181, 212, 273, 334}, At(s) PROVE Goal
  <2>1. d < x + s + n - 1 /\ x + s + n - 1 <= d + 62
    BY <1>1, <1>4, <1>5
  <2> QED
    BY <1>1, <1>3, <1>4, <2>1
<1>6. ASSUME At(365) PROVE Goal
  <2>1. d < (x + 365) + 0 + n - 1 /\ (x + 365) + 0 + n - 1 <= d + 62
    BY <1>1, <1>6
  <2>2. (x + 365) \in Nat /\ (x + 365) % 365 = 0
    BY <1>1
  <2> QED
    BY <1>3, <1>4, <2>1, <2>2
<1>7. Goal
    BY <1>2, <1>5, <1>6
<1> QED
    BY <1>7 DEF Goal
-----------------------------------------------------------------------------
(* Hours and days.                                                           *)

\* The clock of twelve hours and back.
LEMMA Clock ==
    ASSUME NEW h \in 0..23
    PROVE  /\ To12(h).hour \in 1..12 /\ To12(h).period \in {"AM", "PM"}
           /\ To24(To12(h).hour, To12(h).period) = h
BY DEF To12, To24

\* The inputs of the clock name an hour of the day.
LEMMA Hour ==
    ASSUME NEW h \in 1..12, NEW p \in {"AM", "PM"}
    PROVE  To24(h, p) \in 0..23
BY DEF To24

\* Hours before or after the start of a day are those of another one.
LEMMA DayShift ==
    ASSUME NEW d \in Int, NEW a \in -100..100
    PROVE  /\ (d * 24 + a) \div 24 = d + (a \div 24)
           /\ (d * 24 + a) % 24 = a % 24
           /\ a \div 24 \in -5..5
           /\ a % 24 \in 0..23
           /\ a = (24 * (a \div 24)) + (a % 24)
<1>1. PICK q \in -5..5, r \in 0..23 : a = 24 * q + r
  <2>1. a \div 24 \in -5..5
    OBVIOUS
  <2>2. a % 24 \in 0..23
    OBVIOUS
  <2>3. a = 24 * (a \div 24) + (a % 24)
    OBVIOUS
  <2> QED BY <2>1, <2>2, <2>3
<1>2. a \div 24 = q /\ a % 24 = r
    BY <1>1
<1>3. d * 24 + a = 24 * (d + q) + r
    BY <1>1
<1>4. \A k \in Int : (24 * k + r) \div 24 = k /\ (24 * k + r) % 24 = r
    OBVIOUS
<1>5. (d * 24 + a) \div 24 = d + q /\ (d * 24 + a) % 24 = r
    BY <1>3, <1>4
<1> QED
    BY <1>1, <1>2, <1>5

\* Days of the week are counted on from one another.
LEMMA WeekShift ==
    ASSUME NEW a \in Int, NEW k \in Int
    PROVE  /\ a % 7 \in 0..6
           /\ ((a % 7) + k) % 7 = (a + k) % 7
           /\ a \in 0..6 => a % 7 = a
<1>1. a % 7 \in 0..6 /\ (a \in 0..6 => a % 7 = a)
    OBVIOUS
<1>2. PICK q \in Int, r \in 0..6 : a = 7 * q + r
  <2>1. a = 7 * (a \div 7) + (a % 7) /\ a \div 7 \in Int
    OBVIOUS
  <2> QED BY <1>1, <2>1
<1>3. a % 7 = r
    BY <1>2
<1>4. \A x \in Int, j \in Int : (7 * j + x) % 7 = x % 7
    OBVIOUS
<1>5. a + k = 7 * q + (r + k) /\ r + k \in Int
    BY <1>2
<1>6. (a + k) % 7 = (r + k) % 7
    BY <1>4, <1>5
<1> QED
    BY <1>1, <1>3, <1>6

-----------------------------------------------------------------------------
(* What is stored of a choice.                                               *)

CronType == [hours : SUBSET (0..23), dates : SUBSET (1..31), days : SUBSET (0..6)]
FormType == [type : {"none", "cron"}, frequency : {"daily", "weekly", "monthly", "custom"},
             dayOfMonth : 1..31, dayOfWeek : 0..6,
             time : [hour : 1..12, period : {"AM", "PM"}], custom : CronType \cup {NoSchedule}]

\* The choices for which crawls run as chosen.
Kept(c, z) ==
    /\ c.frequency # "custom"
    /\ c.frequency = "weekly" => c.day # 0
    /\ c.frequency = "monthly" => c.day <= 28 /\ c.hour - z \in 0..23

\* The expression for such a choice, which does not depend on when it is made.
Expected(c, z) ==
    Cron({(c.hour - z) % 24},
         IF c.frequency = "monthly" THEN {c.day} ELSE Star,
         IF c.frequency = "weekly" THEN {(c.day + (c.hour - z) \div 24) % 7} ELSE Star)

\* The day that getUTCSchedule moves to is in this year.
LEMMA LocalDate ==
    ASSUME NEW f \in FormType, NEW d \in Nat, d >= 31
    PROVE  localDate(f, d) \in Nat /\ localDate(f, d) >= 25
<1>1. getDay(d) \in 0..6 /\ f.dayOfWeek \in 0..6 /\ f.dayOfMonth \in 1..31
    BY DEF getDay, FormType
<1>2. FirstOfMonth(d) \in Nat /\ d < FirstOfMonth(d) + 31
    BY DateType
<1>3. FirstOfMonth(d) >= 25
  <2>1. PICK a \in 0..334, b \in 28..31 : a + b <= 365 /\ InThis(d, a, b) /\ Month(a, b)
    BY HasMonth
  <2>2. CASE FirstOfMonth(d) < 25
    <3>1. d < 56 /\ d >= 31
        BY <1>2, <2>2
    <3>2. d % 365 = d
        BY <3>1
    <3>3. <<31, 28>> \in Lengths /\ <<31, 28>>[1] = 31 /\ <<31, 28>>[2] = 28
        BY DEF Lengths
    <3>4. FirstOfMonth(d) = (d - (d % 365)) + 31
      <4>1. <<31, 28>>[1] <= d % 365 /\ d % 365 < <<31, 28>>[1] + <<31, 28>>[2]
        BY <3>1, <3>2, <3>3
      <4> QED BY <3>3, <4>1, DateIs
    <3> QED BY <2>2, <3>2, <3>4
  <2> QED BY <1>2, <2>2
<1> QED
    BY <1>1, <1>2, <1>3 DEF localDate

\* getUTCSchedule stores an expression, and the one expected for such a choice.
LEMMA UTCSchedule ==
    ASSUME NEW f \in FormType, NEW t \in Nat, t >= 24 * 31, NEW z \in -12..14
    PROVE  /\ getUTCSchedule(f, t, z) \in CronType
           /\ Kept(Choice(f), z) => getUTCSchedule(f, t, z) = Expected(Choice(f), z)
<1> DEFINE H == To24(f.time.hour, f.time.period)
           L == localDate(f, t \div 24)
           a == H - z
           utc == L * 24 + H - z
           d == t \div 24
<1>1. H \in 0..23 /\ a \in -100..100
    BY Hour DEF FormType
<1>2. d \in Nat /\ d >= 31
    OBVIOUS
<1>3. L \in Nat /\ L >= 25
    BY <1>2, LocalDate
<1>4. utc = L * 24 + a
    BY <1>1, <1>3
<1> HIDE DEF L, d, H
<1>5. utc \div 24 = L + a \div 24 /\ utc % 24 = a % 24 /\ a % 24 \in 0..23 /\ a \div 24 \in -5..5
    BY <1>1, <1>3, <1>4, DayShift
<1>6. utc \div 24 \in Nat
    BY <1>3, <1>5
<1>7. getDate(utc \div 24) \in 1..31
    BY <1>6, DateType
<1>7a. getDay(utc \div 24) \in 0..6
    BY <1>6 DEF getDay
<1>8. getUTCSchedule(f, t, z) =
        Cron({utc % 24}, IF f.frequency = "monthly" THEN {getDate(utc \div 24)} ELSE Star,
                         IF f.frequency = "weekly" THEN {getDay(utc \div 24)} ELSE Star)
    BY DEF getUTCSchedule, H, L
<1> HIDE DEF utc, a
<1>9. getUTCSchedule(f, t, z) \in CronType
    BY <1>5, <1>7, <1>7a, <1>8 DEF Cron, Star, CronType
<1>10. ASSUME Kept(Choice(f), z)
       PROVE  getUTCSchedule(f, t, z) = Expected(Choice(f), z)
  <2>1. /\ Choice(f).frequency = f.frequency /\ Choice(f).hour = H
        /\ f.frequency = "weekly" => Choice(f).day = f.dayOfWeek
        /\ f.frequency = "monthly" => Choice(f).day = f.dayOfMonth
    BY DEF Choice, H
  <2>2. CASE f.frequency = "weekly"
    <3>1. f.dayOfWeek \in 1..6
        BY <1>10, <2>1, <2>2 DEF Kept, FormType
    <3>2. L = d + f.dayOfWeek - getDay(d)
        BY <2>2, <3>1 DEF localDate, L, d
    <3>3. L % 7 = f.dayOfWeek
        BY <1>2, <3>1, <3>2 DEF getDay
    <3>4. getDay(utc \div 24) = (f.dayOfWeek + a \div 24) % 7
        BY <1>3, <1>5, <3>1, <3>3, WeekShift DEF getDay
    <3> QED
        BY <1>5, <1>8, <2>1, <2>2, <3>4 DEF Expected, a
  <2>3. CASE f.frequency = "monthly"
    <3>1. f.dayOfMonth \in 1..28 /\ a \in 0..23
        BY <1>10, <2>1, <2>3 DEF Kept, FormType, a
    <3>2. L = FirstOfMonth(d) + f.dayOfMonth - 1
        BY <2>3 DEF localDate, L, d
    <3>3. a \div 24 = 0
        BY <3>1
    <3>4. getDate(utc \div 24) = f.dayOfMonth
        BY <1>2, <1>3, <1>5, <3>1, <3>2, <3>3, DateInMonth
    <3> QED
        BY <1>5, <1>8, <2>1, <2>3, <3>4 DEF Expected, a
  <2>4. CASE f.frequency \notin {"weekly", "monthly"}
    BY <1>5, <1>8, <2>1, <2>4 DEF Expected, a
  <2> QED
    BY <2>2, <2>3, <2>4
<1> QED
    BY <1>9, <1>10

\* A choice is one of a form.
ChoiceType ==
    {c \in [frequency : {"daily", "weekly", "monthly", "custom"}, hour : 0..23, day : 0..31] :
        /\ c.frequency = "weekly" => c.day \in 0..6
        /\ c.frequency = "monthly" => c.day \in 1..31}

\* A form asks for a choice.
LEMMA ChoiceOf ==
    ASSUME NEW f \in FormType
    PROVE  Choice(f) \in ChoiceType
<1>1. To24(f.time.hour, f.time.period) \in 0..23
    BY Hour DEF FormType
<1>2. /\ f.frequency \in {"daily", "weekly", "monthly", "custom"}
      /\ f.dayOfWeek \in 0..6 /\ f.dayOfMonth \in 1..31
    BY DEF FormType
<1> QED
    BY <1>1, <1>2 DEF Choice, ChoiceType

-----------------------------------------------------------------------------
(* What is opened of an expression.                                          *)

\* A day on which an expression with one kind of days runs comes within two months.
LEMMA RunComes ==
    ASSUME NEW c \in CronType, c.dates = Star \/ c.days = Star, NEW d \in Nat
    PROVE  \E e \in (d + 1)..(d + 62) : RunsOn(c, e)
<1>1. CASE c.dates = Star /\ c.days = Star
    BY <1>1 DEF RunsOn
<1>2. CASE c.dates # Star
  <2>1. PICK n \in c.dates : n \in 1..31
    BY <1>2 DEF CronType, Star
  <2>2. PICK e \in (d + 1)..(d + 62) : getDate(e) = n
    BY <2>1, DateComes
  <2> QED
    BY <1>2, <2>1, <2>2 DEF RunsOn
<1>3. CASE c.days # Star
  <2>1. PICK w \in c.days : w \in 0..6
    BY <1>3 DEF CronType, Star
  <2>2. \E e \in (d + 1)..(d + 62) : e % 7 = w
    <3> DEFINE k == (w - (d + 1)) % 7
    <3>0. w - (d + 1) \in Int /\ d + 1 \in Int
        BY <2>1
    <3>1. k \in 0..6
        BY <3>0
    <3>2. (k + (d + 1)) % 7 = ((w - (d + 1)) + (d + 1)) % 7
        BY <3>0, WeekShift
    <3>3. ((w - (d + 1)) + (d + 1)) % 7 = w
        BY <2>1
    <3> HIDE DEF k
    <3>4. k + (d + 1) \in (d + 1)..(d + 62)
        BY <3>1
    <3> QED BY <3>2, <3>3, <3>4
  <2>3. PICK e \in (d + 1)..(d + 62) : getDay(e) = w
    BY <2>2 DEF getDay
  <2> QED
    BY <1>3, <2>1, <2>3 DEF RunsOn
<1> QED
    BY <1>1, <1>2, <1>3

\* The next run is one, and is later.
LEMMA NextRun ==
    ASSUME NEW c \in CronType, c.hours # Star, c.dates = Star \/ c.days = Star, NEW utc \in Nat
    PROVE  \E e \in Nat, h \in c.hours :
              RunsOn(c, e) /\ getNextDate(c, utc) = e * 24 + h /\ e * 24 + h > utc
<1> DEFINE d == utc \div 24
           S == {t \in Runs(c, d) : t > utc}
<1>1. d \in Nat /\ utc < (d + 1) * 24
    OBVIOUS
<1>2. S = {t \in Runs(c, utc \div 24) : t > utc}
    OBVIOUS
<1> HIDE DEF d
<1>3. c.hours \subseteq 0..23
    BY DEF CronType
<1>4. \A t \in Runs(c, d) : \E e \in Nat, h \in c.hours : RunsOn(c, e) /\ t = e * 24 + h
    BY <1>1 DEF Runs
<1>5. S \subseteq Nat
    BY <1>3, <1>4
<1>6. S # {}
  <2>1. PICK e \in (d + 1)..(d + 62) : RunsOn(c, e)
    BY <1>1, RunComes
  <2>2. PICK h \in c.hours : h \in 0..23
    BY <1>3 DEF Star
  <2>3. e * 24 + h \in Runs(c, d)
    BY <1>1, <2>1, <2>2 DEF Runs, Horizon
  <2>4. e * 24 + h > utc
    BY <1>1, <2>1, <2>2
  <2> QED BY <2>3, <2>4
<1>7. Min(S) \in S
    BY <1>5, <1>6, MinIn
<1>8. getNextDate(c, utc) = Min(S)
    BY <1>2 DEF getNextDate
<1> HIDE DEF S
<1>9. getNextDate(c, utc) \in Runs(c, d) /\ getNextDate(c, utc) > utc
    BY <1>7, <1>8 DEF S
<1> QED
    BY <1>4, <1>9

\* The form for an expression that is no custom one shows the local hour and day of a run.
LEMMA Opened ==
    ASSUME NEW c \in CronType, c # NoSchedule, getScheduleInterval(c) # "custom",
           NEW t \in Nat, t >= 24 * 31, NEW z \in -12..14
    PROVE  \E e \in Nat, h \in c.hours :
              /\ RunsOn(c, e) /\ h \in 0..23 /\ e + ((h + z) \div 24) \in Nat
              /\ getInitialFormState(c, t, z) =
                    Form("cron", getScheduleInterval(c), getDate(e + ((h + z) \div 24)),
                         getDay(e + ((h + z) \div 24)), To12((h + z) % 24), NoSchedule)
<1>1. c.hours # Star /\ (c.dates = Star \/ c.days = Star) /\ c.hours \subseteq 0..23
  <2>1. c.hours \subseteq 0..23
    BY DEF CronType
  <2>2. c.hours # Star
    BY DEF getScheduleInterval
  <2>3. c.dates = Star \/ c.days = Star
    BY DEF getScheduleInterval
  <2> QED BY <2>1, <2>2, <2>3
<1>2. t - z \in Nat
    OBVIOUS
<1>3. PICK e \in Nat, h \in c.hours :
          RunsOn(c, e) /\ getNextDate(c, t - z) = e * 24 + h /\ e * 24 + h > t - z
    BY <1>1, <1>2, NextRun
<1> DEFINE a == h + z
           next == getNextDate(c, t - z) + z
<1>4. a \in -100..100 /\ h \in 0..23
    BY <1>1
<1>5. next = e * 24 + a
    BY <1>3, <1>4
<1>6. next \div 24 = e + (a \div 24) /\ next % 24 = a % 24 /\ a \div 24 \in -5..5 /\ a % 24 \in 0..23
    BY <1>4, <1>5, DayShift
<1>7. next > t
    BY <1>3, <1>4
<1>8. next \div 24 \in Nat
  <2>1. next \in Nat
    BY <1>4, <1>5, <1>7
  <2> HIDE DEF next
  <2> QED BY <2>1
<1>9. getInitialFormState(c, t, z) =
          Form("cron", getScheduleInterval(c), getDate(next \div 24), getDay(next \div 24),
               To12(next % 24), NoSchedule)
    BY DEF getInitialFormState
<1> HIDE DEF next
<1> QED
    BY <1>3, <1>4, <1>6, <1>8, <1>9

\* What the editor opens with is a form.
LEMMA DefaultType ==
    ASSUME NEW t \in Nat
    PROVE  Default(t) \in FormType
<1>1. t \div 24 \in Nat
    OBVIOUS
<1>2. getDate(t \div 24) \in 1..31
    BY <1>1, DateType
<1>3. getDay(t \div 24) \in 0..6
    BY <1>1 DEF getDay
<1> QED
    BY <1>2, <1>3 DEF Default, Form, FormType

\* An expression is opened as a form.
LEMMA FormTyped ==
    ASSUME NEW c \in CronType \cup {NoSchedule}, NEW t \in Nat, t >= 24 * 31, NEW z \in -12..14
    PROVE  getInitialFormState(c, t, z) \in FormType
<1>1. CASE c = NoSchedule \/ getScheduleInterval(c) = "custom"
  <2>1. Default(t) \in FormType
    BY DefaultType
  <2>2. [Default(t) EXCEPT !.type = "cron", !.frequency = "custom", !.custom = c] \in FormType
    BY <2>1 DEF FormType
  <2> QED
    BY <1>1, <2>1, <2>2 DEF getInitialFormState
<1>2. CASE c # NoSchedule /\ getScheduleInterval(c) # "custom"
  <2>1. PICK e \in Nat, h \in c.hours :
              /\ RunsOn(c, e) /\ h \in 0..23 /\ e + ((h + z) \div 24) \in Nat
              /\ getInitialFormState(c, t, z) =
                    Form("cron", getScheduleInterval(c), getDate(e + ((h + z) \div 24)),
                         getDay(e + ((h + z) \div 24)), To12((h + z) % 24), NoSchedule)
    BY <1>2, Opened
  <2> DEFINE x == e + ((h + z) \div 24)
             y == (h + z) % 24
  <2>2. x \in Nat /\ y \in 0..23
    BY <2>1
  <2> HIDE DEF x, y
  <2>3. getDate(x) \in 1..31 /\ getDay(x) \in 0..6
    <3>1. getDate(x) \in 1..31
        BY <2>2, DateType
    <3>2. getDay(x) \in 0..6
        BY <2>2 DEF getDay
    <3> QED BY <3>1, <3>2
  <2>4. To12(y) \in [hour : 1..12, period : {"AM", "PM"}]
    BY <2>2 DEF To12
  <2>5. getScheduleInterval(c) \in {"daily", "weekly", "monthly", "custom"}
    BY DEF getScheduleInterval
  <2>6. getInitialFormState(c, t, z) =
            Form("cron", getScheduleInterval(c), getDate(x), getDay(x), To12(y), NoSchedule)
    BY <2>1 DEF x, y
  <2> QED
    BY <2>3, <2>4, <2>5, <2>6 DEF Form, FormType
<1> QED
    BY <1>1, <1>2
-----------------------------------------------------------------------------
(* Opening and saving again.                                                 *)

\* Plain, member by member.
PlainFor(c, z) ==
    /\ \A x, y \in c.hours : x = y
    /\ \A x, y \in c.dates : x = y
    /\ \A x, y \in c.days : x = y
    /\ c.dates \subseteq 1..28
    /\ c.dates # Star => \A h \in c.hours : h + z \in 0..23
    /\ \A h \in c.hours, w \in c.days : getDay((24 * w + h + z) \div 24) # 0

\* A set of at most one element has no two.
LEMMA AtMostOne ==
    ASSUME NEW n \in Nat, NEW S \in SUBSET (0..n), Cardinality(S) <= 1
    PROVE  \A x, y \in S : x = y
<1>1. IsFiniteSet(S)
  <2>1. IsFiniteSet(0..n)
    BY FS_Interval
  <2> QED BY <2>1, FS_Subset
<1>2. ASSUME NEW x \in S, NEW y \in S, x # y PROVE FALSE
  <2>1. IsFiniteSet({x}) /\ Cardinality({x}) = 1
    BY FS_Singleton
  <2>2. Cardinality({x} \cup {y}) = 2
    BY <1>2, <2>1, FS_AddElement
  <2>3. Cardinality({x} \cup {y}) <= Cardinality(S)
    BY <1>1, <1>2, FS_Subset
  <2>4. Cardinality(S) \in Nat
    BY <1>1, FS_CardinalityType
  <2> QED BY <2>2, <2>3, <2>4
<1> QED BY <1>2

\* What Plain says by counting.
LEMMA PlainIs ==
    ASSUME NEW c \in CronType, Plain(c)
    PROVE  PlainFor(c, zone)
<1>1. c.hours \subseteq 0..31 /\ c.dates \subseteq 0..31 /\ c.days \subseteq 0..31
    BY DEF CronType
<1>2. Cardinality(c.hours) <= 1 /\ Cardinality(c.dates) <= 1 /\ Cardinality(c.days) <= 1
    BY DEF Plain
<1>3. /\ \A x, y \in c.hours : x = y
      /\ \A x, y \in c.dates : x = y
      /\ \A x, y \in c.days : x = y
    BY <1>1, <1>2, AtMostOne, 31 \in Nat
<1> QED
    BY <1>3 DEF Plain, PlainFor

\* What is opened of a plain expression says that expression.
LEMMA RoundTrip ==
    ASSUME NEW c \in CronType, c # NoSchedule, NEW t \in Nat, t >= 24 * 31, NEW z \in -12..14,
           PlainFor(c, z)
    PROVE  scheduleOf(getInitialFormState(c, t, z), t, z) = c
<1> DEFINE f == getInitialFormState(c, t, z)
<1>1. CASE getScheduleInterval(c) = "custom"
  <2>1. f = [Default(t) EXCEPT !.type = "cron", !.frequency = "custom", !.custom = c]
    BY <1>1 DEF getInitialFormState
  <2>2. f.type = "cron" /\ f.frequency = "custom" /\ f.custom = c
    BY <2>1 DEF Default, Form
  <2> QED
    BY <2>2 DEF scheduleOf
<1>2. CASE getScheduleInterval(c) # "custom"
  <2>1. PICK e \in Nat, h \in c.hours :
              /\ RunsOn(c, e) /\ h \in 0..23 /\ e + ((h + z) \div 24) \in Nat
              /\ f = Form("cron", getScheduleInterval(c), getDate(e + ((h + z) \div 24)),
                          getDay(e + ((h + z) \div 24)), To12((h + z) % 24), NoSchedule)
    BY <1>2, Opened
  <2> DEFINE k == (h + z) \div 24
             y == (h + z) % 24
  <2>2. /\ k \in -5..5 /\ y \in 0..23 /\ h + z = 24 * k + y
        /\ h + z \in 0..23 => k = 0 /\ y = h + z
    <3>1. h + z \in -100..100
        BY <2>1
    <3>2. k \in -5..5 /\ y \in 0..23 /\ h + z = 24 * k + y
        BY <3>1, DayShift, 0 \in Int
    <3>3. h + z \in 0..23 => k = 0 /\ y = h + z
        OBVIOUS
    <3> QED BY <3>2, <3>3
  <2>3. f = Form("cron", getScheduleInterval(c), getDate(e + k), getDay(e + k), To12(y), NoSchedule)
    BY <2>1
  <2>4. f \in FormType
    BY FormTyped
  <2> HIDE DEF k, y, f
  <2>5. /\ f.type = "cron" /\ f.frequency = getScheduleInterval(c)
        /\ f.dayOfMonth = getDate(e + k) /\ f.dayOfWeek = getDay(e + k)
        /\ To24(f.time.hour, f.time.period) = y
    BY <2>2, <2>3, Clock DEF Form
  <2>6. c.hours = {h} /\ c.hours # Star
    BY <2>1 DEF PlainFor, Star
  <2>7. \A x \in c.days : c.days = {x}
    BY DEF PlainFor
  <2>8. \A x \in c.dates : c.dates = {x} /\ x \in 1..28
    BY DEF PlainFor
  <2>9. (y - z) % 24 = h /\ (y - z) \div 24 = 0 - k
    <3>0. h \in Int /\ k \in Int /\ y \in Int /\ h + z = 24 * k + y
      <4>1. h \in Int
        BY <2>1
      <4>2. k \in Int /\ y \in Int /\ h + z = 24 * k + y
        BY <2>2
      <4> QED BY <4>1, <4>2
    <3>1. y - z = (0 - k) * 24 + h
        BY <3>0
    <3>2. h % 24 = h /\ h \div 24 = 0
        BY <2>1
    <3>3. 0 - k \in Int /\ h \in -100..100 /\ (0 - k) + 0 = 0 - k
        BY <2>1, <2>2
    <3> QED BY <3>1, <3>2, <3>3, DayShift
  <2> DEFINE ch == Choice(f)
  <2>10. /\ ch.frequency = getScheduleInterval(c) /\ ch.hour = y
         /\ ch.frequency = "weekly" => ch.day = getDay(e + k)
         /\ ch.frequency = "monthly" => ch.day = getDate(e + k)
    BY <2>5 DEF Choice
  <2>11. scheduleOf(f, t, z) = getUTCSchedule(f, t, z)
    BY <1>2, <2>5 DEF scheduleOf
  <2>12. Kept(ch, z) => getUTCSchedule(f, t, z) = Expected(ch, z)
    BY <2>4, UTCSchedule
  <2> HIDE DEF ch
  <2>13. c = Cron(c.hours, c.dates, c.days)
    BY DEF CronType, Cron
  <2>14. CASE c.dates = Star /\ c.days = Star
    <3>1. getScheduleInterval(c) = "daily"
        BY <2>6, <2>14 DEF getScheduleInterval
    <3>2. Kept(ch, z)
        BY <2>10, <3>1 DEF Kept
    <3>3. Expected(ch, z) = Cron({h}, Star, Star)
        BY <2>9, <2>10, <3>1 DEF Expected
    <3> QED
        BY <2>6, <2>11, <2>12, <2>13, <2>14, <3>2, <3>3 DEF f
  <2>15. CASE c.dates = Star /\ c.days # Star
    <3>1. getScheduleInterval(c) = "weekly"
        BY <2>6, <2>15 DEF getScheduleInterval
    <3>2. PICK w \in c.days : w \in 0..6
        BY <2>15 DEF Star, CronType
    <3>3. c.days = {w} /\ getDay(e) = w
        BY <2>1, <2>7, <2>15, <3>2 DEF RunsOn
    <3>4. getDay(e + k) = (w + k) % 7
        BY <2>2, <3>3, WeekShift DEF getDay
    <3>5. (24 * w + h + z) \div 24 = w + k
      <4>1. 24 * w + h + z = (w + k) * 24 + y
        BY <2>1, <2>2, <3>2
      <4>2. y \div 24 = 0 /\ y \in -100..100 /\ w + k \in Int /\ (w + k) + 0 = w + k
        BY <2>2, <3>2
      <4> QED BY <4>1, <4>2, DayShift
    <3>6. (w + k) % 7 # 0
        BY <3>2, <3>5, <2>6 DEF PlainFor, getDay
    <3>7. Kept(ch, z)
        BY <2>10, <3>1, <3>4, <3>6 DEF Kept
    <3>8. (((w + k) % 7) + (0 - k)) % 7 = w
      <4>1. w + k \in Int /\ 0 - k \in Int /\ (w + k) + (0 - k) = w
        BY <2>2, <3>2
      <4>2. w % 7 = w
        BY <3>2
      <4> QED BY <4>1, <4>2, WeekShift
    <3>9. Expected(ch, z) = Cron({h}, Star, {w})
        BY <2>9, <2>10, <3>1, <3>4, <3>8 DEF Expected
    <3> QED
        BY <2>6, <2>11, <2>12, <2>13, <2>15, <3>3, <3>7, <3>9 DEF f
  <2>16. CASE c.dates # Star /\ c.days = Star
    <3>1. getScheduleInterval(c) = "monthly"
        BY <2>6, <2>16 DEF getScheduleInterval
    <3>2. PICK n \in c.dates : n \in 1..28 /\ c.dates = {n}
        BY <2>8, <2>16 DEF Star
    <3>3. getDate(e) = n
        BY <2>1, <2>16, <3>2 DEF RunsOn
    <3>4. k = 0 /\ y = h + z
        BY <2>2, <2>6, <2>16 DEF PlainFor
    <3>5. e + k = e /\ y - z = h
        BY <2>1, <3>4
    <3>6. Kept(ch, z)
        BY <2>1, <2>10, <3>1, <3>2, <3>3, <3>5 DEF Kept
    <3>7. Expected(ch, z) = Cron({h}, {n}, Star)
        BY <2>9, <2>10, <3>1, <3>3, <3>5 DEF Expected
    <3> QED
        BY <2>6, <2>11, <2>12, <2>13, <2>16, <3>2, <3>6, <3>7 DEF f
  <2>17. c.dates = Star \/ c.days = Star
    BY <1>2 DEF getScheduleInterval
  <2> QED
    BY <2>14, <2>15, <2>16, <2>17
<1> QED
    BY <1>1, <1>2

\* An expected expression is plain.
LEMMA ExpectedPlain ==
    ASSUME NEW ch \in ChoiceType, NEW z \in -12..14, Kept(ch, z)
    PROVE  PlainFor(Expected(ch, z), z) /\ Expected(ch, z) \in CronType
<1> DEFINE H == ch.hour
           k == (H - z) \div 24
           h == (H - z) % 24
           c == Expected(ch, z)
           w == (ch.day + k) % 7
<1>1. H \in 0..23 /\ H - z \in -100..100
    BY DEF ChoiceType
<1>2. /\ k \in -5..5 /\ h \in 0..23 /\ H - z = 24 * k + h
      /\ H - z \in 0..23 => k = 0 /\ h = H - z
  <2>1. k \in -5..5 /\ h \in 0..23 /\ H - z = 24 * k + h
    BY <1>1, DayShift, 0 \in Int
  <2>2. H - z \in 0..23 => k = 0 /\ h = H - z
    OBVIOUS
  <2> QED BY <2>1, <2>2
<1>3. c = Cron({h}, IF ch.frequency = "monthly" THEN {ch.day} ELSE Star,
                    IF ch.frequency = "weekly" THEN {w} ELSE Star)
    BY DEF Expected
<1> HIDE DEF H, k, h, c
<1>4. CASE ch.frequency = "weekly"
  <2>1. ch.day \in 1..6
    BY <1>4 DEF Kept, ChoiceType
  <2>2. w \in 0..6
    BY <1>2, <2>1
  <2>3. c = Cron({h}, Star, {w})
    BY <1>3, <1>4
  <2>4. (24 * w + h + z) \div 24 = w + (0 - k)
    <3>1. 24 * w + h + z = (w + (0 - k)) * 24 + H
        BY <1>1, <1>2, <2>2
    <3>2. H \div 24 = 0 /\ H \in -100..100 /\ w + (0 - k) \in Int /\ (w + (0 - k)) + 0 = w + (0 - k)
        BY <1>1, <1>2, <2>2
    <3> HIDE DEF w
    <3> QED BY <3>1, <3>2, DayShift
  <2>5. (w + (0 - k)) % 7 = ch.day
    <3>1. ch.day + k \in Int /\ 0 - k \in Int /\ (ch.day + k) + (0 - k) = ch.day
        BY <1>2, <2>1
    <3>2. ch.day % 7 = ch.day
        BY <2>1
    <3> QED BY <3>1, <3>2, WeekShift
  <2> HIDE DEF w
  <2>6. getDay((24 * w + h + z) \div 24) # 0
    BY <2>1, <2>4, <2>5 DEF getDay
  <2> QED
    BY <1>2, <2>2, <2>3, <2>6 DEF PlainFor, Cron, Star, CronType, c
<1>5. CASE ch.frequency = "monthly"
  <2>1. ch.day \in 1..28 /\ H - z \in 0..23
    BY <1>5 DEF Kept, ChoiceType, H
  <2>2. h + z \in 0..23
    BY <1>1, <1>2, <2>1
  <2>3. c = Cron({h}, {ch.day}, Star)
    BY <1>3, <1>5
  <2> QED
    BY <1>2, <2>1, <2>2, <2>3 DEF PlainFor, Cron, Star, CronType, c
<1>6. CASE ch.frequency \notin {"weekly", "monthly"}
  <2>1. c = Cron({h}, Star, Star)
    BY <1>3, <1>6
  <2> QED
    BY <1>2, <2>1 DEF PlainFor, Cron, Star, CronType, c
<1> QED
    BY <1>4, <1>5, <1>6
-----------------------------------------------------------------------------
(* When an expected expression runs.                                         *)

MeantBy(ch, d) ==
    /\ ch.frequency = "weekly" => getDay(d) = ch.day
    /\ ch.frequency = "monthly" => getDate(d) = ch.day

\* It runs on a day exactly when the local day, the same or a neighbour, is meant.
LEMMA RunsMeant ==
    ASSUME NEW ch \in ChoiceType, NEW z \in -12..14, Kept(ch, z),
           NEW x \in Nat, x + ((ch.hour - z) \div 24) \in Nat
    PROVE  RunsOn(Expected(ch, z), x + ((ch.hour - z) \div 24)) <=> MeantBy(ch, x)
<1> DEFINE H == ch.hour
           k == (H - z) \div 24
           c == Expected(ch, z)
           w == (ch.day + k) % 7
<1>1. H \in 0..23 /\ H - z \in -100..100
    BY DEF ChoiceType
<1>2. k \in -5..5 /\ (H - z \in 0..23 => k = 0)
  <2>1. k \in -5..5
    BY <1>1, DayShift, 0 \in Int
  <2>2. H - z \in 0..23 => k = 0
    OBVIOUS
  <2> QED BY <2>1, <2>2
<1>3. /\ c.dates = IF ch.frequency = "monthly" THEN {ch.day} ELSE Star
      /\ c.days = IF ch.frequency = "weekly" THEN {w} ELSE Star
    BY DEF Expected, Cron
<1> HIDE DEF H, k, c
<1>4. CASE ch.frequency = "weekly"
  <2>1. ch.day \in 1..6
    BY <1>4 DEF Kept, ChoiceType
  <2>2. getDay(x + k) = ((x % 7) + k) % 7
    BY <1>2, WeekShift DEF getDay
  <2>3. x % 7 \in 0..6
    OBVIOUS
  <2>4. \A a, b \in 0..6 : (a + k) % 7 = (b + k) % 7 => a = b
    <3>1. TAKE a \in 0..6, b \in 0..6
    <3>2. HAVE (a + k) % 7 = (b + k) % 7
    <3>3. (((a + k) % 7) + (0 - k)) % 7 = a
      <4>1. a + k \in Int /\ 0 - k \in Int /\ (a + k) + (0 - k) = a
        BY <1>2
      <4>2. a % 7 = a
        OBVIOUS
      <4> QED BY <4>1, <4>2, WeekShift
    <3>4. (((b + k) % 7) + (0 - k)) % 7 = b
      <4>1. b + k \in Int /\ 0 - k \in Int /\ (b + k) + (0 - k) = b
        BY <1>2
      <4>2. b % 7 = b
        OBVIOUS
      <4> QED BY <4>1, <4>2, WeekShift
    <3> QED BY <3>2, <3>3, <3>4
  <2>5. getDay(x + k) = w <=> x % 7 = ch.day
    <3>1. ch.day \in 0..6
        BY <2>1
    <3> QED BY <2>2, <2>3, <2>4, <3>1
  <2>6. c.dates = Star /\ c.days = {w} /\ c.days # Star
    BY <1>3, <1>4 DEF Star
  <2>7. RunsOn(c, x + k) <=> getDay(x + k) = w
    BY <2>6 DEF RunsOn
  <2>8. MeantBy(ch, x) <=> x % 7 = ch.day
    BY <1>4 DEF MeantBy, getDay
  <2> QED
    BY <2>5, <2>7, <2>8 DEF c, k, H
<1>5. CASE ch.frequency = "monthly"
  <2>1. k = 0 /\ x + k = x
    BY <1>2, <1>5 DEF Kept, H
  <2>2. c.dates = {ch.day} /\ c.dates # Star /\ c.days = Star
    BY <1>3, <1>5 DEF Star
  <2>3. RunsOn(c, x) <=> getDate(x) = ch.day
    BY <2>2 DEF RunsOn
  <2>4. MeantBy(ch, x) <=> getDate(x) = ch.day
    BY <1>5 DEF MeantBy
  <2> QED
    BY <2>1, <2>3, <2>4 DEF c, k, H
<1>6. CASE ch.frequency \notin {"weekly", "monthly"}
  <2>1. RunsOn(c, x + k)
    BY <1>3, <1>6 DEF RunsOn
  <2>2. MeantBy(ch, x)
    BY <1>6 DEF MeantBy
  <2> QED
    BY <2>1, <2>2 DEF c, k, H
<1> QED
    BY <1>4, <1>5, <1>6

\* The runs, one by one.
LEMMA RunsAre ==
    ASSUME NEW c, NEW d
    PROVE  \A t : t \in Runs(c, d) <=>
                    \E e \in d..(d + Horizon), h \in c.hours : RunsOn(c, e) /\ t = e * 24 + h
BY DEF Runs

\* So in the days looked at it runs at the chosen hour of the days meant.
LEMMA RunsExpected ==
    ASSUME NEW ch \in ChoiceType, NEW z \in -12..14, Kept(ch, z), NEW n \in Nat, n >= 31
    PROVE  \A t : (\E u \in Runs(Expected(ch, z), n - 1) : t = u + z)
                     /\ t \div 24 \in (n + 1)..(n + 64)
                  <=> \E d \in (n + 1)..(n + 64) : MeantBy(ch, d) /\ t = d * 24 + ch.hour
<1> DEFINE H == ch.hour
           k == (H - z) \div 24
           h == (H - z) % 24
           c == Expected(ch, z)
<1>1. H \in 0..23
    BY DEF ChoiceType
<1>2. k \in -1..1 /\ h \in 0..23 /\ H - z = 24 * k + h
  <2>1. H - z \in -100..100 /\ H - z >= -14 /\ H - z <= 35
    BY <1>1
  <2>2. k \in -5..5 /\ h \in 0..23 /\ H - z = 24 * k + h
    BY <2>1, DayShift, 0 \in Int
  <2> HIDE DEF H, k, h
  <2>3. k \in -1..1
    BY <2>1, <2>2
  <2> QED BY <2>2, <2>3
<1>3. c.hours = {h}
    BY DEF Expected, Cron
<1>4. \A x \in Nat : x + k \in Nat => (RunsOn(c, x + k) <=> MeantBy(ch, x))
    BY RunsMeant
<1> HIDE DEF H, k, h, c
<1> DEFINE days == (n + 1)..(n + 64)
           IsRun(t) == \E u \in Runs(c, n - 1) : t = u + z
<1>5. \A t : IsRun(t) <=> \E e \in (n - 1)..(n + 69) : RunsOn(c, e) /\ t = (e * 24 + h) + z
  <2> DEFINE D == (n - 1)..(n + 69)
  <2>1. (n - 1)..((n - 1) + Horizon) = D
    BY DEF Horizon
  <2> HIDE DEF D
  <2>3. \A t : t \in Runs(c, n - 1) <=> \E e \in D : RunsOn(c, e) /\ t = e * 24 + h
    <3>1. \A t : t \in Runs(c, n - 1) <=>
                    \E e \in (n - 1)..((n - 1) + Horizon), g \in c.hours : RunsOn(c, e) /\ t = e * 24 + g
        BY RunsAre
    <3> QED BY <1>3, <2>1, <3>1, Zenon
  <2> QED BY <2>3 DEF D
<1>6. ASSUME NEW e \in (n - 1)..(n + 69)
      PROVE  (e * 24 + h) + z = (e - k) * 24 + H /\ ((e - k) * 24 + H) \div 24 = e - k
  <2>1. (e * 24 + h) + z = (e - k) * 24 + H
    BY <1>1, <1>2
  <2>2. H \div 24 = 0 /\ H \in -100..100 /\ e - k \in Int /\ (e - k) + 0 = e - k
    BY <1>1, <1>2
  <2> QED BY <2>1, <2>2, DayShift
<1> HIDE DEF IsRun
<1>7. ASSUME NEW t, IsRun(t), t \div 24 \in days
      PROVE  \E d \in days : MeantBy(ch, d) /\ t = d * 24 + H
  <2>1. PICK e \in (n - 1)..(n + 69) : RunsOn(c, e) /\ t = (e * 24 + h) + z
    BY <1>5, <1>7
  <2> DEFINE d == e - k
  <2>2. t = d * 24 + H /\ t \div 24 = d
    BY <1>6, <2>1
  <2>3. d \in days /\ d \in Nat /\ d + k = e /\ e \in Nat
    BY <1>2, <1>7, <2>1, <2>2
  <2>4. MeantBy(ch, d)
    BY <1>4, <2>1, <2>3
  <2> QED BY <2>2, <2>3, <2>4
<1>8. ASSUME NEW d \in days, MeantBy(ch, d)
      PROVE  IsRun(d * 24 + H) /\ (d * 24 + H) \div 24 \in days
  <2> DEFINE e == d + k
  <2>1. d \in Nat /\ e \in Nat /\ e \in (n - 1)..(n + 69) /\ e - k = d
    BY <1>2
  <2>2. RunsOn(c, e)
    BY <1>4, <1>8, <2>1
  <2>3. (e * 24 + h) + z = d * 24 + H /\ (d * 24 + H) \div 24 = d
    BY <1>6, <2>1
  <2> HIDE DEF e
  <2> QED BY <1>5, <2>1, <2>2, <2>3
<1>9. \A t : IsRun(t) /\ t \div 24 \in days <=> \E d \in days : MeantBy(ch, d) /\ t = d * 24 + H
    BY <1>7, <1>8
<1> QED
    BY <1>9 DEF H, IsRun, c

-----------------------------------------------------------------------------
(* The invariant.                                                            *)

ScheduleTyped ==
    /\ zone \in -12..14 /\ zone \in Zones
    /\ now \in Nows /\ now \in Nat /\ now >= 24 * 31
    /\ form \in FormType /\ schedule \in CronType \cup {NoSchedule}
    /\ chosen \in ChoiceType /\ edited \in BOOLEAN

\* Without an edit the form is what was saved, or what was opened of it.
Mirror ==
    ~edited => \/ schedule = scheduleOf(form, now, zone)
               \/ form = getInitialFormState(schedule, now, zone)

\* However often it was opened and saved, what is stored says what was chosen.
AsChosen ==
    Kept(chosen, zone) /\ schedule # NoSchedule => schedule = Expected(chosen, zone)

ScheduleInv == ScheduleTyped /\ Mirror /\ AsChosen

\* Saving without an edit stores what was stored, if the form can say it.
LEMMA SaveAgain ==
    ASSUME ScheduleInv, ~edited, schedule # NoSchedule => PlainFor(schedule, zone)
    PROVE  scheduleOf(form, now, zone) = schedule
<1>1. CASE schedule = scheduleOf(form, now, zone)
    BY <1>1
<1>2. CASE form = getInitialFormState(schedule, now, zone) /\ schedule = NoSchedule
    BY <1>2 DEF getInitialFormState, Default, Form, scheduleOf
<1>3. CASE form = getInitialFormState(schedule, now, zone) /\ schedule # NoSchedule
    BY <1>3, RoundTrip DEF ScheduleInv, ScheduleTyped
<1> QED
    BY <1>1, <1>2, <1>3 DEF ScheduleInv, Mirror

\* What parseConfig makes of a form is an expression or none.
LEMMA ScheduleOfType ==
    ASSUME NEW f \in FormType, NEW t \in Nat, t >= 24 * 31, NEW z \in -12..14
    PROVE  scheduleOf(f, t, z) \in CronType \cup {NoSchedule}
<1>1. getUTCSchedule(f, t, z) \in CronType
    BY UTCSchedule
<1>2. f.custom \in CronType \cup {NoSchedule}
    BY DEF FormType
<1> QED
    BY <1>1, <1>2 DEF scheduleOf

\* The editor of a workflow without a schedule.
LEMMA ScheduleInvInit ==
    ASSUME ScheduleInit
    PROVE  ScheduleInv
<1>1. zone \in -12..14 /\ now \in Nat /\ now >= 24 * 31
    BY ScheduleAssumption DEF ScheduleInit
<1>2. form \in FormType
    BY <1>1, DefaultType DEF ScheduleInit
<1>3. chosen \in ChoiceType
    BY <1>2, ChoiceOf DEF ScheduleInit
<1>4. form = getInitialFormState(schedule, now, zone)
    BY DEF ScheduleInit, getInitialFormState
<1> QED
    BY <1>1, <1>2, <1>3, <1>4 DEF ScheduleInit, ScheduleInv, ScheduleTyped, Mirror, AsChosen

\* An input leaves alone what is stored.
LEMMA EditedInv ==
    ASSUME ScheduleInv, Edited, form' \in FormType
    PROVE  ScheduleInv'
BY DEF ScheduleInv, ScheduleTyped, Mirror, AsChosen, Edited

\* Every action keeps the invariant.
LEMMA ScheduleStep ==
    ASSUME ScheduleInv, [ScheduleNext]_scheduleVars
    PROVE  ScheduleInv'
<1> USE DEF ScheduleInv, ScheduleTyped
<1>1. ASSUME NEW y \in {"none", "cron"}, ChooseType(y) PROVE ScheduleInv'
  <2>1. form' \in FormType
    BY <1>1 DEF ChooseType, FormType
  <2> QED BY <1>1, <2>1, EditedInv DEF ChooseType
<1>2. ASSUME NEW q \in Frequencies, ChooseFrequency(q) PROVE ScheduleInv'
  <2>1. q \in {"daily", "weekly", "monthly", "custom"}
    BY ScheduleAssumption
  <2>2. form' \in FormType
    BY <1>2, <2>1 DEF ChooseFrequency, FormType
  <2> QED BY <1>2, <2>2, EditedInv DEF ChooseFrequency
<1>3. ASSUME NEW d \in DaysOfWeek, ChooseDayOfWeek(d) PROVE ScheduleInv'
  <2>1. d \in 0..6
    BY ScheduleAssumption
  <2>2. form' \in FormType
    BY <1>3, <2>1 DEF ChooseDayOfWeek, FormType
  <2> QED BY <1>3, <2>2, EditedInv DEF ChooseDayOfWeek
<1>4. ASSUME NEW d \in DaysOfMonth, ChooseDayOfMonth(d) PROVE ScheduleInv'
  <2>1. d \in 1..31
    BY ScheduleAssumption
  <2>2. form' \in FormType
    BY <1>4, <2>1 DEF ChooseDayOfMonth, FormType
  <2> QED BY <1>4, <2>2, EditedInv DEF ChooseDayOfMonth
<1>5. ASSUME NEW h \in Hours, ChooseTime(h) PROVE ScheduleInv'
  <2>1. h \in 0..23
    BY ScheduleAssumption
  <2>2. To12(h) \in [hour : 1..12, period : {"AM", "PM"}]
    BY <2>1 DEF To12
  <2>3. form' \in FormType
    BY <1>5, <2>2 DEF ChooseTime, FormType
  <2> QED BY <1>5, <2>3, EditedInv DEF ChooseTime
<1>6. ASSUME NEW c \in Customs, ChooseCustom(c) PROVE ScheduleInv'
  <2>1. c \in CronType
    BY ScheduleAssumption DEF CronType
  <2>2. form' \in FormType
    BY <1>6, <2>1 DEF ChooseCustom, FormType
  <2> QED BY <1>6, <2>2, EditedInv DEF ChooseCustom
<1>7. ASSUME Save PROVE ScheduleInv'
  <2>1. /\ schedule' = scheduleOf(form, now, zone) /\ UNCHANGED <<zone, now, form>>
        /\ chosen' = (IF edited THEN Choice(form) ELSE chosen) /\ edited' = FALSE
    BY <1>7 DEF Save
  <2>2. schedule' \in CronType \cup {NoSchedule}
    BY <2>1, ScheduleOfType
  <2>3. chosen' \in ChoiceType
    BY <2>1, ChoiceOf
  <2>4. schedule' = scheduleOf(form', now', zone')
    BY <2>1
  <2>5. ASSUME Kept(chosen', zone), schedule' # NoSchedule
        PROVE  schedule' = Expected(chosen', zone)
    <3>1. CASE edited
      <4>1. form.frequency # "custom" /\ form.type # "none"
        BY <2>1, <2>5, <3>1 DEF Kept, Choice, scheduleOf
      <4>2. schedule' = getUTCSchedule(form, now, zone)
        BY <2>1, <4>1 DEF scheduleOf
      <4> QED BY <2>1, <2>5, <3>1, <4>2, UTCSchedule
    <3>2. CASE ~edited /\ schedule = NoSchedule
      <4>1. scheduleOf(form, now, zone) = schedule
        BY <3>2, SaveAgain
      <4> QED BY <2>1, <2>5, <3>2, <4>1
    <3>3. CASE ~edited /\ schedule # NoSchedule
      <4>1. chosen' = chosen /\ schedule = Expected(chosen, zone)
        BY <2>1, <2>5, <3>3 DEF AsChosen
      <4>2. PlainFor(schedule, zone)
        BY <2>1, <2>5, <4>1, ExpectedPlain
      <4>3. scheduleOf(form, now, zone) = schedule
        BY <3>3, <4>2, SaveAgain
      <4> QED BY <2>1, <4>1, <4>3
    <3> QED BY <3>1, <3>2, <3>3
  <2> QED
    BY <2>1, <2>2, <2>3, <2>4, <2>5 DEF Mirror, AsChosen
<1>8. ASSUME Reopen PROVE ScheduleInv'
  <2>1. /\ now' \in Nows /\ form' = getInitialFormState(schedule, now', zone)
        /\ edited' = FALSE /\ UNCHANGED <<zone, schedule, chosen>>
    BY <1>8 DEF Reopen
  <2>2. now' \in Nat /\ now' >= 24 * 31
    <3>1. Nows \subseteq (24 * 31)..(24 * 365)
        BY ScheduleAssumption
    <3>2. now' \in (24 * 31)..(24 * 365)
        BY <2>1, <3>1
    <3> QED BY <3>2
  <2>3. form' \in FormType
    BY <2>1, <2>2, FormTyped
  <2> QED
    BY <2>1, <2>2, <2>3 DEF Mirror, AsChosen
<1>9. CASE UNCHANGED scheduleVars
    BY <1>9 DEF scheduleVars, Mirror, AsChosen
<1> QED
    BY <1>1, <1>2, <1>3, <1>4, <1>5, <1>6, <1>7, <1>8, <1>9 DEF ScheduleNext

\* ScheduleInv is an invariant of the schedule.
LEMMA ScheduleInvariant == ScheduleSpec => []ScheduleInv
BY ScheduleInvInit, ScheduleStep, PTL DEF ScheduleSpec

\* What ScheduleInv says of the runs.
LEMMA SoundFromInv ==
    ASSUME ScheduleInv
    PROVE  ScheduleSound
<1>1. ScheduleTypeOK
  <2>1. schedule # NoSchedule => schedule \in CronType
    BY DEF ScheduleInv, ScheduleTyped
  <2> QED
    BY <2>1 DEF ScheduleInv, ScheduleTyped, ScheduleTypeOK, FormType, CronType
<1>2. RunsAsChosen
  <2> DEFINE n == now \div 24
             days == (n + 1)..(n + 64)
             runs == {t + zone : t \in Runs(schedule, n - 1)}
  <2>1. SUFFICES ASSUME ~edited, schedule # NoSchedule, chosen.frequency # "custom",
                        chosen.frequency = "weekly" => chosen.day # 0,
                        chosen.frequency = "monthly" => chosen.day <= 28 /\ chosen.hour - zone \in 0..23
                 PROVE  {t \in runs : t \div 24 \in days}
                          = {d * 24 + chosen.hour : d \in {x \in days : Meant(x)}}
    BY DEF RunsAsChosen
  <2>2. Kept(chosen, zone)
    BY <2>1 DEF Kept
  <2>3. schedule = Expected(chosen, zone)
    BY <2>1, <2>2 DEF ScheduleInv, AsChosen
  <2>4. n \in Nat /\ n >= 31
    BY DEF ScheduleInv, ScheduleTyped
  <2>5. chosen \in ChoiceType /\ zone \in -12..14
    BY DEF ScheduleInv, ScheduleTyped
  <2> HIDE DEF n
  <2>5a. \A t : (\E u \in Runs(Expected(chosen, zone), n - 1) : t = u + zone)
                    /\ t \div 24 \in (n + 1)..(n + 64)
              <=> \E d \in (n + 1)..(n + 64) : MeantBy(chosen, d) /\ t = d * 24 + chosen.hour
    BY <2>2, <2>4, <2>5, RunsExpected
  <2>6. \A t : (\E u \in Runs(schedule, n - 1) : t = u + zone) /\ t \div 24 \in days
              <=> \E d \in days : MeantBy(chosen, d) /\ t = d * 24 + chosen.hour
    BY <2>3, <2>5a
  <2>7. \A x : Meant(x) <=> MeantBy(chosen, x)
    BY DEF Meant, MeantBy
  <2> QED BY <2>6, <2>7
<1> QED
    BY <1>1, <1>2 DEF ScheduleSound

\* The stored expression is a valid one, and the crawls run at the hours of local time
\* that were chosen and at no others, however often the editor is opened and saved and
\* in whatever season (getUTCSchedule, getInitialFormState).
THEOREM ScheduleSoundSafe == ScheduleSpec => []ScheduleSound
BY ScheduleInvariant, SoundFromInv, PTL

\* Saving the form as it was opened stores what was stored, if the form can say it.
THEOREM SaveKeepsSafe == ScheduleSpec => SaveKeeps
<1>1. ASSUME ScheduleInv
      PROVE  [Save /\ ~edited /\ (schedule # NoSchedule => Plain(schedule))
              => schedule' = schedule]_scheduleVars
  <2>1. SUFFICES ASSUME Save, ~edited, schedule # NoSchedule => Plain(schedule)
                 PROVE  schedule' = schedule
    OBVIOUS
  <2>2. schedule # NoSchedule => PlainFor(schedule, zone)
    BY <1>1, <2>1, PlainIs DEF ScheduleInv, ScheduleTyped
  <2>3. scheduleOf(form, now, zone) = schedule
    BY <1>1, <2>1, <2>2, SaveAgain
  <2> QED
    BY <2>1, <2>3 DEF Save
<1> QED
    BY <1>1, ScheduleInvariant, PTL DEF SaveKeeps
=============================================================================
