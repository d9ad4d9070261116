----------------------------- MODULE WorkflowSave -----------------------------
(***************************************************************************)
(* Saving a workflow from its editor: onSubmit of workflow-editor.ts, which *)
(* creates a collection, uploads a file of URLs and sends the workflow, one *)
(* after the other; the poll that tells the editor whether a crawl is       *)
(* running (live-workflow-status.ts); the page of new workflows, which      *)
(* hands the editor its initial values (workflows-new.ts); and the server,  *)
(* which stores the workflow, starts crawls of it, on request or by a       *)
(* schedule, and notes in the workflow what its last crawl is doing.        *)
(***************************************************************************)
EXTENDS Naturals, FiniteSets

CONSTANTS MaxSubmits, MaxEdits,
          MaxCrawls,     \* crawls that a schedule starts
          MaxLapses,     \* lapses in one behaviour
          FinalStates    \* the states in which a crawl may end

ASSUME WorkflowSaveAssumption ==
    /\ MaxSubmits \in Nat /\ MaxEdits \in Nat /\ MaxCrawls \in Nat /\ MaxLapses \in Nat
    /\ FinalStates \cap {"unknown", "none", "running"} = {}

\* What the code does not guard against: inputs used while the workflow is being saved
\* ("again", "edit"), other defaults of the org that arrive after inputs were used
\* ("defaults"), a crawl scheduled while another runs or is being started ("schedule"),
\* requests that fail without a way back ("collection", "upload", "answer"), and a poll
\* that reads that a crawl runs beside the state of one that ended ("state").
\* Properties say which of them they need not to have happened.
Lapses == {"again", "edit", "defaults", "schedule", "collection", "upload", "answer", "state"}

Ids == 1..MaxSubmits
Started == {"valid", "coll", "upload", "sent", "check", "start", "insert", "reply"}
Scopes == {"page", "site"}

VARIABLES form,          \* version, scope, collection, file; is it stored, is a file used?
          mounted,       \* is the editor still shown?
          isSubmitting, saveAndRun, isCrawlRunning,
          page,          \* what the page of new workflows makes the initial workflow from:
                         \* the preferred scope, or the scope of a workflow given to it, and
                         \* the org's defaults; has the org come, is the user guide open?
          initialWorkflow, updatingScopeType,
          subs,          \* the calls of onSubmit
          status,        \* btrix-live-workflow-status
          server,        \* the workflow
          crawls,        \* its crawls: by request, by schedule, ended and not counted yet
          told,          \* the last notification
          lapses         \* those there were
initial == <<page, initialWorkflow, updatingScopeType>>
editor == <<form, mounted, isSubmitting, saveAndRun, isCrawlRunning, initial>>
vars == <<editor, subs, status, server, crawls, told, lapses>>

NoRequest == [edit |-> 0, file |-> "none", runNow |-> FALSE, updateRunning |-> FALSE]
Idle == [pc |-> "idle", run |-> FALSE, req |-> NoRequest, answer |-> "none"]
Editing == form.stored
WithFile == form.withFile
InitialForm(stored, withFile) ==
    [edit |-> 0, scope |-> "page", coll |-> "none",
     file |-> IF withFile /\ stored THEN "old" ELSE "none", stored |-> stored, withFile |-> withFile]
\* mergedWorkflow
Initial(p) == [scope |-> IF p.given THEN "given" ELSE p.scope, defaults |-> p.defaults]

Init ==
    /\ \E stored, withFile \in BOOLEAN : form = InitialForm(stored, withFile)
    /\ mounted = TRUE /\ isSubmitting = FALSE /\ saveAndRun = FALSE
    /\ isCrawlRunning = IF Editing THEN "unknown" ELSE "no"
    /\ \E given \in {FALSE, ~Editing} :
          page = [given |-> given, scope |-> "page", defaults |-> "old", org |-> FALSE, guide |-> FALSE]
    /\ initialWorkflow = Initial(page) /\ updatingScopeType = FALSE
    /\ subs = [i \in Ids |-> Idle]
    /\ status = [pc |-> IF Editing THEN "fetching" ELSE "off", value |-> "unknown"]
    /\ \E state \in {"none"} \cup IF Editing THEN FinalStates ELSE {} :
          /\ server = [workflows |-> IF Editing THEN 1 ELSE 0, edit |-> 0, file |-> form.file,
                       isCrawlRunning |-> FALSE, lastCrawlState |-> state]
          /\ crawls = [manual |-> 0, cron |-> "idle", scheduled |-> 0, ended |-> 0, last |-> state]
    /\ told = "nothing" /\ lapses = {}

Submitting == \E i \in Ids : subs[i].pc \in Started
Lapse(what) ==
    /\ Cardinality(lapses \cup {what}) <= MaxLapses
    /\ lapses' = lapses \cup {what}
LapseIf(condition, what) == IF condition THEN Lapse(what) ELSE UNCHANGED lapses
Without(set) == lapses \cap set = {}

-----------------------------------------------------------------------------
(* The form.                                                                 *)

\* The inputs stay enabled while the workflow is being saved.
CanEdit ==
    /\ mounted /\ form.edit < MaxEdits
    /\ LapseIf(Submitting, "edit")
Edit(new) ==
    /\ CanEdit
    /\ form' = [new EXCEPT !.edit = @ + 1]
    /\ UNCHANGED <<mounted, isSubmitting, saveAndRun, isCrawlRunning, initial,
                   subs, status, server, crawls, told>>

ChangeInput ==
    /\ Edit(form)
ChooseFile ==
    /\ WithFile /\ form.file = "none"
    /\ Edit([form EXCEPT !.file = "chosen"])
RemoveFile ==
    /\ WithFile /\ form.file # "none"
    /\ Edit([form EXCEPT !.file = "none"])
NameCollection ==
    /\ form.coll = "none"
    /\ Edit([form EXCEPT !.coll = "new"])
\* The page renders: the editor's initial workflow is another only if it is not equal to
\* the one it has (hasChanged), and then the editor starts anew, unless that was because
\* of its own change of scope. The form is to be new by then, the flag to be flag.
hasChanged_always(workflow) == TRUE
hasChanged(workflow) == workflow # initialWorkflow
willUpdate(p, new, flag) ==
    /\ page' = p /\ initialWorkflow' = Initial(p)
    /\ updatingScopeType' = (flag /\ ~hasChanged(Initial(p)))
    /\ form' = IF hasChanged(Initial(p)) /\ ~flag THEN InitialForm(Editing, WithFile) ELSE new
    /\ UNCHANGED <<mounted, isSubmitting, saveAndRun, isCrawlRunning,
                   subs, status, server, crawls, told>>

\* changeScopeType of a new workflow: the scope becomes a preference of the user, for which
\* the page renders. (That of a stored workflow is an input like others.)
changeScopeType ==
    \E value \in Scopes \ {form.scope} :
        /\ ~Editing /\ CanEdit
        /\ willUpdate([page EXCEPT !.scope = value],
                      [form EXCEPT !.scope = value, !.edit = @ + 1], TRUE)

\* The page renders, too, when the user guide is opened and when the org comes that was
\* asked for as the page was opened: it may have other defaults than the one there was.
OpenGuide ==
    /\ ~Editing /\ mounted
    /\ willUpdate([page EXCEPT !.guide = ~@], form, updatingScopeType)
    /\ UNCHANGED lapses
updateOrg ==
    /\ ~Editing /\ mounted /\ ~page.org
    /\ \E defaults \in {"old", "new"} :
        /\ LapseIf(defaults = "new" /\ form.edit > 0, "defaults")
        /\ willUpdate([page EXCEPT !.org = TRUE, !.defaults = defaults], form, updatingScopeType)

-----------------------------------------------------------------------------
(* onSubmit.                                                                 *)

Begin(run) ==
    \E i \in Ids :
        /\ subs[i].pc = "idle" /\ \A j \in 1..(i - 1) : subs[j].pc # "idle"
        /\ subs' = [subs EXCEPT ![i] = [Idle EXCEPT !.pc = "valid", !.run = run]]

\* A click on Save or on Run Crawl.
ClickSubmit(run) ==
    /\ mounted /\ ~isSubmitting
    /\ LapseIf(\E i \in Ids : subs[i].pc = "valid", "again")
    /\ run => isCrawlRunning # "unknown"
    /\ Begin(run) /\ saveAndRun' = run
    /\ UNCHANGED <<form, mounted, isSubmitting, isCrawlRunning, initial,
                   status, server, crawls, told>>
\* Ctrl+S and Ctrl+Enter: onKeyDown does not ask whether the editor is submitting.
onKeyDown(run) ==
    /\ mounted
    /\ LapseIf(Submitting \/ isSubmitting, "again")
    /\ Begin(run) /\ saveAndRun' = run
    /\ UNCHANGED <<form, mounted, isSubmitting, isCrawlRunning, initial,
                   status, server, crawls, told>>

\* parseConfig and the flags to run, as they are when all that comes before is done.
Request_early(file) ==
    [edit |-> form.edit, file |-> file, runNow |-> isCrawlRunning # "yes",
     updateRunning |-> Editing /\ saveAndRun /\ isCrawlRunning = "yes"]
Request(file) ==
    [edit |-> form.edit, file |-> file,
     runNow |-> saveAndRun /\ isCrawlRunning # "yes",
     updateRunning |-> Editing /\ saveAndRun /\ isCrawlRunning = "yes"]
SendOrUpload(s) ==
    IF form.file = "chosen" THEN [s EXCEPT !.pc = "upload"]
    ELSE [s EXCEPT !.pc = "sent", !.req = Request(form.file)]

\* checkFormValidity: a form without its file is not valid.
Validated(i) ==
    /\ subs[i].pc = "valid"
    /\ IF WithFile /\ form.file = "none"
       THEN subs' = [subs EXCEPT ![i].pc = "done"] /\ UNCHANGED isSubmitting
       ELSE /\ subs' = [subs EXCEPT ![i] = IF form.coll = "new" THEN [@ EXCEPT !.pc = "coll"]
                                           ELSE SendOrUpload(@)]
            /\ isSubmitting' = TRUE
    /\ UNCHANGED <<form, mounted, saveAndRun, isCrawlRunning, initial,
                   status, server, crawls, told, lapses>>

CollectionCreated(i) ==
    /\ subs[i].pc = "coll"
    /\ form' = [form EXCEPT !.coll = "made"]
    /\ subs' = [subs EXCEPT ![i] = SendOrUpload(@)]
    /\ UNCHANGED <<mounted, isSubmitting, saveAndRun, isCrawlRunning, initial,
                   status, server, crawls, told, lapses>>
\* Nothing catches the error of createCollection.
CollectionFails(i) ==
    /\ subs[i].pc = "coll" /\ Lapse("collection")
    /\ subs' = [subs EXCEPT ![i].pc = "dead"]
    /\ UNCHANGED <<editor, status, server, crawls, told>>

Uploaded(i) ==
    /\ subs[i].pc = "upload"
    /\ subs' = [subs EXCEPT ![i].pc = "sent", ![i].req = Request("new")]
    /\ UNCHANGED <<editor, status, server, crawls, told, lapses>>
\* uploadSeedFile tells of its error and returns nothing.
UploadFails(i) ==
    /\ subs[i].pc = "upload" /\ Lapse("upload")
    /\ subs' = [subs EXCEPT ![i].pc = "sent", ![i].req = Request("none")]
    /\ told' = "upload failed"
    /\ UNCHANGED <<editor, status, server, crawls>>

-----------------------------------------------------------------------------
(* The server.                                                               *)

\* add_crawl_config wants seeds or a file; update_crawl_config takes neither, too.
Refuses(req) == ~Editing /\ WithFile /\ req.file = "none"
Answered(i, a) == subs' = [subs EXCEPT ![i].pc = "reply", ![i].answer = a]
ServerSaves(i) ==
    LET req == subs[i].req IN
    /\ subs[i].pc = "sent"
    /\ IF Refuses(req) THEN Answered(i, "error") /\ UNCHANGED server
       ELSE /\ server' = [server EXCEPT !.workflows = IF Editing THEN @ ELSE @ + 1,
                                        !.edit = req.edit, !.file = req.file]
            /\ IF req.runNow THEN subs' = [subs EXCEPT ![i].pc = "check"] ELSE Answered(i, "saved")
    /\ UNCHANGED <<editor, status, crawls, told, lapses>>

Active == crawls.manual + (IF crawls.cron = "running" THEN 1 ELSE 0)
\* run_now_internal: look for a running crawl (get_running_crawl finds it if it is the only
\* one), then start one: set_config_current_crawl_info, then the crawl is inserted.
ServerChecks_none(i) ==
    /\ subs[i].pc = "check"
    /\ subs' = [subs EXCEPT ![i].pc = "start"]
    /\ UNCHANGED <<editor, status, server, crawls, told, lapses>>
ServerChecks(i) ==
    /\ subs[i].pc = "check"
    /\ IF Editing /\ Active = 1 THEN Answered(i, "running") /\ UNCHANGED lapses
       ELSE /\ LapseIf(crawls.cron = "insert", "schedule")
            /\ subs' = [subs EXCEPT ![i].pc = "start"]
    /\ UNCHANGED <<editor, status, server, crawls, told>>
ServerStarts(i) ==
    /\ subs[i].pc = "start"
    /\ subs' = [subs EXCEPT ![i].pc = "insert"]
    /\ server' = [server EXCEPT !.isCrawlRunning = TRUE]
    /\ UNCHANGED <<editor, status, crawls, told, lapses>>
ServerInserts(i) ==
    /\ subs[i].pc = "insert"
    /\ crawls' = [crawls EXCEPT !.manual = @ + 1]
    /\ Answered(i, "started")
    /\ UNCHANGED <<editor, status, server, told, lapses>>
\* A quota or a limit: an error, but for a workflow that was created.
RunRefused(i) ==
    /\ subs[i].pc \in {"check", "start"}
    /\ Answered(i, IF Editing THEN "error" ELSE "saved")
    /\ UNCHANGED <<editor, status, server, crawls, told, lapses>>
SaveFails(i) ==
    /\ \/ subs[i].pc = "sent" /\ UNCHANGED lapses
       \/ subs[i].pc = "reply" /\ subs[i].answer \in {"saved", "started"} /\ Lapse("answer")
    /\ Answered(i, "error")
    /\ UNCHANGED <<editor, status, server, crawls, told>>

\* The answer: a notification and, unless it is an error, the page of the workflow.
Reply(i) ==
    /\ subs[i].pc = "reply"
    /\ subs' = [subs EXCEPT ![i].pc = "done"]
    /\ isSubmitting' = FALSE
    /\ told' = subs[i].answer
    /\ mounted' = (mounted /\ subs[i].answer \notin {"saved", "started"})
    /\ UNCHANGED <<form, saveAndRun, isCrawlRunning, initial, status, server, crawls, lapses>>

onReset ==
    /\ mounted
    /\ mounted' = FALSE
    /\ UNCHANGED <<form, isSubmitting, saveAndRun, isCrawlRunning, initial,
                   subs, status, server, crawls, told, lapses>>

-----------------------------------------------------------------------------
(* Crawls of the workflow, and the poll of its status.                       *)

\* make_new_crawljob: a schedule asks for no other crawl than its own (the cron job's
\* concurrencyPolicy). Its crawl is added in the same two steps.
ScheduledCrawl ==
    /\ Editing /\ crawls.cron = "idle" /\ crawls.scheduled < MaxCrawls
    /\ LapseIf(Active > 0 \/ \E i \in Ids : subs[i].pc \in {"start", "insert"}, "schedule")
    /\ crawls' = [crawls EXCEPT !.cron = "insert", !.scheduled = @ + 1]
    /\ server' = [server EXCEPT !.isCrawlRunning = TRUE]
    /\ UNCHANGED <<editor, subs, status, told>>
ScheduleInserts ==
    /\ crawls.cron = "insert"
    /\ crawls' = [crawls EXCEPT !.cron = "running"]
    /\ UNCHANGED <<editor, subs, status, server, told, lapses>>

\* A crawl ends; the workflow is told by its finish tasks.
CrawlEnds ==
    /\ \E state \in FinalStates :
          \/ /\ crawls.manual > 0
             /\ crawls' = [crawls EXCEPT !.manual = @ - 1, !.ended = @ + 1, !.last = state]
          \/ /\ crawls.cron = "running"
             /\ crawls' = [crawls EXCEPT !.cron = "idle", !.ended = @ + 1, !.last = state]
    /\ UNCHANGED <<editor, subs, status, server, told, lapses>>
stats_recompute_last ==
    /\ crawls.ended > 0
    /\ crawls' = [crawls EXCEPT !.ended = @ - 1]
    /\ server' = IF Active = 1 THEN server
                 ELSE [server EXCEPT !.isCrawlRunning = FALSE, !.lastCrawlState = crawls.last]
    /\ UNCHANGED <<editor, subs, status, told, lapses>>

YesNo(b) == IF b THEN "yes" ELSE "no"
\* get_crawl_config_out: what the workflow notes, over which the only running crawl is put.
Answer ==
    IF Active = 1 THEN [isCrawlRunning |-> "yes", lastCrawlState |-> "running"]
    ELSE [isCrawlRunning |-> YesNo(server.isCrawlRunning), lastCrawlState |-> server.lastCrawlState]
\* A crawl that is being added, one that has ended and is not counted yet, or two.
Between == Active > 1 \/ (Active = 0 /\ server.isCrawlRunning)

\* The editor is told (btrix-crawl-status-changed) at first and when the crawl's state is
\* another than at the poll before; not when only isCrawlRunning is.
Changed_again == status.value # "unknown" /\ status.value # Answer.lastCrawlState
Changed == status.value = "unknown" \/ status.value # Answer.lastCrawlState
workflowTask ==
    /\ status.pc = "fetching" /\ mounted
    /\ status' = [pc |-> "waiting", value |-> Answer.lastCrawlState]
    /\ isCrawlRunning' = IF Changed THEN Answer.isCrawlRunning ELSE isCrawlRunning
    /\ lapses' = lapses \cup (IF Between THEN {"state"} ELSE {})
    /\ UNCHANGED <<form, mounted, isSubmitting, saveAndRun, initial,
                   subs, server, crawls, told>>
\* An error leaves the task without a value, and pollTask sets no timer.
workflowTaskFails ==
    /\ status.pc = "fetching" /\ mounted
    /\ status' = [pc |-> "off", value |-> "unknown"]
    /\ UNCHANGED <<editor, subs, server, crawls, told, lapses>>
pollTask ==
    /\ status.pc = "waiting" /\ mounted
    /\ status' = [status EXCEPT !.pc = "fetching"]
    /\ UNCHANGED <<editor, subs, server, crawls, told, lapses>>

Call(i) ==
    \/ Validated(i) \/ CollectionCreated(i) \/ CollectionFails(i) \/ Uploaded(i) \/ UploadFails(i)
    \/ ServerSaves(i) \/ ServerChecks(i) \/ ServerStarts(i) \/ ServerInserts(i) \/ Reply(i)
Next ==
    \/ ChangeInput \/ ChooseFile \/ RemoveFile \/ NameCollection
    \/ changeScopeType \/ OpenGuide \/ updateOrg
    \/ \E run \in BOOLEAN : ClickSubmit(run) \/ onKeyDown(run)
    \/ \E i \in Ids : Call(i) \/ SaveFails(i) \/ RunRefused(i)
    \/ onReset \/ ScheduledCrawl \/ ScheduleInserts \/ CrawlEnds \/ stats_recompute_last
    \/ workflowTask \/ workflowTaskFails \/ pollTask
Spec == Init /\ [][Next]_vars

-----------------------------------------------------------------------------
\* The values of the editor and of its calls; a call uploads a file that is chosen.
TypeOK ==
    /\ lapses \subseteq Lapses /\ form.edit \in 0..MaxEdits /\ form.coll \in {"none", "new", "made"}
    /\ form.file \in {"none", "old", "chosen"} /\ server.file \in {"none", "old", "new"}
    /\ isCrawlRunning \in {"unknown", "yes", "no"} /\ (~Editing => isCrawlRunning = "no")
    /\ \A i \in Ids : Without({"edit", "defaults"}) /\ subs[i].pc = "upload" => form.file = "chosen"
    /\ status.pc \in {"off", "fetching", "waiting"}
    /\ status.value \in {"unknown", "none", "running"} \cup FinalStates

\* An editor of a new workflow (onSubmit) creates one, however its requests and edits
\* interleave, unless it is submitted again meanwhile or the answer is lost.
OneWorkflow == Without({"again", "answer"}) => server.workflows <= 1

\* A workflow has one crawl at a time (run_now_internal), unless it is submitted again
\* meanwhile or a schedule starts one beside it.
OneCrawl == Without({"again", "schedule"}) => Active <= server.workflows

\* What onSubmit sends runs a crawl, or updates it, if and only if that submission was
\* asked to, unless another submission has set saveAndRun meanwhile.
RunAsAsked ==
    \A i \in Ids : Without({"again"}) /\ subs[i].pc \in {"sent", "check", "start", "insert", "reply"} =>
        (subs[i].req.runNow \/ subs[i].req.updateRunning) = subs[i].run

\* Where the editor is left because the workflow is saved, what it showed is saved,
\* unless it was submitted or edited while it was being saved.
EditsSaved ==
    Without({"again", "edit", "defaults"}) /\ ~mounted /\ told \in {"saved", "started"} =>
        server.edit = form.edit

\* A workflow of a file of URLs never loses its file to a save, unless
\* its upload failed, or it was edited while it was being saved.
NeverEmpty == Without({"upload", "edit"}) /\ WithFile /\ server.workflows > 0 => server.file # "none"

\* "Fixes values being reset on navigation events, such as when the user guide is open":
\* whatever makes the page of new workflows render (willUpdate), what was entered is there,
\* unless the org comes with other defaults after that.
EditsKept == [][form'.edit < form.edit => "defaults" \in lapses']_vars

\* The buttons are disabled (isSubmitting) only while a call of onSubmit waits for one of its
\* requests, whichever of them fails, unless the collection could not be created.
DisabledBySubmit ==
    isSubmitting /\ Without({"collection"}) => \E i \in Ids : subs[i].pc \in Started \ {"valid"}

\* Whenever a poll was answered the editor knows whether a crawl is running
\* (btrix-crawl-status-changed), though it is told only of changes of the crawl's state:
\* unless a poll was answered between the steps in which a crawl is added or ended, or
\* while two crawls were running.
StatusKnown ==
    [][status.pc = "fetching" /\ status'.pc = "waiting" /\ mounted /\ lapses' \cap {"state"} = {} =>
        isCrawlRunning' = YesNo(Active > 0)]_vars

\* One editor makes one workflow, which has one crawl, and can be used again after that
\* (onSubmit, run_now_internal).
OneOfEach == TypeOK /\ OneWorkflow /\ OneCrawl /\ DisabledBySubmit

\* What is stored and started is what the user saved and asked for (onSubmit).
SavedAsAsked == RunAsAsked /\ EditsSaved /\ NeverEmpty
=============================================================================
