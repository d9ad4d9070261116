# Browsertrix in TLA+

A verification project for the control logic of Browsertrix: TLA+ modules that
model it, TLC runs that check them on small instances, and TLAPS proofs that
hold for every size. Backend paths are relative to `src/backend/btrixcloud/`,
those of the web application to `src/frontend/src/`, unless they start with
`src/`.

## 1. The system

Browsertrix runs web crawls in a Kubernetes cluster. A *workflow*
(`crawlconfigs.py`) starts *crawls*. A crawl has

- a **document** in MongoDB (state, finish time, list of files), which the API
  and the user interface show;
- a **CrawlJob** object in Kubernetes, whose `spec` the API patches (stopping,
  pausedAt, browserWindows) and whose `status` only the operator writes;
- a **redis** pod with a volume, shared by the operator and the crawlers;
- **crawler pods** with volumes; the crawler itself is another program.

The **crawl operator** (`operator/crawls.py`) is a metacontroller hook. It is
called with a snapshot of the job and its children, looks at redis, updates the
document, and answers with a new status and the list of children to keep.
Metacontroller stores the status and creates and removes children, and calls
again. No transaction spans two of the stores, an answer may be lost, the
process may restart, and coroutines the operator starts (`run_async_task`) run
while later requests are handled.

The **web application** is a single page of Lit elements. Its elements keep
copies of what the API answers, poll for changes, and let the user act
meanwhile. Nothing runs in parallel within a tab, but every `await` lets other
handlers run, answers arrive in any order, an element that was removed goes on
with the requests it has made, and other tabs share the session.

### Inventory: backend

| Component | State | Operations | What is hard | What makes it correct |
|---|---|---|---|---|
| Crawl operator (`operator/crawls.py`, `operator/models.py`, `operator/baseoperator.py`) | CrawlStatus; redis keys; document | sync_crawls, set_state, mark_finished, fail/cancel/rate_limit_crawl, sync_crawl_state, update_crawl_state, add_file_to_crawl, finalize_response, finish tasks, exec time, resource sizing, scale-down | stale status, lost answers, restarts, files taken from redis and pod results read at different times, pause/stop/cancel in any order | final states are final; finish tasks once; no job without a live crawl and no live crawl without a job; complete means all files listed; stop and cancel end |
| Crawl API (`crawls.py`, `basecrawls.py`) | document, job spec | pause/resume, stop/cancel, delete, QA runs, exclusions, scaling | two-step updates (job, then document) that race with the operator | the same, and the two agree in the end |
| Scheduled crawls (`operator/cronjobs.py`) | document, job | make_new_crawljob, sync_cronjob_crawl | document exists before the job | a canceled crawl does not come back |
| Workflows (`crawlconfigs.py`) | config, lastCrawl*, counts | add, update, run_now, stats | a request is merged into what is stored; check-then-act on the running crawl | what is stored is what was sent; one crawl at a time |
| Profiles (`profiles.py`, `operator/profiles.py`) | profile browsers | start, ping, commit | commit races expiry and retries | a save that is reported is stored |
| Deduplication index (`operator/collindexes.py`) | CollIndex status, redis | sync_index, import and purge jobs, idle expiry | index expires while crawls want it | a crawl that uses an index keeps it alive |
| Organisations (`orgs.py`) | bytes stored, execution seconds, quotas | inc_org_bytes_stored, inc_org_time_stats | read-modify-write in several updates | no second counted twice |
| Background jobs, collections, pages and logs, uploads, storage, webhooks, subscriptions, users, email, database | | | | |

### Inventory: web application

| Part | State | Operations | What is hard | What makes it correct |
|---|---|---|---|---|
| Session (`utils/AuthService.ts`, `index.ts`, `pages/log-in.ts`) | sessionStorage, appState.auth, timers; messages between tabs | log in and out, renew, ask other tabs, hide and show | messages cross, timers belong to services that are replaced, answers come for a session that is gone | memory is storage; tabs agree; tokens are renewed |
| Workflow page (`pages/org/workflow-detail.ts`) | four tasks, timers, dialogs | run, pause, resume, stop, cancel, scale, edit, poll | superseded runs, ticks that began before an operation | what is shown is current and becomes final |
| Uploads (`context/org-uploads/`, `features/org/org-uploads-dialog.ts`, `controllers/api.ts`) | requests, entries, alert, dialog | upload, progress, cancel, close | cancel races the answer; hiding takes time | what is shown is so; uploads end |
| Collection items (`features/collections/collection-items-dialog.ts`, `collection-workflow-list.ts`, `utils/nested-selection-difference.ts`) | selected, deselected, batches, two views | select in tree or list, save in two rounds | four structures and two views for one selection; half-failed saves | what is shown as selected is what is saved |
| Profile dialog (`features/browser-profiles/`) | browser, element, tasks | create, ping, save, close, rerender | removed elements go on; saves of many requests | one browser kept alive; done means stored; all ends |
| Crawl review (`pages/org/archived-item-qa/`, `features/qa/`) | page, notes, approval, content, frame, service worker | select, note, approve, load | five things become ready in any order | what is shown is what is selected, and it is loaded |
| Schedules (`utils/cron.ts`) | form, cron expression | choose, save, open again | time zones, lengths of months | crawls run when chosen; saving changes nothing |
| Workflow editor (`features/crawl-workflows/workflow-editor.ts`, `utils/workflow.ts`) | form, config | edit, change scope, save, open again | inputs that depend on each other; three shapes of one thing | what is opened is what was saved |
| Saving (`workflow-editor.ts`, `live-workflow-status.ts`, `pages/org/workflows-new.ts`) | submissions, flags, initial workflow, poll; the workflow's notes of its last crawl | submit by button or keys, poll, render, schedule | three requests in a row, flags read after awaits; renders that start the editor anew; crawls added and ended in several steps | one workflow, one crawl, as asked; inputs are kept; the editor knows whether a crawl runs |
| List pages (`pages/org/*-list.ts`, `archived-items.ts`, `crawls.ts`, `components/ui/pagination.ts`, `controllers/searchParamsValue.ts`) | URL, history, filters, pager, list | filter, sort, page, delete, history, reload, poll | three copies of the page, codecs, late answers | list, pager and URL agree with what was asked |
| The rest: routing, settings, dashboard, collection pages, admin, screencast, display | | | | |

`PROJECT.json` lists the components with what is modelled of each, and under
`hazards` the places where the code can go wrong in ways that tests hardly
reach, each with the properties that cover it or the reason why none does.

## 2. Modules

| Module | What it is | Run |
|---|---|---|
| `CrawlStates` | the state sets of `models.py` and the stop reasons of `operator/models.py` | |
| `CrawlLifecycle` | abstract specification: what a crawl looks like to those who see only its document, its webhooks and whether its job exists | |
| `CrawlJob` | the life of one crawl: operator, coroutines, API, cron operator, crawlers and cluster over the four stores; implements `CrawlLifecycle` | `crawl`, `crawl_pods` |
| `CrawlJobProofs` | proofs: job, document and finish tasks agree; `CrawlJob` implements `CrawlLifecycle`; no file of a crawl is left behind | |
| `SharedSession` | the session of the tabs of a browser | `session` |
| `SharedSessionProofs` | its proofs | |
| `WorkflowDetail` | the page of a workflow | `workflow` |
| `WorkflowProofs` | proofs about that page, and about `Schedule` | |
| `OrgUploads` | uploads that go on while the user does | `uploads` |
| `SelectionDelta` | what a nested selection adds and removes (pure) | |
| `CollectionItems` | the dialog that chooses a collection's items; uses `SelectionDelta` | `items` |
| `ArchivedItemsProofs` | proofs about that dialog, and about `OrgUploads` | |
| `ProfileBrowser` | the dialog, its element and the server's browsers | `profile` |
| `ProfileBrowserProofs` | its proofs | |
| `ItemReview` | the page on which a crawl is reviewed | `review` |
| `ItemReviewProofs` | its proofs | |
| `Schedule` | schedules to UTC and back | `schedule` |
| `WorkflowForm` | the editor's form, its request, the server's merge, and the way back | `form` |
| `WorkflowSave` | submitting the form, the crawls that are started, and what the editor learns of them | `save` |
| `WorkflowSaveProofs` | its proofs | |
| `ListPage` | the four list pages | `list` |
| `ListPageProofs` | its proofs | |

`MC<Module>` modules hold the instances.

**Setups.** Most modules have a constant `Setups` (or `Limits`, `Topics`): a
set of records of which a behaviour has one, chosen in Init and never changed.
A setup says which optional events happen together and how often. Combining
all of them is out of reach; one run with several setups checks each
combination for every property.

**What the code does not guard against.** Some sequences are known to go wrong
(section 5). They are part of the models: the action happens as in the code, and a
history variable (`lapses`, `did`, `hasty`, `missed`, `started`, `hist.lost`, `hist.late`)
records it.
A property that does not survive it says so (`Without({...}) => ...`) and holds in
all other behaviours. Nothing is removed from a model to make a property hold.

**Conjunctions.** A run checks a conjunction of named parts where they say one
thing: `SessionKept` is `TypeOK`, `AuthIsStored` and `KeptFresh`. The type
invariant of every module is the first of its parts.

### How CrawlJob corresponds to the code

State: `job`/`spec`/`status` are the CrawlJob object, `db` and `files` the
document (with the number of files uploaded and counted for the org), `redis`
the redis pod and the keys the operator uses, `pod` and `volume` the crawler
pods and the uncollected data on their volumes, `pvc` the volume claims, `sync`
the request in flight, `tasks` and `async` the operator's coroutines, `api` what the
API is at (starting a manual run, deleting), `hist` the setup, history variables for the properties
and counters for the bounds.

A sync request is split where it awaits something another actor can change, and
nowhere else:

| `sync.pc` | actions | code in `operator/crawls.py` |
|---|---|---|
| idle | SyncBegin | 179-233, the snapshot |
| start | SyncFinalize, SyncFinished, SyncSkip, SyncAtOrgLimit, SyncAwaitIndex, SyncAdmitted | 236-333 |
| state | SyncNoPods, SyncNoCrawler, SyncCrawler | 336-361, 1136-1208 |
| files, add | SyncPop, SyncAddFile, SyncDrained, SyncRedisError | 1210-1219, 1723-1748, 1261-1270 |
| update | SyncUpdate (with is_crawl_stopping, update_crawl_state) | 1750-2097 |
| paused | SyncPaused | 381-409 |
| answer | AnswerRun, AnswerEmpty, AnswerFinal | 411-505, 1078-1134 |

`set_state`, `mark_finished`, `update_crawl_state_if_allowed` and the other
operators named after functions take the status and the document a handler
works on and return both. The conditional update of the document and the read
that follows when it does not match are one step: between them only another
conditional update could happen, and it would leave a final state that is read
instead.

Creation: a manual run has its job before its document (`run_now_internal` creates
the job, then awaits `add_new_crawl`), a scheduled one its document before its job. In
setups with "run" the crawl begins with a job and no document (`api.run = "adding"`) and
`ApiAddCrawl` adds the document at any time, or never; in the others the document is
there, and with "cron" the job comes later (`CronCreateJob`). What the operator does in the window
is done without a document: `mark_finished` marks the job only, a waiting state is set in neither,
a file is counted for the org but listed nowhere. If the job has got on by then (`not_begun` is false: it is
finished or gone, has redis, files or a second pod, or a request has changed its status) the
document is *overtaken*, and so are the properties that relate it to the job: they name `overtaken` as their
exception, and section 5 says what the code does.

API: `ApiStop`, `ApiPause`, `ApiResume`, `ApiCancel`, and a deletion in two
parts (`ApiDeleteBegin`, `ApiDeleteEnd`) with the operator running in between.
Cron: `CronCreateJob` (the job appears after the document) and `CronFinished`.

External, modelled from how the operator uses them: the crawlers
(`Crawler...`), pods (`Pod...`), redis (`RedisStart`, `RedisRestart`), the
answer that is lost (`AnswerLost`) and the restart of the operator
(`OperatorRestart`), which drops the request and all coroutines.

Abstractions:

- Clocks are nondeterministic: whether a time limit, the time to live, the idle
  time of redis or the expiry of a pause has passed is a free choice at every
  comparison. The org's quotas and read-only flag and the size and time limits of the
  crawl are free choices too (`Conditions`), at most the first that holds counting
  in the order of `is_crawl_stopping`.
- A child that is not in an answer is removed at once. A real pod may stay for its
  grace period; the snapshot that the next request gets would then show it, as it
  shows a pod that is still wanted.
- Files are counted, not named; pages are counted up to `MaxPages`; the pending
  size of a pod is whether there is something on its volume.
- `lastCrawlPodExitCode` depends on the order in which pods are visited: any of the
  visible exits, or the earlier one when a pod has been restarted since, may win.
- Deletions in the object storage succeed, and `delete_failed_crawl_files` deletes them and clears the
  document's list in one step (two awaits, `basecrawls.py:532-547`): the coroutine that does it is the only one
  that writes the list then.
- The cancellation key that `cancel_crawl` writes to redis has no effect in the
  model, because the answer to the same request removes the pods.
- Left out of this component: execution time accounting, resource sizing, scale-down
  and force restart, pages and logs, QA jobs, the flags `stopping` and `shouldPause`
  of the document (only displayed), and a scheduled crawl whose document is deleted
  while its Kubernetes cron job is still active, for which the cron operator makes a new document.

### How the modules of the web application correspond to the code

In all of them a handler up to its first `await` is one step, together with the
updates of elements it requests and the promises that settle in the same turn;
what follows an `await` is another step. Lit's `Task`, `BroadcastChannel`,
XMLHttpRequest, the service worker and Shoelace elements are external and
modelled from how the code uses them: a task that runs again supersedes the run
before it, a task that throws has no value, `run()` never throws.

- **SharedSession.** `tab[t]` has a tab's storage, memory, timers and requests,
  `inbox[t]` the messages on their way to it. Handlers are operators from tab to
  tab (`persist`, `revoke`, `saveLogin`, `clearUser`, `checkFreshness`,
  `onVisibility`, ...); `Become` posts the messages that follow from the change of
  the storage. `missed` records that a tab was loading or
  asking while another had a session, or closed before it had read of a change.
- **WorkflowDetail.** `workflow`, `latest`, `crawls` and `poll` are the Lit tasks, each
  with the request in flight; `op` the task of every operation. A request is read
  by the server (`ReadWorkflow`, ...) and answered later. The server's crawl goes on by itself
  and scheduled crawls start. `started` is the crawl that the answer to a run names.
- **OrgUploads.** `xhr`, `item` (the server's), `uploadRequests`, `context`, and the alert
  (`open`, `hiding`) with its dialog (`cancelIds`).
- **CollectionItems.** `s` is the selection in its four structures, `saved` what it is compared with;
  `tree` and `list` are the two views, with the value bound last and the one
  shown, because Lit writes an attribute only when the bound value changes. A
  save is two rounds of requests (`net`) that fail before or after the server did its
  part. Lapses: the selection changed while loading (`early`), workflows loaded again (`reload`),
  a crawl checked again in an unchecked workflow (`recheck`), both views used (`views`), changes
  during a save (`retry`), and the dialog closed while a save waits for the dependency task (`close`): `reset`
  gives the task new arguments, its run for them ends the wait, and the save goes on with nothing to save.
- **ProfileBrowser.** The server's `browser`, `committing` and `committed`; the dialog's
  `idTask`, `savedId`, flags and `saveTask`; `el[b]` the element of every browser, also
  after its removal. `hasty` records that an element was removed with a request in flight.
- **ItemReview.** `notes` and `approved` on the server; `itemPageId`, `qaRunId` and `tab` from
  the URL; `data`, `registered`, `frame` and `worker` for the content. Requests are
  numbered and answered in any order; `delete_page_notes` reads and writes in two steps.
- **Schedule.** A calendar of years of 365 days, time in hours; `getUTCSchedule`,
  `getScheduleInterval`, `getNextDate` and the form of the editor. Sets of hours, dates and days stand for cron fields.
- **WorkflowForm.** `form`, the stored `config`, `shown` (what the form showed when it was
  saved). Actions are the inputs and `changeScopeType`; `Save` is `parseConfig`
  with the server's merge; `Reopen` is `getInitialFormState`.
- **WorkflowSave.** `subs[i]` are the calls of `onSubmit` with their program counters (validity,
  collection, upload, request, on the server check, note in the workflow and insert, reply). `page` is what
  `workflows-new.ts` makes the initial workflow from; whatever makes it render, the editor takes
  `initialWorkflow` from it only if it is not equal to its own (`hasChanged`), and then starts anew unless
  `updatingScopeType` is set. Opening the user guide is such a render and changes nothing; the org's answer may bring
  other defaults. `server` is the workflow with what it notes of its last crawl (`isCrawlRunning`,
  `lastCrawlState`), `crawls` those by request, by schedule, and ended ones its finish tasks have not counted. The
  poll reads both and tells the editor only of a change of `lastCrawlState` (`Changed`). A render is one step
  with its cause (Lit renders in a microtask), waiting states count as running, the reads of
  one answer or of one count are one step, and finish tasks run.
- **ListPage.** `tab` has filters, order, pager and the history of URLs; codecs are
  operators (`EncodeSort`, `DecodeSort`, ...), with the condition that is the wrong way round as
  the code has it. A filter is whether it is set; the four pages differ in `Kind`.

## 3. Properties and runs

| Run | Instance | Checks | What it shows |
|---|---|---|---|
| `crawl` | 1 pod, nine setups: manual runs; stop, cancel, delete, cron, failures and faults; the waiting states; a wait after the start; pauses by the user and automatic ones; exits and rate limits; a failing cluster | TypeOK, StatusFollowsDocument, GoneOnlyWhenOver, FinishedOnce, FailedHasNoFiles, NoFileLeftBehind, FinalStateIsFinal, ImplementsLifecycle | job, document, files and finish tasks never disagree; CrawlJob implements CrawlLifecycle |
| `crawl_pods` | 2 pods, six setups: a manual run; failing crawlers, pause, resume, stop, cancel, restart, lost answers; fairness | NoFileLeftBehind, StopEnds, OverIsRemoved, CancelEnds | the same for files when one pod is done long before the other; crawls that are told to end do, and nothing of them stays |
| `session` | 2 tabs of one user, or 1 tab of two users; 2 to 4 tokens; fairness | SessionKept, QuietTabsAgree, MixedOnlyByLateRefresh, DueIsRefreshed | a reload never changes the session; tabs that heard all messages agree; a user's session gets another's token only from a renewal answered late; visible tabs renew |
| `workflow` | 2 crawls untouched; 2 uses of pause; a run or an edit with failing requests; any operation once; fairness | ShownIsCurrent, LastCrawlNeverBack, OutcomeShown | an answer read before an operation does not stay; the page never goes back to an earlier crawl, except with the late answer to a run; an outcome is shown |
| `uploads` | 3 uploads, with and without failures; fairness | ShownIsTrue, UploadsEnd | cancel and answer in any order; uploads end if no request fails |
| `items` | 3 crawls on 2 pages, 1 upload; 3 changes and a save, or 2 saves with a failure, or a lapse | SavedIsShown, SelectionKept, ConfirmedRemoval | what is shown as selected is what is stored, counted and asked about |
| `profile` | 2 browsers, 2 retries, 1 update of the page, any failure; fairness | BrowsersAgree, AllEnd | a finished save is stored; browsers not shown and saves end |
| `review` | 2 pages, 2 runs, 2 notes; 1 to 3 acts; fairness | SelectedIsShown, ContentLoads | the page and content shown are those selected; content is loaded |
| `schedule` | zones -8 and 9, last day of February and a day of July, days 1 and 31, Sunday and Saturday, six written expressions | ScheduleSound, SaveKeeps | crawls run when chosen; saving without a change changes nothing |
| `form` | 2 URLs, 2 files, 2 profiles and proxies, all scopes; 3 edits between saves, 1 lapse | SeedsFitScope, FormKept, SaveKeeps | seeds fit the scope; the form is read back as it was saved |
| `save` | 2 submissions, 2 edits, 1 scheduled crawl, 1 lapse, one final state | OneOfEach, SavedAsAsked, EditsKept, StatusKnown | one workflow and one crawl, as asked, whichever request is slow; the buttons come back; no render takes inputs back but the org's late answer; a poll tells whether a crawl runs |
| `list` | 3 items, 1 per page; 4 or 5 acts on each of the four pages, fetches that fail on two of them; fairness | ListAsAsked, PagesAgree, ListCatchesUp | the list is the one asked for, and pager and URL agree with it |

Bounds. One pod is enough for the properties that relate the job, the document
and the coroutines: they do not mention pods, and the theorems below cover every
number. Properties about files are also checked with two pods, the smallest number
with which one can be done while another works. `MaxFiles` lets every pod
upload once; `MaxPages = 2` separates no page, the single page that makes a crawl
without files a failure, and more, and reaches the full scale. One fault, one pause:
each may come at any point of a behaviour, and a restarted request starts afresh;
what takes two of them (a crawler that starts late twice) is covered by the theorems,
which bound neither. In the web
application two of a kind (tabs, browsers, pages, runs, submissions) are the
smallest number with which one is stale while another is current; two pages of
crawls make some of a workflow's crawls unknown to the dialog. Zones and days of `schedule` are
those where a conversion can leave the day, the week or the month.

Fairness. In each module only what the program does by itself is fair; that a
user, a fault or a schedule does anything is never assumed.

- `CrawlJob`: metacontroller calls the hook again for as long as the job exists
  (`resync_after`, changes of children), and a handler ends: weak fairness of `SyncStep`.
  Coroutines run: weak fairness of `TaskStep`. The time to live of a finished job is over
  some day though every request may find it not yet over: strong fairness of
  `AnswerFinal(TRUE)`. Pods and redis are scheduled and crawlers that are at work come to their
  end (told to stop through redis, or out of pages): weak fairness of `CrawlerWork`, all of
  these steps together; each of them brings a pod closer to its end.
- Web application: timers fire, requests are answered (well or badly), messages are
  delivered and animations end. `ProfileBrowser` adds that a browser nobody pings
  expires; `OrgUploads` that the server stores what was uploaded. `CollectionItems`,
  `Schedule`, `WorkflowForm` and `WorkflowSave` assume no fairness: their properties are about states and steps.

`CHECK_DEADLOCK FALSE` is set throughout: a crawl's job is removed for good, and
a page rests when its bounded user has done everything.

Every property of every passing run has a mutant in `PROJECT.json`: a definition changed
the way a plausible mistake in the code would change it, for which TLC finds the
property violated. For the conjunctions it violates one of the parts.

## 4. Proofs

Eight modules hold theorems. Each extends the module it is about (`ArchivedItemsProofs` and `WorkflowProofs` two of them) and uses nothing but
the named assumptions about its constants;
setups, numbers of pods, tabs, browsers, uploads, crawls, pages, page sizes, listed items,
runs, submissions, time zones and the times of editing, and all bounds, are arbitrary.

| Module | Theorem | States | Assumptions |
|---|---|---|---|
| `CrawlJobProofs` | `TypeCorrect` | `Spec => []TypeOK` | `NumPodsAssumption`, `MaxPagesAssumption`, `BoundsAssumption` |
| | `StatusSafe` | `Spec => []StatusFollowsDocument` | |
| | `GoneSafe` | `Spec => []GoneOnlyWhenOver` | |
| | `TasksSafe` | `Spec => []FinishedOnce` | |
| | `FinalSafe` | `Spec => FinalStateIsFinal` | |
| | `Refinement` | `Spec => ImplementsLifecycle` | |
| | `FailedSafe` | `Spec => []FailedHasNoFiles` | |
| | `CompleteSafe` | `Spec => []CompleteHasAllFiles` (a part of the next) | |
| | `FilesSafe` | `Spec => []NoFileLeftBehind` | |
| `SharedSessionProofs` | `SessionSafe` | `Spec => []SessionKept` | `SessionAssumption` |
| | `TabsAgreeSafe` | `Spec => []QuietTabsAgree` | |
| | `MixedSafe` | `Spec => MixedOnlyByLateRefresh` | |
| `WorkflowProofs` | `CurrentSafe` | `Spec => []ShownIsCurrent` | `BoundsAssumption`, `AnswersAssumption` |
| | `NeverBackSafe` | `Spec => LastCrawlNeverBack` | |
| | `ScheduleSoundSafe` | `ScheduleSpec => []ScheduleSound` | `ScheduleAssumption` |
| | `SaveKeepsSafe` | `ScheduleSpec => SaveKeeps` | |
| `ArchivedItemsProofs` | `RemovalSafe` | `Spec => []ConfirmedRemoval` | `CollectionItemsAssumption` |
| | `ShownSafe` | `UploadsSpec => []ShownIsTrue` | none |
| | `SettledSafe` | `UploadsSpec => []SettledOnce` (of the proof module) | |
| `ProfileBrowserProofs` | `BrowsersAgreeSafe` | `Spec => []BrowsersAgree` | `ProfileBrowserAssumption` |
| `WorkflowSaveProofs` | `OneOfEachSafe` | `Spec => []OneOfEach` | `WorkflowSaveAssumption` |
| | `SavedAsAskedSafe` | `Spec => []SavedAsAsked` | |
| | `EditsKeptSafe` | `Spec => EditsKept` | |
| `ItemReviewProofs` | `SelectedSafe` | `Spec => []SelectedIsShown` | `ItemReviewAssumption`, `NothingAssumption` |
| `ListPageProofs` | `ListAsAskedSafe` | `Spec => []ListAsAsked` | `ListPageAssumption` |
| | `PagesAgreeSafe` | `Spec => []PagesAgree` | |

The assumptions say that bounds are numbers, that there is a pod, that pages are
counted at least up to the number of pods (a pod is added per page found, so fewer
would never reach the full scale), that the values for "none" and "sent" are no data, that
a list has finitely many items, pages of at least one of them and is one of the four lists, and
that a workflow has a first page of crawls, no crawl is on two pages, and none is an upload; that zones
are -12 to 14 hours from UTC, hours, dates and days those there are, and that a schedule is edited
between February and the end of the year that is modelled.

**CrawlJobProofs.** The inductive invariant `Inv` adds three facts to the properties. A
request whose answer is that of `finalize_response` has a finished status
(`FinalAnswer`); without it a job could be removed while the document is active.
A coroutine exists only when the document is over and carries the state the document
has (`TasksFollowDocument`); without it the second start of the finish
tasks, or an announcement of another state, cannot be excluded. And what
`StatusFollowsDocument` says is stated for each status and the document separately
(`StatusOK`, `DocumentOK`), because the lemmas about `set_state`,
`mark_finished` and `leave` (`SetState`, `MarkFinished`, `Leave`) are stated for
any status and any document. These lemmas carry the argument: whatever
status a handler works on, however stale, if it is not ahead of the document before
then it is not ahead after, and a document that is over is returned as it was.
Every action is then shown to keep `Inv`, not to change a document that is over
(`Settled`) and to be a step of `CrawlLifecycle` or to leave it alone (`Lawful`),
in one lemma per action or group of actions; `AddStep` is the one that adds a document
instead, and from then on an overtaken document stays overtaken (`OvertakenStays`). `RequestStep`, `QuietStep`, `DocumentStep`
and `ClusterStep` state what the actions of one kind have to show.

**CrawlJobProofs, files.** Three invariants on top of `Inv`, of crawls that are not overtaken
(`Timely`); the lemmas `Add...` show that a document added in time finds them true, which takes one
more fact (`SnapshotInv`: as long as nothing fails the snapshot of a request shows the pods there are,
with or without a document).

- `FailedInv`: the org is charged for what the document lists (`OrgCounted`); once the
  coroutine that ends the crawl has started no request works on the crawl
  (`NobodyAdds`), so nothing is added behind the cleanup; from the cleanup on the
  document lists no file (`Cleaned`).
- `CompleteInv`: the files uploaded are those listed, in redis, or being added
  (`AllCounted`). The operator takes files first and counts results afterwards, so a result
  may be newer than the files; but a pod counts as done only if the snapshot, which
  is older than both, has seen it exit, and what is in redis after the queue was drained
  is of a pod that the snapshot has not seen exit (`QueueBehind`). When all that
  have to report are done, the lemma `AllReport` (a count over a finite set that is as
  large as the set is the set) says that this holds for every pod, and the queue is empty.
  Then `CompleteRests` says that nobody works for the crawl.
- `PausedInv`: results of interrupted pods are not tied to the snapshot, and the
  request that finds the crawl paused may well leave files in redis. They are taken by
  the next one: pods are removed only by a request that found the crawl paused when it began
  (`PausedPlace`: either a pod still makes the operator look at redis, or all
  files have been taken), and meanwhile nobody uploads (`PausedQuiet`). That the next request looks at
  redis at all needs `WorkInv`: status and document say the same, redis is kept, pods are
  the first ones or have all reported, and what a snapshot shows still holds.

**SharedSessionProofs.** `SessionInv` has `Typed`, what each open tab keeps to itself (`TabsOK`: one
session in memory and storage, looked after), and `TabsSettle`: while nothing was
missed there is one session, the last that was stored or removed, on which the tabs settle: a tab has
it, is told of it last, or has the session of a tab that is told of it and will pass it on. The lemmas about messages
(what an inbox tells a tab, before and after one is posted or read) are about any sequence.
For `MixedSafe` every handler is shown to make no mixed session out of unmixed ones.

**WorkflowProofs, page.** `DetailInv`: an answer that was read is of no earlier crawl than the page is at and
of none the server does not have (`CrawlsKnown`); without it a slow fetch could bring an
earlier crawl back. Wishes change with an operation, whose answer fetches the workflow
again, so with none on its way back what was read has them (`WishesKnown`). The latest
crawl's task is that of the crawl the page is at (`LatestOf`).

**WorkflowProofs, schedule.** For the choices that `RunsAsChosen` is about (`Kept`) the lemma `UTCSchedule`
shows that `getUTCSchedule` stores the expression `Expected`, which depends on the choice and the
zone and not on the day of saving. `RunsExpected` shows when that one runs: its days, moved
by the zone, are those meant, and none is missed or added at a change of week or month. `RoundTrip` is
the way back: what `getInitialFormState` opens of a plain expression is saved as that expression,
whichever run is the next; `DateComes` (any date comes again within 62 days) is why there is one.
`ScheduleInv` then needs no more than that an unedited form is what was saved or opened (`Mirror`), and that
what is stored is what is expected of the last choice, also while the form has other edits (`AsChosen`): an editor
may be left. The calendar is a table of months, so its lemmas go through the twelve of them
(`InMonth`, `MonthOf`) and hold for any year. The attempt corrected the model: `SaveKeeps` failed for written
expressions that run on a local Sunday, which the run's instance did not have. It excepts them
now, and the instance has one. (Its `CASE` expressions had overlapping arms, which mean any of
them in TLA+ and the first to TLC; they no longer overlap.)

**ArchivedItemsProofs, dialog.** The lemma `Difference` says what `computeSelectionDelta` removes when there
is one workflow, without the folds of its counts. `RemovalInv` is about behaviours without the lapses that
`ConfirmedRemoval` excepts; a save that goes on after the dialog was closed asks for nothing (lemma `GoOnAlike`),
and is none of them. `LookedUp` is the core: whenever the dependency task has the answer "none", the
selection *as it is* removes no required crawl of the saved one, though the answer was read
for an earlier selection. It rests on four facts. The crawls in the saved selection are
known to be the workflow's (`Kept`), else one of them would be removed by itself
behind a removal of the workflow; crawls are loaded once (`OneLoad`); before they are, nothing is removed (`Untouched`); and
while the workflow is to be removed no request under way brings a crawl back that the task did not
see in the collection (`NotBack`). A save that is not confirmed is then harmless when it begins
(`SavesChecked`), and remains so, because the requests of a save ask for no more than it began with
(`RequestsOfSaves`). The attempt showed that the property said too much beyond the bounds of
the run: crawls loaded twice around a change, a selection changed while a save is under way, and a crawl a
failed save had brought in, each allow a removal that is not asked about. It therefore excepts "reload" and
"retry" beside "early", and is about crawls that are still in the collection when the save begins.

**ArchivedItemsProofs, uploads.** `UploadsInv` adds `SettledOnce`: an entry is marked only by the event that ends
its request. Without it an upload could be both stored and canceled.

**ProfileBrowserProofs.** `BrowsersInv`: a commit is done when it is stored (`DoneWhenStored`), the
element shown is that of the browser of the task (`OneShown`), a removed element is idle
unless it was removed in a hurry (`RemovedIsIdle`), and a save counts down (`SaveCounted`).
That one browser at most is kept alive follows from `OneShown` and `RemovedIsIdle`.

**WorkflowSaveProofs.** `SaveInv`: without a lapse one call of `onSubmit` is under way at a time
and the flags are its own (`OneCall`, `FlagIsCalls`), a workflow stored is stored by a call that goes on
or has left the page (`StoredByCall`), a crawl about to be started has a workflow without one
(`StartsFree`; `Adding` are the crawls between the note in the workflow and their insertion, by request or by
schedule), and form and file stay as they are from the validation to the request
(`FormStays`, `FileStays`). `EditsKept` rests on `InitialIsPages`: the initial workflow is the one the page makes, so that
a render whose inputs are equal restarts nothing. That the buttons come back is a lemma of its own (`DisabledStep`).
Each of these is about the lapses that the property it serves excepts, and no more.

**ItemReviewProofs.** `ReviewInv`: a reviewer who waits acts only when nothing is under way, so one request about a
page is under way at a time, for the page selected (`OneRequest`); unless its page is on its way, the selected page is shown as
the server has it, and while another one is shown nothing is fetched for it (`PageKnown`); content under way or
fetched, for whichever tab, is of the page shown and the run selected (`ContentKnown`). `PageSetStep` is the
argument: whichever answer brings a new value of the page, all of this holds afterwards.

**ListPageProofs.** The elements of a page change through a few functions, and the lemmas `...Facts` say for each,
once and for any elements, what it sets and what it leaves alone. An act is some of these
(`Prepared`) followed by the elements' update (`ActStep`). `ListInv` has three parts.
Every URL of the history says what was asked for at it (`Faithful`, `AskedInv`); it is about the other
entries too, because the user may go back to them. What changes the arguments tells the
page (`TellsAll`), so the task's last run has those in force (`Current`). And the three copies of the page number are
one (`Aligned`, `AlignedInv`), under the exceptions of `PagerShowsPage`. `BoundsInv` adds what `PageInBounds` needs:
every entry of the history names a page of the list that its filters give (`AllExist`), the list in force is the one listed for a
user who waits (`AtRest`, `Resting`), and so the pager's clamp never takes effect; of the acts allowed,
a filter goes to page one before the list shrinks, and a reload only drops filters, by which it grows.
Here, too, the attempt corrected the model: the exception of `PagerShowsPage` for workflows did
not cover a filter set past the first page after a fetch failed, which no run had. It is now
stated as what happens ("unpaged"), and the `list` run has failing fetches for workflows.

Only model-checked: all liveness properties, because liveness under fairness is out of
reach of the prover; `SavedIsShown` and `SelectionKept` of
`CollectionItems`, and the invariant and action properties of `WorkflowForm`. The first two
compare counts and whole selections that are built by folds, which need induction over data;
what the counts of `SelectionDelta` are is checked over the instances' inputs only.

Worth proving next: `SeedsFitScope` of `WorkflowForm`, as far as its lists are not built by
folds, and the structural part of `SavedIsShown` of `CollectionItems`.

## 5. Known deviations

Where the code does otherwise than a document, a comment or a test of the
repository says, or than a user would expect. The models have these behaviours
(but for the flags only displayed), and the properties name them as exceptions.

**Crawls**
- A manual run has its job before its document (`crawlconfigs.py:1402`, `:1413`). A job that the operator finishes
  in between (the org's quota is found used up by the first sync, `operator/crawls.py:286`) has only its own status set, though
  `mark_finished` is said to "mark crawl as finished, set finished timestamp and final state" (`:2138`): the job is deleted, and
  the document inserted after that stays at `starting` with no job, until a user cancels or deletes it. `CrawlJob` calls
  such a job `overtaken`. A job whose document could not be inserted crawls on all the same.
- Stopping a pausing crawl drops what was collected: the block for paused crawls
  (`operator/crawls.py:397`) tests `pausedAt`, which is set when the pause is requested.
  `src/frontend/docs/docs/user-guide/running-crawl.md:68` says that stopping saves
  anything that has been collected.
- `operator/crawls.py:2022` compares the stop reason with `"paused_org_readoly"`: a crawl
  paused because its org became read-only is shown as `paused`, without a reason.
- A file taken from redis is lost if the operator or redis fails before it is added (`operator/crawls.py:1210`).
- A file added while the crawl is being deleted stays in the org's count (`basecrawls.py:446`).
- A crawl that is starting and has to wait (org limit, `operator/crawls.py:300`; index, `:312`) after its pods
  have been created gets the answer without children (`_empty_response`), and files waiting in redis are lost with it.
- The number of results a crawl waits for is the larger of the pods seen and the scale so far (`:1898`). A crawler that
  starts after the crawl was found complete (the answer was lost, or a failed pod was evicted) has its data dropped.
- A crawl found paused by a request whose answer adds pods is shown as running again by the next one, without a
  resume: the new pods have not reported.

**Session**
- Two tabs that change the session at the same time exchange the two values for ever:
  the listener (`index.ts:850`) posts what it has taken over.
- A tab opened at `/log-in` with a session keeps showing the log-in page: `syncViewState` comes before `saveLogin` (`index.ts:156`).
- A renewal answered after another user logged in gives that user's session the first one's token (`utils/AuthService.ts:332`).
- The answer to one tab's request for a session is taken by every tab that asks (`utils/AuthService.ts:236`): a tab may
  take an earlier session from it, and keeps it if the answering tab closes before it has read of the change.
- A request that is refused (401) ends the session, but the page stays: its event has no detail (`api.ts:241`),
  and `onNeedLogin` (`index.ts:759`) throws when it reads it, before it goes to the log-in page.

**Workflow page**
- When the end of a crawl is first seen by another fetch than a tick's, the latest crawl stays as it was (`workflow-detail.ts:281`).
- `wasActive` is always false (`:263`, a workflow has no field `state`), so dialogs are not
  closed at the end of a crawl ("Reset dialog if previously running"), and `isCancelingRun` stays true (`:175`).
- One failed fetch ends the polling (`:247`).
- The answer to a run that comes when a later crawl is known takes the page back to the run's crawl, until the next fetch (`:2499`).

**Uploads**
- A failed upload, or one answered with a status from 201 to 400, counts as in progress for ever
  (`OrgUploadsContextController.ts:131`).
- An upload that starts while the alert is being hidden is removed with the others (`org-uploads-dialog.ts:167`).

**Collection items** (`collection-items-dialog.ts`)
- A crawl checked again in an unchecked workflow is removed with it (`:1158`).
- Changes made before the uploads have come are taken for saved (`:1330`).
- The dialog closed while a save waits for the dependency task: `reset` (`:1102`) makes the task run again for an empty
  selection, which ends the wait (`:1168`); the save finds no difference and reports success (`:1278`), with nothing
  stored (the lapse `close`).
- The list of the collection's crawls shows an unchecked crawl as checked (`:858`).
- An upload that others require is removed without being asked about (`:287`); so is a crawl, if crawls were
  loaded twice around a change of the selection, or the selection was changed while a save was under way.

**Profiles** (`profile-browser.ts`, `profile-browser-dialog.ts`)
- An element removed with a request in flight pings its browser for ever (`profile-browser.ts:227`).
- A failed save is announced as a success, because `Task.run()` does not throw (dialog `:371`).
- `originsLoaded` is not reset between sessions (dialog `:87`); a failed ping is not followed by another
  (`profile-browser.ts:208`); "Load New Browser" loads none (dialog `:335`); every update of
  the page makes a new browser (dialog `:77`).

**Review** (`archived-item-qa.ts`)
- A message of the replay that comes before the page or the frame is taken for done, and nothing is loaded (`:289`).
- Answers for an earlier page (`:1400`) or approval (`page-qa-approval.ts:252`) are applied to the page selected meanwhile.
- A note added while another is being deleted is lost (`pages.py:587`).
- After a change of page under the replay, revoked screenshots are shown (`:334`).

**Schedules** (`utils/cron.ts`)
- Weekly on Sunday is stored as the day on which it is saved (`:246`), also when a written expression for Sundays is
  only opened and saved; the 31st is another date
  in shorter months (`:245`); a date that is another one in UTC moves with the length of the month (`:250`).
- An expression with several hours or days is opened, and saved, as one of them (`:30`).

**Form** (`workflow-editor.ts`, `utils/workflow.ts`, `crawlconfigs.py`)
- A list of one URL is read back as a single page, without its options (`workflow.ts:434`).
- A change from a file to a list keeps the file (`crawlconfigs.py:757`); from a site with additional URLs to a single
  page keeps the URLs (`workflow-editor.ts:3036`); from a page with linked pages to a site keeps them (`:3920`).
- A URL carried over to regular expressions is not escaped (`:3102`); a depth of zero is read as none (`workflow.ts:424`);
  a cleared proxy is not cleared (`crawlconfigs.py:660`); a proxy beside a profile is dropped (`workflow-editor.ts:2186`).

**Saving** (`workflow-editor.ts`)
- Ctrl+S submits again while a save is under way (`:3503`) and changes whether it runs (`:3541`); a save whose answer is lost
  is done twice (`:3649`); a failed upload is saved as no file (`:3533`); a failed collection leaves
  the buttons disabled (`:3511`).
- Defaults of the org that differ and come after inputs were used start a new workflow's editor anew (`:492`).
- `updatingScopeType` stays set if the page's initial workflow does not change with the preferred scope, as when it is made from
  another workflow (`:3076`); the next change of it is then not applied.
- A failed poll ends the live status (`live-workflow-status.ts:79`). The editor is told of a change of the crawl's state
  only (`:36`): `isCrawlRunning` is noted before the state is (`crawlconfigs.py:1452`), so a poll between
  the steps in which a crawl is added or ended leaves it wrong (the lapse `state`), though the
  component's comment says "displayed live by polling".
- A scheduled crawl starts beside one that a user started: `operator/cronjobs.py:144` does not look for it, and the
  cron job's `concurrencyPolicy` knows only its own. The user guide says that it will not run
  (`workflow-setup.md:423`). Beside two crawls `get_running_crawl` finds none (`crawlconfigs.py:1015`), and a third may be started.
- A crawl refused after the workflow was updated (a quota) is reported as an error, though the update is stored
  (`crawlconfigs.py:1358`).

**Lists**
- The order cannot be turned round (`workflows-list.ts:162`, and the same test in three more pages); a cleared
  status stays in the URL (`crawls.ts:192`); a reload of archived items drops the filters (`archived-items.ts:428`);
  profiles take "mine" from the session before the URL (`browser-profiles-list.ts:183`).
- After Clear All the next tag is listed with the next poll only (`workflows-list.ts:308`).
- Profiles' filters leave pager and URL behind (`browser-profiles-list.ts:245`); a page past the
  end after a deletion is not left (`pagination.ts:239`); a step through the history may be heard by the pager
  before the list it belongs to has come. For workflows, a filter set past the first page while there is no pager (the
  list is loading, its fetch failed, its last items were deleted) takes the list to its first page but not
  the URL, and the pager that comes back shows the URL's page.

## 6. Not modelled, and why

- **Backend.** The deduplication index is a separate custom resource; `CrawlJob` sees it as a
  condition. Accounting of execution time, QA runs, background jobs and statistics are not
  modelled; nothing modelled waits for them. Deployment files and migrations run before the servers do. Object
  storage is streaming I/O with no control of its own. Users,
  invitations and subscriptions change single documents with one update each. Emails are output.
- **Web application.** Most of its lines render: templates, styles, stories, translations (generated),
  icons, type declarations and the texts that describe states. They keep no state
  and decide nothing a property could be about; the modelled parts are a small share of
  the lines, and of the files above only the lines with control are mapped. Not modelled though they have
  control of their own: routing (`index.ts`), the poll controller (`controllers/poll/poll.ts`), the screencast (`components/screencast.ts`),
  the pages of a collection, of the org's settings and members, of the administrator, and the QA run list. The
  poll controller and the screencast are timers and a socket with one owner; the pages submit
  single requests and fetch again.
- Within the modelled parts, what is left out is said in `PROJECT.json` for each component. Three things are:
  the label that marks a browser as committing is written in a task after the request is answered (`profiles.py:241`, `:301`),
  and the profile dialog asks for its browser's deletion when it is removed from the page (`profile-browser-dialog.ts:98`);
  and the list pages fetch more often than `ListPage` does, since each navigation stores a new object of filters.
- Liveness, `ENABLED` and recursion over data are checked with TLC only.
