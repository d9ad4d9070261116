------------------------------ MODULE CrawlJob ------------------------------
(***************************************************************************)
(* The life of one crawl, from its creation to the removal of its CrawlJob.*)
(*                                                                         *)
(* Four stores hold the crawl's state and no transaction spans two of them:*)
(*   - the CrawlJob object in Kubernetes: spec (written by the API) and    *)
(*     status (written only by the answer to a sync request);              *)
(*   - the crawl document in the database (db, and the files it lists);    *)
(*   - the crawl's redis, shared by the operator and the crawler pods;     *)
(*   - the pods and their volumes.                                         *)
(* The actors are the operator (operator/crawls.py), called by             *)
(* metacontroller with a snapshot of the job and its children and answering*)
(* with a new status and the children to keep; the tasks it leaves running *)
(* in the background; the API (crawls.py, basecrawls.py); and, external to *)
(* the repository, the crawler pods and the cluster.                       *)
(*                                                                         *)
(* One sync request is split at the awaits where other actors matter: the  *)
(* snapshot, the admission checks, each file taken from redis, the         *)
(* evaluation of the pods' results, the checks on a paused crawl, and the  *)
(* answer.  Clocks are nondeterministic choices: a time limit may or may   *)
(* not have been reached whenever the code compares one.                   *)
(***************************************************************************)
EXTENDS CrawlStates, Integers, FiniteSets

CONSTANTS
  NumPods,     \* crawler pods when the crawl is at full scale
  Setups,      \* optional events, and a bound on the files the crawler pods upload,
               \* that go together: a behaviour has one of these
  MaxPages,    \* pages found are counted up to here
  MaxPauses,   \* pause requests by the user
  MaxFaults    \* operator restarts and lost answers

ASSUME NumPodsAssumption == NumPods \in Nat \ {0}
ASSUME MaxPagesAssumption == MaxPages \in Nat /\ MaxPages >= NumPods
ASSUME BoundsAssumption ==
  MaxPauses \in Nat /\ MaxFaults \in Nat /\ \A s \in Setups : s.maxFiles \in Nat

Pods == 0 .. NumPods - 1

VARIABLES
  job,      \* the CrawlJob: "none", "live", "deleting" (finalizing) or "gone"
  spec,     \* its spec, as far as the API changes it
  status,   \* its persisted status
  db,       \* the crawl document; state None when there is none
  files,    \* files listed in the document, counted for the org, ever uploaded
  redis,    \* redis pod and the keys the operator reads and writes
  pod,      \* crawler pods
  volume,   \* pods whose volume holds collected data that is not uploaded
  pvc,      \* do the volume claims exist
  sync,     \* the sync request in flight
  tasks,    \* do_crawl_finished_tasks coroutines that are running
  async,    \* other coroutines started with run_async_task
  api,      \* requests to the API in flight: run_now_internal and delete_crawls
  hist      \* history: tasks started, notifications sent, faults, pauses; and,
            \* never changed, the setup of this behaviour

vars == <<job, spec, status, db, files, redis, pod, volume, pvc, sync, tasks,
          async, api, hist>>

Events == hist.setup.events
MaxFiles == hist.setup.maxFiles
-----------------------------------------------------------------------------
(***************************************************************************)
(* State.                                                                  *)
(***************************************************************************)
\* what the exit code of a crawler container means to the operator
FailedExits == {"fatal", "limited", "crashed"}

\* CrawlStatus: pagesFound is counted up to MaxPages; sizePending is the set of
\* pods whose last reported pending size was above the size of an empty folder
CrawlStatus ==
  [state : ALL_CRAWL_STATES, finished : BOOLEAN, stopping : BOOLEAN,
   stopReason : StopReason \cup {None}, initRedis : BOOLEAN,
   rateLimited : BOOLEAN, lastExit : FailedExits \cup {"ok"},
   pagesFound : 0..MaxPages, sizePending : SUBSET Pods]

InitialStatus ==
  [state |-> "starting", finished |-> FALSE, stopping |-> FALSE,
   stopReason |-> None, initRedis |-> FALSE, rateLimited |-> FALSE,
   lastExit |-> "ok", pagesFound |-> 0, sizePending |-> {}]

CrawlSpec == [stopping : BOOLEAN, paused : BOOLEAN]

\* the crawl document, as far as the life of the crawl goes
Document == [state : ALL_CRAWL_STATES \cup {None}, finished : BOOLEAN]

\* files listed in the document, counted for the org, and uploaded so far
Files == [db : Nat, org : Int, uploaded : Nat]

\* a crawler pod: absent, waiting to be scheduled, running, just exited with one
\* of FailedExits, waiting to be restarted, or exited successfully
PodPhase == {None, "pending", "running", "backoff", "succeeded"} \cup FailedExits

\* the values of the hash <crawl id>:status in redis
Busy == {"pending-wait", "generate-wacz", "uploading-wacz"}
CrawlerStatus == {None, "running", "done", "failed", "interrupted"} \cup Busy

RedisPhase == {None, "pending", "up"}

\* done_key is a queue of uploaded files, of which only the length matters; done
\* says whether a page has been finished
Redis ==
  [pod : RedisPhase, status : [Pods -> CrawlerStatus], paused : BOOLEAN,
   stopping : BOOLEAN, rateLimited : BOOLEAN, queue : Nat, filesAdded : Nat,
   found : 0..MaxPages, done : BOOLEAN]

EmptyRedis ==
  [pod |-> None, status |-> [p \in Pods |-> None], paused |-> FALSE,
   stopping |-> FALSE, rateLimited |-> FALSE, queue |-> 0, filesAdded |-> 0,
   found |-> 0, done |-> FALSE]

\* a sync request: where it is, the snapshot it came with, the status it works on,
\* and the kind of its answer
Request ==
  [pc : {"idle", "start", "state", "files", "add", "update", "paused", "answer"},
   finalizing : BOOLEAN, spec : CrawlSpec, pod : [Pods -> PodPhase],
   redis : RedisPhase, pvc : BOOLEAN, st : CrawlStatus, isPaused : BOOLEAN,
   answer : {"run", "empty", "final"}]

IdleSync ==
  [pc |-> "idle", finalizing |-> FALSE,
   spec |-> [stopping |-> FALSE, paused |-> FALSE],
   pod |-> [p \in Pods |-> None], redis |-> None, pvc |-> FALSE,
   st |-> InitialStatus, isPaused |-> FALSE, answer |-> "run"]

\* a do_crawl_finished_tasks coroutine
Task == [n : Nat, pc : {"cleanup", "notify", "delete"}, state : NON_RUNNING_STATES]

\* History: coroutines started, final states announced, was a file lost, did a crawler
\* start after the crawl was complete, was the crawl ever resumed, how much of the
\* bounds has been used, and the setup
History ==
  [started : Nat, notified : SUBSET NON_RUNNING_STATES, lost : BOOLEAN,
   late : BOOLEAN, resumed : BOOLEAN, faults : Nat, pauses : Nat, setup : Setups]

\* run_now_internal creates the CrawlJob and adds the document after that: it has yet
\* to add it, or has added it.  A document whose job had not waited for it is told from
\* the others (history).  pc and size are those of delete_crawls.
Api ==
  [run : {"adding", "added", "overtaken"}, pc : {"idle", "delete"}, size : Nat]

Init ==
  /\ spec = [stopping |-> FALSE, paused |-> FALSE]
  /\ status = InitialStatus
  /\ files = [db |-> 0, org |-> 0, uploaded |-> 0]
  /\ redis = EmptyRedis
  /\ pod = [p \in Pods |-> None]
  /\ volume = {}
  /\ pvc = FALSE
  /\ sync = IdleSync
  /\ tasks = {}
  /\ async = {}
  /\ \E setup \in Setups :
       /\ hist = [started |-> 0, notified |-> {}, lost |-> FALSE, late |-> FALSE,
                  resumed |-> FALSE, faults |-> 0, pauses |-> 0, setup |-> setup]
       /\ \/ /\ "run" \in setup.events
             /\ job = "live"
             /\ db = [state |-> None, finished |-> FALSE]
             /\ api = [run |-> "adding", pc |-> "idle", size |-> 0]
          \/ /\ job \in IF "cron" \in setup.events THEN {"none", "live"} ELSE {"live"}
             /\ db = [state |-> "starting", finished |-> FALSE]
             /\ api = [run |-> "added", pc |-> "idle", size |-> 0]
-----------------------------------------------------------------------------
(***************************************************************************)
(* State changes of a crawl.  The operators below take the status st and   *)
(* the document d a handler works on and return both after the change.     *)
(***************************************************************************)

\* the filter of update_crawl_state_if_allowed
matches_any(d, allowed_from) == d.state # None
matches(d, allowed_from) == d.state \in allowed_from

\* update_crawl_state_if_allowed: one conditional update of the document
update_crawl_state_if_allowed(d, state, allowed_from, finished) ==
  IF matches(d, allowed_from)
    THEN [state |-> state, finished |-> d.finished \/ finished]
    ELSE d

\* get_crawl_state, when set_state did not change the state: the status takes
\* over what the document says, if there is one
adopt_state_only(st, d) ==
  [st EXCEPT !.state = IF d.state = None THEN @ ELSE d.state]
adopt(st, d) ==
  [st EXCEPT !.state = IF d.state = None THEN @ ELSE d.state,
             !.finished = @ \/ d.finished]

\* set_state: update the document if status and document both allow it.
\* ok is the value returned.
set_state(st, d, state, allowed_from, finished) ==
  LET d2 == update_crawl_state_if_allowed(d, state, allowed_from, finished)
  IN  IF st.state \notin allowed_from
        THEN [st |-> st, db |-> d, ok |-> FALSE]
      ELSE IF matches(d, allowed_from) /\ st.state # state
        THEN [st |-> [st EXCEPT !.state = state], db |-> d2, ok |-> TRUE]
      ELSE [st |-> adopt(st, d2), db |-> d2, ok |-> d2.state = None /\ state = "canceled"]

\* the states a crawl may be finished from
finishable_running == RUNNING_STATES
finishable == RUNNING_AND_WAITING_STATES

\* mark_finished: whatever set_state says, the job's status is finished now
mark_finished(st, d, state) ==
  LET r == set_state(st, d, state, finishable, TRUE)
  IN  [r EXCEPT !.st.finished = TRUE]

\* run_async_task(do_crawl_finished_tasks(...)) when mark_finished says so
NewTask(state) == [n |-> hist.started + 1, pc |-> "cleanup", state |-> state]
StartTasks_unasked(ok, state) ==
  IF state \in NON_RUNNING_STATES
    THEN tasks' = tasks \cup {NewTask(state)} /\ hist' = [hist EXCEPT !.started = @ + 1]
    ELSE UNCHANGED <<tasks, hist>>
StartTasks(ok, state) ==
  IF ok
    THEN tasks' = tasks \cup {NewTask(state)} /\ hist' = [hist EXCEPT !.started = @ + 1]
    ELSE UNCHANGED <<tasks, hist>>
-----------------------------------------------------------------------------
(***************************************************************************)
(* The sync request.                                                       *)
(***************************************************************************)
cluster == <<redis, pod, volume, pvc>>

Goto(pc, st) == sync' = [sync EXCEPT !.pc = pc, !.st = st]
Answer(kind, st) == sync' = [sync EXCEPT !.pc = "answer", !.st = st, !.answer = kind]

\* metacontroller sends the job and its children as they are now
SyncBegin ==
  /\ sync.pc = "idle"
  /\ job \in {"live", "deleting"}
  /\ sync' = [IdleSync EXCEPT !.pc = "start", !.finalizing = (job = "deleting"),
                              !.spec = spec, !.pod = pod, !.redis = redis.pod,
                              !.pvc = pvc, !.st = status]
  /\ UNCHANGED <<job, spec, status, db, files, cluster, tasks, async, api, hist>>

\* the job is being deleted: cancel_crawl unless it has finished (its key in redis
\* for the crawlers has no effect, the answer removes them)
SyncFinalize ==
  /\ sync.pc = "start" /\ sync.finalizing
  /\ LET r == IF sync.st.finished
                THEN [st |-> sync.st, db |-> db, ok |-> FALSE]
                ELSE mark_finished(sync.st, db, "canceled")
     IN  /\ db' = r.db
         /\ StartTasks(r.ok, "canceled")
         /\ Answer("final", r.st)
  /\ UNCHANGED <<job, spec, status, files, cluster, async, api>>

\* finished but not deleted: ask for the deletion again
SyncFinished_waits ==
  /\ sync.pc = "start" /\ ~sync.finalizing /\ sync.st.finished
  /\ Answer("final", sync.st)
  /\ UNCHANGED <<job, spec, status, db, files, cluster, tasks, async, api, hist>>
SyncFinished ==
  /\ sync.pc = "start" /\ ~sync.finalizing /\ sync.st.finished
  /\ async' = async \cup {"delete"}
  /\ Answer("final", sync.st)
  /\ UNCHANGED <<job, spec, status, db, files, cluster, tasks, api, hist>>

\* The job is live and not finished.  A status in a final state is finished
\* (StatusFollowsDocument), so the branch for a canceled job that is not being
\* finalized is never taken and the skipped_* states never reach the quota check.
Unfinished == sync.pc = "start" /\ ~sync.finalizing /\ ~sync.st.finished

\* quota reached before anything was created
SyncSkip(state) ==
  /\ Unfinished
  /\ "quota" \in Events
  /\ sync.st.state = "starting"
  /\ sync.pod = [p \in Pods |-> None] /\ sync.redis = None /\ ~sync.pvc
  /\ LET r == mark_finished(sync.st, db, state)
     IN  /\ db' = r.db
         /\ StartTasks(r.ok, state)
         /\ Answer("empty", r.st)
  /\ UNCHANGED <<job, spec, status, files, cluster, async, api>>

\* leave a waiting state for "starting"
leave(st, d, waiting) ==
  IF st.state = waiting THEN set_state(st, d, "starting", {waiting}, FALSE)
                        ELSE [st |-> st, db |-> d, ok |-> FALSE]

\* can_start_new is false
SyncAtOrgLimit ==
  /\ Unfinished
  /\ "limit" \in Events
  /\ sync.st.state \in {"starting", "waiting_org_limit"}
  /\ LET r == set_state(sync.st, db, "waiting_org_limit", {"starting"}, FALSE)
     IN  db' = r.db /\ Answer("empty", r.st)
  /\ UNCHANGED <<job, spec, status, files, cluster, tasks, async, api, hist>>

\* can_start_new is true, is_waiting_for_dedupe_index is true
SyncAwaitIndex ==
  /\ Unfinished
  /\ "index" \in Events
  /\ LET r1 == leave(sync.st, db, "waiting_org_limit")
         r  == set_state(r1.st, r1.db, "waiting_dedupe_index", {"starting"}, FALSE)
     IN  /\ r1.st.state \in {"starting", "waiting_dedupe_index"}
         /\ db' = r.db
         /\ Answer("empty", r.st)
  /\ UNCHANGED <<job, spec, status, files, cluster, tasks, async, api, hist>>

\* paused_at is set, and state is a valid paused state
is_paused_early(s, st) == s.paused
is_paused(s, st) == s.paused /\ st.state \in PAUSED_STATES

\* neither holds the crawl back; is_paused and the rate limit time are settled
SyncAdmitted ==
  /\ Unfinished
  /\ LET r1 == leave(sync.st, db, "waiting_org_limit")
         r  == leave(r1.st, r1.db, "waiting_dedupe_index")
         paused == is_paused(sync.spec, r.st)
     IN  /\ db' = r.db
         /\ sync' = [sync EXCEPT
               !.pc = "state",
               !.isPaused = paused,
               !.st = [r.st EXCEPT !.rateLimited =
                         @ /\ ~paused /\ r.st.state # "running"]]
  /\ UNCHANGED <<job, spec, status, files, cluster, tasks, async, api, hist>>
-----------------------------------------------------------------------------
(***************************************************************************)
(* sync_crawl_state: pods and redis as the snapshot shows them.            *)
(***************************************************************************)
Started == {p \in Pods : sync.pod[p] \notin {None, "pending"}}
crawler_running == Started # {}
pod_done_count == Cardinality({p \in Pods : sync.pod[p] = "succeeded"})
redis_connected == sync.redis = "up" /\ redis.pod = "up"
allCrashed == \A p \in Started : sync.pod[p] \in FailedExits \cup {"backoff"}

\* handle_terminated_pod: the exit code of a container seen just after its exit.
\* Which of several is the last one depends on the order of the pods; an exit of
\* a pod that has been restarted since may be later than those that are visible.
lastExits ==
  LET terminated == {p \in Pods : sync.pod[p] \in FailedExits \cup {"succeeded"}}
      code(p) == IF sync.pod[p] = "succeeded" THEN "ok" ELSE sync.pod[p]
  IN  {code(p) : p \in terminated}
      \cup (IF terminated = Started /\ terminated # {} THEN {} ELSE {sync.st.lastExit})

\* no pods at all: nothing to evaluate
SyncNoPods ==
  /\ sync.pc = "state"
  /\ sync.pod = [p \in Pods |-> None] /\ sync.redis = None
  /\ Goto("paused", sync.st)
  /\ UNCHANGED <<job, spec, status, db, files, cluster, tasks, async, api, hist>>

\* should_mark_waiting; late: the starting time has passed
should_mark_waiting(state, late) ==
  state \in RUNNING_STATES \/ (state = "starting" /\ late)

\* no crawler pod is running or redis cannot be reached; idle: no crawler has
\* been running for REDIS_TTL seconds
SyncNoCrawler(late, idle) ==
  /\ sync.pc = "state"
  /\ sync.pod # [p \in Pods |-> None] \/ sync.redis # None
  /\ ~crawler_running \/ ~redis_connected
  /\ \E code \in lastExits :
       LET st == [sync.st EXCEPT !.lastExit = code]
           r  == IF pod_done_count = 0 /\ should_mark_waiting(st.state, late)
                   THEN set_state(st, db, "waiting_capacity",
                                  RUNNING_AND_STARTING_ONLY, FALSE)
                   ELSE [st |-> st, db |-> db, ok |-> FALSE]
           st2 == [r.st EXCEPT !.initRedis =
                     IF crawler_running THEN TRUE
                     ELSE @ /\ ~(redis_connected /\ idle)]
       IN  /\ db' = r.db
           /\ IF st2.finished THEN Answer("final", st2) ELSE Goto("paused", st2)
  /\ redis' = IF ~crawler_running /\ redis_connected /\ sync.spec.paused
                THEN [redis EXCEPT !.paused = FALSE] ELSE redis
  /\ UNCHANGED <<job, spec, status, files, pod, volume, pvc, tasks, async, api, hist>>

SyncCrawler ==
  /\ sync.pc = "state"
  /\ crawler_running /\ redis_connected
  /\ \E code \in lastExits : Goto("files", [sync.st EXCEPT !.lastExit = code])
  /\ UNCHANGED <<job, spec, status, db, files, cluster, tasks, async, api, hist>>

\* redis.rpop(done_key) returns a file
SyncPop ==
  /\ sync.pc = "files" /\ redis.pod = "up" /\ redis.queue > 0
  /\ redis' = [redis EXCEPT !.queue = @ - 1]
  /\ Goto("add", sync.st)
  /\ UNCHANGED <<job, spec, status, db, files, pod, volume, pvc, tasks, async, api, hist>>

\* add_file_to_crawl: count it in redis, list it in the document if there is one,
\* count it for the org
SyncAddFile ==
  /\ sync.pc = "add" /\ redis.pod = "up"
  /\ redis' = [redis EXCEPT !.filesAdded = @ + 1]
  /\ files' = [files EXCEPT !.db = IF db.state = None THEN @ ELSE @ + 1, !.org = @ + 1]
  /\ Goto("files", sync.st)
  /\ UNCHANGED <<job, spec, status, db, pod, volume, pvc, tasks, async, api, hist>>

\* redis.rpop(done_key) returns nothing
SyncDrained ==
  /\ sync.pc = "files" /\ redis.pod = "up" /\ redis.queue = 0
  /\ Goto("update", sync.st)
  /\ UNCHANGED <<job, spec, status, db, files, cluster, tasks, async, api, hist>>

\* an error while redis is used is logged and the request goes on
SyncRedisError ==
  /\ sync.pc \in {"files", "add", "update"} /\ redis.pod # "up"
  /\ Goto("paused", sync.st)
  /\ hist' = [hist EXCEPT !.lost = @ \/ sync.pc = "add"]
  /\ UNCHANGED <<job, spec, status, db, files, cluster, tasks, async, api>>
-----------------------------------------------------------------------------
(***************************************************************************)
(* update_crawl_state: is the crawl to be stopped, and what have the pods  *)
(* reported.                                                               *)
(***************************************************************************)

\* conditions of the org, the crawl's limits and the clock that is_crawl_stopping
\* tests, in its order; at most the first one that holds counts
Conditions ==
  {None} \cup (IF "limits" \in Events THEN {"time-limit", "size-limit"} ELSE {})
         \cup (IF "autopause" \in Events THEN AUTO_PAUSED_STATES ELSE {})

\* the rate limit must have been noted before it can have lasted too long
condition_possible(st, cond) ==
  cond = "paused_rate_limit_time_reached" => redis.rateLimited /\ st.rateLimited

\* is_crawl_stopping and request_pause_crawl
is_crawl_stopping(s, stopReason, cond) ==
  CASE s.stopping -> "stopped_by_user"
    [] ~s.stopping /\ cond \in {"time-limit", "size-limit"} -> cond
    [] ~s.stopping /\ cond \in AUTO_PAUSED_STATES -> IF s.paused THEN cond ELSE None
    [] ~s.stopping /\ cond = None ->
         IF s.paused /\ stopReason \notin PAUSED_STATES THEN "paused" ELSE None

\* the state of a crawl that has been paused for a reason; the comparison with
\* the misspelt "paused_org_readoly" in the code never holds
paused_state(stopReason) ==
  IF stopReason \in AUTO_PAUSED_STATES \ {"paused_org_readonly"}
    THEN stopReason ELSE "paused"

\* the state of a crawl whose pods are done
completed_state_raw(stopReason) == stopReason
completed_state(stopReason) ==
  IF stopReason \in {"stopped_by_user", "stopped_storage_quota_reached",
                     "stopped_time_quota_reached", "stopped_org_readonly"}
    THEN stopReason ELSE "complete"

\* the state of a crawl whose pods are at work, by what they report
running_state(reports) ==
  CASE "generate-wacz" \in reports -> "generate-wacz"
    [] "generate-wacz" \notin reports /\ "uploading-wacz" \in reports -> "uploading-wacz"
    [] reports \cap {"generate-wacz", "uploading-wacz"} = {} /\ "pending-wait" \in reports
         -> "pending-wait"
    [] OTHER -> IF redis.rateLimited THEN "rate-limited" ELSE "running"

\* every pod that redis calls done has been seen to exit
pods_exited_ignored(num_done) == TRUE
pods_exited(num_done) == pod_done_count >= num_done

max(a, b) == IF a >= b THEN a ELSE b

\* the state update_crawl_state asks for, given the status after the stop check;
\* failed is the state fail_crawl takes from redis
update_crawl_state(st, failed) ==
  LET results == {p \in Pods : redis.status[p] # None}
      scale == max(Cardinality(results), Cardinality({p \in Pods : sync.pod[p] # None}))
      count(v) == Cardinality({p \in Pods : p < scale /\ redis.status[p] = v})
      num_done == count("done")
      num_failed == count("failed")
      all_completed == num_done + num_failed >= scale
  IN  CASE allCrashed /\ st.lastExit = "fatal" -> failed
        [] allCrashed /\ st.lastExit = "limited" -> "rate-limited"
        [] OTHER ->
           CASE ~all_completed /\ sync.spec.paused /\ st.stopReason \in PAUSED_STATES
                /\ count("interrupted") + num_failed >= scale ->
                  paused_state(st.stopReason)
             [] all_completed /\ num_done >= 1 /\ pods_exited(num_done) ->
                  IF st.pagesFound = 1 /\ redis.filesAdded = 0
                    THEN failed ELSE completed_state(st.stopReason)
             [] all_completed /\ num_done = 0 /\ num_failed > 0 ->
                  IF st.stopping /\ ~redis.done THEN "canceled" ELSE failed
             [] OTHER -> running_state({redis.status[p] : p \in {q \in Pods : q < scale}})

SyncUpdate(cond, failed) ==
  /\ sync.pc = "update" /\ redis.pod = "up"
  /\ condition_possible(sync.st, cond)
  /\ LET resumed == sync.st.stopReason \in PAUSED_STATES /\ ~sync.spec.paused
         st1 == [sync.st EXCEPT
                   !.pagesFound = redis.found,
                   !.sizePending = volume,
                   !.stopReason = IF resumed THEN None ELSE @,
                   !.stopping = @ /\ ~resumed]
         reason == is_crawl_stopping(sync.spec, st1.stopReason, cond)
         st2 == IF st1.stopping THEN st1
                ELSE [st1 EXCEPT !.stopReason = reason, !.stopping = reason # None]
         state == update_crawl_state(st2, failed)
         crashed == allCrashed /\ st2.lastExit \in {"fatal", "limited"}
         r == IF state \in NON_RUNNING_STATES
                THEN mark_finished(st2, db, state)
                ELSE set_state(st2, db, state, RUNNING_AND_WAITING_STATES, FALSE)
         st3 == [r.st EXCEPT !.rateLimited = @ \/ (r.ok /\ state = "rate-limited")]
     IN  /\ db' = r.db
         /\ StartTasks(r.ok /\ state \in NON_RUNNING_STATES, state)
         /\ redis' = [redis EXCEPT
               !.paused = (@ /\ ~resumed)
                          \/ (~crashed /\ st2.stopping /\ st2.stopReason \in PAUSED_STATES),
               !.stopping = @ \/ (~crashed /\ st2.stopping
                                  /\ st2.stopReason \notin PAUSED_STATES)]
         /\ async' = IF ~st1.stopping /\ ~sync.spec.stopping /\ ~sync.spec.paused
                        /\ cond \in AUTO_PAUSED_STATES
                       THEN async \cup {"pause"} ELSE async
         /\ IF st3.finished THEN Answer("final", st3) ELSE Goto("paused", st3)
  /\ UNCHANGED <<job, spec, status, files, pod, volume, pvc, api>>

\* the state a paused crawl is ended with, if it is to end; expired: it has been
\* paused for too long
paused_end_expired_only(s, expired) ==
  IF s.paused /\ expired THEN "stopped_pause_expired" ELSE None
paused_end(s, expired) ==
  CASE s.paused /\ expired -> "stopped_pause_expired"
    [] s.paused /\ ~expired /\ s.stopping -> "stopped_by_user"
    [] OTHER -> None

\* stopping paused crawls
SyncPaused(expired) ==
  /\ sync.pc = "paused"
  /\ LET state == paused_end(sync.spec, expired)
         st == [sync.st EXCEPT !.stopping = TRUE, !.stopReason = state]
         r  == IF state = None THEN [st |-> sync.st, db |-> db, ok |-> FALSE]
               ELSE mark_finished(st, db, state)
     IN  /\ db' = r.db
         /\ StartTasks(r.ok, state)
         /\ Answer("run", r.st)
  /\ UNCHANGED <<job, spec, status, files, cluster, async, api>>
-----------------------------------------------------------------------------
(***************************************************************************)
(* The answer: metacontroller stores the status, removes the children that *)
(* are not in the answer and creates those that do not exist.              *)
(***************************************************************************)

\* pages found limit the scale; the value is the one the request started with
desiredScale == IF status.pagesFound < NumPods THEN max(1, status.pagesFound) ELSE NumPods

\* _load_crawler: a paused pod is dropped once its pending size is cleared
init_crawler(p) == ~(sync.isPaused /\ p \notin sync.st.sizePending)

create(phase) == IF phase = None THEN "pending" ELSE phase

AnswerRun ==
  /\ sync.pc = "answer" /\ sync.answer = "run"
  /\ status' = sync.st
  /\ pod' = [p \in Pods |->
               IF p < desiredScale /\ p <= sync.st.pagesFound /\ init_crawler(p)
                 THEN create(pod[p]) ELSE None]
  /\ redis' = [redis EXCEPT !.pod = IF sync.st.initRedis THEN create(@) ELSE None]
  /\ pvc' = TRUE
  /\ sync' = IdleSync
  /\ UNCHANGED <<job, spec, db, files, volume, tasks, async, api, hist>>

\* without their claims the volumes of the crawlers and of redis are gone
DropVolumes ==
  /\ volume' = {}
  /\ pvc' = FALSE
  /\ redis' = EmptyRedis

\* _empty_response: a crawl that has started and has to wait loses what it has
AnswerEmpty ==
  /\ sync.pc = "answer" /\ sync.answer = "empty"
  /\ status' = sync.st
  /\ pod' = [p \in Pods |-> None]
  /\ DropVolumes
  /\ hist' = [hist EXCEPT !.lost = @ \/ redis.queue > 0]
  /\ sync' = IdleSync
  /\ UNCHANGED <<job, spec, db, files, tasks, async, api>>

\* redis and the volumes stay while there are other pods
has_crawlers == sync.pod # [p \in Pods |-> None]
keep_redis_always == sync.redis # None
keep_redis == sync.redis # None /\ has_crawlers

\* finalize_response: redis and the volumes stay until the crawler pods are gone;
\* expired: the time to live after finishing has passed
AnswerFinal(expired) ==
  /\ sync.pc = "answer" /\ sync.answer = "final"
  /\ LET finalized == /\ ~has_crawlers /\ sync.redis = None /\ ~sync.pvc
                      /\ sync.st.finished => expired
     IN  /\ IF keep_redis
              THEN /\ redis' = [redis EXCEPT !.pod = IF sync.st.initRedis
                                                       THEN create(@) ELSE None]
                   /\ UNCHANGED <<volume, pvc>>
              ELSE DropVolumes
         /\ job' = IF sync.finalizing /\ finalized THEN "gone" ELSE job
  /\ status' = sync.st
  /\ pod' = [p \in Pods |-> None]
  /\ sync' = IdleSync
  /\ UNCHANGED <<spec, db, files, tasks, async, api, hist>>
-----------------------------------------------------------------------------
(***************************************************************************)
(* Coroutines of the operator.                                             *)
(***************************************************************************)
job_exists == job \in {"live", "deleting"}

\* delete_crawl_job: the job gets a deletion time and metacontroller finalizes it
delete_crawl_job == job' = IF job = "live" THEN "deleting" ELSE job

\* delete_failed_crawl_files
without_files_counted(f) == [f EXCEPT !.db = 0]
without_files(f) == [f EXCEPT !.db = 0, !.org = @ - f.db]

\* do_crawl_finished_tasks, first part: a failed crawl loses its files; a crawl
\* that has no document any more makes the coroutine fail
TaskCleanup(t) ==
  /\ t \in tasks /\ t.pc = "cleanup"
  /\ IF t.state \in FAILED_STATES
       THEN /\ files' = IF db.state = None THEN files
                        ELSE without_files(files)
            /\ tasks' = (tasks \ {t}) \cup
                          (IF db.state = None THEN {} ELSE {[t EXCEPT !.pc = "notify"]})
       ELSE /\ tasks' = (tasks \ {t}) \cup {[t EXCEPT !.pc = "notify"]}
            /\ UNCHANGED files
  /\ UNCHANGED <<job, spec, status, db, cluster, sync, async, api, hist>>

\* second part: create_crawl_finished_notification; when the document has been
\* deleted, the coroutine fails if the org has a webhook and goes on if it has none
TaskNotify(t) ==
  /\ t \in tasks /\ t.pc = "notify"
  /\ \/ tasks' = (tasks \ {t}) \cup {[t EXCEPT !.pc = "delete"]}
     \/ db.state = None /\ tasks' = tasks \ {t}
  /\ hist' = [hist EXCEPT !.notified = IF db.state = None THEN @ ELSE @ \cup {t.state}]
  /\ UNCHANGED <<job, spec, status, db, files, cluster, sync, async, api>>

\* finally, delete job
TaskDeleteJob(t) ==
  /\ t \in tasks /\ t.pc = "delete"
  /\ tasks' = tasks \ {t}
  /\ delete_crawl_job
  /\ UNCHANGED <<spec, status, db, files, cluster, sync, async, api, hist>>

AsyncDelete ==
  /\ "delete" \in async
  /\ async' = async \ {"delete"}
  /\ delete_crawl_job
  /\ UNCHANGED <<spec, status, db, files, cluster, sync, tasks, api, hist>>

\* pause_crawl, requested by request_pause_crawl
AsyncPause ==
  /\ "pause" \in async
  /\ async' = async \ {"pause"}
  /\ spec' = IF db.state # None /\ job_exists THEN [spec EXCEPT !.paused = TRUE] ELSE spec
  /\ UNCHANGED <<job, status, db, files, cluster, sync, tasks, api, hist>>
-----------------------------------------------------------------------------
(***************************************************************************)
(* The API.                                                                *)
(***************************************************************************)

\* Nothing has come of the job yet but its first pod.
not_begun ==
  /\ job = "live" /\ status = InitialStatus /\ sync.st = InitialStatus
  /\ sync.pc \notin {"files", "add", "update"} /\ redis = EmptyRedis
  /\ files = [db |-> 0, org |-> 0, uploaded |-> 0] /\ hist.started = 0
  /\ \A p \in Pods : pod[p] # None => p = 0

\* add_new_crawl, called by run_now_internal when the job has been created; the job is
\* not looked at, and when the call fails nobody removes it
ApiAddCrawl ==
  /\ api.run = "adding"
  /\ db' = [state |-> "starting", finished |-> FALSE]
  /\ api' = [api EXCEPT !.run = IF not_begun THEN "added" ELSE "overtaken"]
  /\ UNCHANGED <<job, spec, status, files, cluster, sync, tasks, async, hist>>

\* shutdown_crawl(graceful=True)
ApiStop ==
  /\ "stop" \in Events
  /\ db.state # None /\ job_exists /\ ~spec.stopping
  /\ spec' = [spec EXCEPT !.stopping = TRUE]
  /\ UNCHANGED <<job, status, db, files, cluster, sync, tasks, async, api, hist>>

\* pause_crawl(pause=True)
ApiPause ==
  /\ "pause" \in Events
  /\ db.state # None /\ job_exists /\ ~spec.paused /\ hist.pauses < MaxPauses
  /\ spec' = [spec EXCEPT !.paused = TRUE]
  /\ hist' = [hist EXCEPT !.pauses = @ + 1]
  /\ UNCHANGED <<job, status, db, files, cluster, sync, tasks, async, api>>

\* pause_crawl(pause=False)
ApiResume ==
  /\ "resume" \in Events
  /\ db.state # None /\ job_exists /\ spec.paused
  /\ spec' = [spec EXCEPT !.paused = FALSE]
  /\ hist' = [hist EXCEPT !.resumed = TRUE]
  /\ UNCHANGED <<job, status, db, files, cluster, sync, tasks, async, api>>

\* update_crawl_state of basecrawls.py: only an active crawl is canceled
canceled_document_always(d) == [state |-> "canceled", finished |-> TRUE]
canceled_document(d) ==
  update_crawl_state_if_allowed(d, "canceled", RUNNING_AND_WAITING_STATES, TRUE)

\* shutdown_crawl(graceful=False): delete the job, or, when there is none,
\* cancel the crawl in the database if it is still active
shutdown_crawl ==
  IF job_exists
    THEN delete_crawl_job /\ UNCHANGED db
    ELSE db' = canceled_document(db) /\ UNCHANGED job

ApiCancel ==
  /\ "cancel" \in Events
  /\ db.state # None
  /\ shutdown_crawl
  /\ UNCHANGED <<spec, status, files, cluster, sync, tasks, async, api, hist>>

\* delete_crawls, first part: read the document, shut down a crawl that has not
\* finished, delete the files listed in the document that was read
ApiDeleteBegin ==
  /\ "delete" \in Events
  /\ api.pc = "idle" /\ db.state # None
  /\ IF db.finished THEN UNCHANGED <<job, db>> ELSE shutdown_crawl
  /\ api' = [api EXCEPT !.pc = "delete", !.size = files.db]
  /\ UNCHANGED <<spec, status, files, cluster, sync, tasks, async, hist>>

\* second part: delete the document and take the deleted files off the org's count
ApiDeleteEnd ==
  /\ api.pc = "delete"
  /\ api' = [api EXCEPT !.pc = "idle", !.size = 0]
  /\ db' = [state |-> None, finished |-> FALSE]
  /\ files' = [files EXCEPT !.db = 0, !.org = @ - api.size]
  /\ UNCHANGED <<job, spec, status, cluster, sync, tasks, async, hist>>

\* A scheduled crawl has its document before it has its job: the cron operator
\* adds the document and answers with the job, whatever happened in between.
CronCreateJob ==
  /\ job = "none"
  /\ job' = "live"
  /\ UNCHANGED <<spec, status, db, files, cluster, sync, tasks, async, api, hist>>

\* sync_cronjob_crawl finds the document finished: its answer has no job any more
CronFinished ==
  /\ "cron" \in Events
  /\ db.finished /\ job = "live"
  /\ delete_crawl_job
  /\ UNCHANGED <<spec, status, db, files, cluster, sync, tasks, async, api, hist>>
-----------------------------------------------------------------------------
(***************************************************************************)
(* The cluster and the crawlers, as the operator sees them (external).     *)
(***************************************************************************)
operator_and_api == <<job, spec, status, db, sync, tasks, async, api>>

\* what goes wrong is counted; a file taken from redis and not yet added is lost
Fault(lost) ==
  /\ hist.faults < MaxFaults
  /\ hist' = [hist EXCEPT !.faults = @ + 1, !.lost = @ \/ lost]

PodStart(p) ==
  /\ pod[p] = "pending"
  /\ pod' = [pod EXCEPT ![p] = "running"]
  /\ UNCHANGED <<operator_and_api, files, redis, volume, pvc, hist>>

\* the container exits with an error, waits and is started again
PodExit(p, code) ==
  /\ "exit" \in Events
  /\ pod[p] = "running" /\ redis.status[p] \in {None, "running"} \cup Busy
  /\ pod' = [pod EXCEPT ![p] = code]
  /\ UNCHANGED <<operator_and_api, files, redis, volume, pvc, hist>>

PodRestart(p) ==
  /\ pod[p] \in FailedExits \cup {"backoff"}
  /\ pod' = [pod EXCEPT ![p] = IF @ = "backoff" THEN "running" ELSE "backoff"]
  /\ UNCHANGED <<operator_and_api, files, redis, volume, pvc, hist>>

\* the pod is removed by the cluster
PodEvict(p) ==
  /\ "evict" \in Events
  /\ Fault(FALSE)
  /\ pod[p] \notin {None, "succeeded"}
  /\ pod' = [pod EXCEPT ![p] = None]
  /\ UNCHANGED <<operator_and_api, files, redis, volume, pvc>>

RedisStart ==
  /\ redis.pod = "pending"
  /\ redis' = [redis EXCEPT !.pod = "up"]
  /\ UNCHANGED <<operator_and_api, files, pod, volume, pvc, hist>>

RedisRestart ==
  /\ "redis" \in Events
  /\ Fault(FALSE)
  /\ redis.pod = "up"
  /\ redis' = [redis EXCEPT !.pod = "pending"]
  /\ UNCHANGED <<operator_and_api, files, pod, volume, pvc>>

\* a crawler can work when its pod runs and redis is there
at_work(p) == pod[p] = "running" /\ redis.pod = "up"

CrawlerStart(p) ==
  /\ at_work(p) /\ redis.status[p] \in {None, "interrupted"} /\ ~redis.paused
  /\ redis' = [redis EXCEPT !.status[p] = "running", !.found = max(@, 1)]
  /\ hist' = [hist EXCEPT !.late = @ \/ db.state = "complete"]
  /\ UNCHANGED <<operator_and_api, files, pod, volume, pvc>>

\* a page is crawled: data is collected, more pages are found
CrawlerPage(p) ==
  /\ at_work(p) /\ redis.status[p] = "running" /\ ~redis.paused /\ ~redis.stopping
  /\ files.uploaded + Cardinality(volume \cup {p}) <= MaxFiles
  /\ volume' = volume \cup {p}
  /\ \E n \in redis.found .. MaxPages : redis' = [redis EXCEPT !.found = n, !.done = TRUE]
  /\ UNCHANGED <<operator_and_api, files, pod, pvc, hist>>

\* the queue is empty, or the crawler was told to pause or to stop
CrawlerPackage(p, busy) ==
  /\ at_work(p) /\ redis.status[p] = "running"
  /\ redis' = [redis EXCEPT !.status[p] = busy]
  /\ UNCHANGED <<operator_and_api, files, pod, volume, pvc, hist>>

CrawlerUpload(p) ==
  /\ at_work(p) /\ redis.status[p] \in Busy /\ p \in volume
  /\ redis' = [redis EXCEPT !.queue = @ + 1]
  /\ volume' = volume \ {p}
  /\ files' = [files EXCEPT !.uploaded = @ + 1]
  /\ UNCHANGED <<operator_and_api, pod, pvc, hist>>

\* everything is uploaded: the crawler is done, or interrupted by a pause
CrawlerEnd(p) ==
  /\ at_work(p) /\ redis.status[p] \in Busy /\ p \notin volume
  /\ \E end \in {"done"} \cup (IF redis.paused THEN {"interrupted"} ELSE {}) :
       redis' = [redis EXCEPT !.status[p] = end]
  /\ UNCHANGED <<operator_and_api, files, pod, volume, pvc, hist>>

CrawlerFail(p) ==
  /\ "fail" \in Events
  /\ at_work(p) /\ redis.status[p] = "running"
  /\ redis' = [redis EXCEPT !.status[p] = "failed"]
  /\ UNCHANGED <<operator_and_api, files, pod, volume, pvc, hist>>

CrawlerRateLimit ==
  /\ "ratelimit" \in Events
  /\ \E p \in Pods : at_work(p) /\ redis.status[p] = "running"
  /\ redis' = [redis EXCEPT !.rateLimited = ~@]
  /\ UNCHANGED <<operator_and_api, files, pod, volume, pvc, hist>>

PodSucceed(p) ==
  /\ pod[p] = "running" /\ redis.status[p] = "done"
  /\ pod' = [pod EXCEPT ![p] = "succeeded"]
  /\ UNCHANGED <<operator_and_api, files, redis, volume, pvc, hist>>
-----------------------------------------------------------------------------
(***************************************************************************)
(* Faults.                                                                 *)
(***************************************************************************)
\* the operator process restarts: the request and all coroutines are lost
OperatorRestart ==
  /\ "restart" \in Events
  /\ Fault(sync.pc = "add")
  /\ sync' = IdleSync /\ tasks' = {} /\ async' = {}
  /\ UNCHANGED <<job, spec, status, db, files, cluster, api>>

\* the answer is not stored: a timeout of the request or a conflicting update
AnswerLost ==
  /\ "lost" \in Events
  /\ Fault(FALSE)
  /\ sync.pc = "answer"
  /\ sync' = IdleSync
  /\ UNCHANGED <<job, spec, status, db, files, cluster, tasks, async, api>>
-----------------------------------------------------------------------------
SyncStep ==
  \/ SyncBegin \/ SyncFinalize \/ SyncFinished
  \/ \E state \in {"skipped_storage_quota_reached", "skipped_time_quota_reached"} :
       SyncSkip(state)
  \/ SyncAtOrgLimit \/ SyncAwaitIndex \/ SyncAdmitted
  \/ SyncNoPods
  \/ \E late, idle \in BOOLEAN : SyncNoCrawler(late, idle)
  \/ SyncCrawler \/ SyncPop \/ SyncAddFile \/ SyncDrained \/ SyncRedisError
  \/ \E cond \in Conditions, failed \in {"failed", "failed_not_logged_in"} :
       SyncUpdate(cond, failed)
  \/ \E expired \in (IF "expiry" \in Events THEN BOOLEAN ELSE {FALSE}) : SyncPaused(expired)
  \/ AnswerRun \/ AnswerEmpty
  \/ \E expired \in BOOLEAN : AnswerFinal(expired)

TaskStep ==
  \/ \E t \in tasks : TaskCleanup(t) \/ TaskNotify(t) \/ TaskDeleteJob(t)
  \/ AsyncDelete \/ AsyncPause

ApiStep ==
  \/ ApiStop \/ ApiPause \/ ApiResume \/ ApiCancel
  \/ ApiDeleteBegin \/ ApiDeleteEnd \/ CronCreateJob \/ CronFinished

CrawlerStep(p) ==
  \/ PodStart(p) \/ PodRestart(p) \/ PodEvict(p) \/ PodSucceed(p)
  \/ \E code \in FailedExits : PodExit(p, code)
  \/ CrawlerStart(p) \/ CrawlerPage(p) \/ CrawlerUpload(p) \/ CrawlerEnd(p)
  \/ CrawlerFail(p)
  \/ \E busy \in Busy \cap Events : CrawlerPackage(p, busy)

Next ==
  \/ SyncStep \/ TaskStep \/ ApiStep \/ ApiAddCrawl
  \/ \E p \in Pods : CrawlerStep(p)
  \/ RedisStart \/ RedisRestart \/ CrawlerRateLimit
  \/ OperatorRestart \/ AnswerLost

Spec == Init /\ [][Next]_vars

(***************************************************************************)
(* Fairness.  Metacontroller syncs a job again and again for as long as it *)
(* exists, and a handler runs to its end; coroutines run; time passes, so  *)
(* the time to live of a finished job is over some day; the cluster starts *)
(* pods and a crawler that works comes to an end.  The document need never *)
(* be added: the call that adds it may fail.                               *)
(***************************************************************************)
OperatorFairness ==
  /\ WF_vars(SyncStep)
  /\ SF_vars(AnswerFinal(TRUE))
  /\ WF_vars(TaskStep)

CrawlerWork ==
  \/ RedisStart
  \/ \E p \in Pods :
       \/ PodStart(p) \/ PodRestart(p) \/ PodSucceed(p)
       \/ CrawlerStart(p) \/ CrawlerUpload(p) \/ CrawlerEnd(p)
       \/ \E busy \in Busy \cap Events : CrawlerPackage(p, busy)

CrawlerFairness == WF_vars(CrawlerWork)

FairSpec == Spec /\ OperatorFairness /\ CrawlerFairness
-----------------------------------------------------------------------------
(***************************************************************************)
(* Properties.                                                             *)
(***************************************************************************)

\* The types of all variables.
TypeOK ==
  /\ job \in {"none", "live", "deleting", "gone"}
  /\ spec \in CrawlSpec
  /\ status \in CrawlStatus
  /\ db \in Document
  /\ files \in Files
  /\ redis \in Redis
  /\ pod \in [Pods -> PodPhase]
  /\ volume \in SUBSET Pods
  /\ pvc \in BOOLEAN
  /\ sync \in Request
  /\ tasks \in SUBSET Task
  /\ async \in SUBSET {"delete", "pause"}
  /\ api \in Api
  /\ hist \in History

\* A crawl that is over: its document is finished, or there is none.
over == db.finished \/ db.state = None

\* The exception of the properties below: the document was added when its job had got
\* on already, so that what the job recorded in between found no document.
overtaken == api.run = "overtaken"

\* The job's status never runs ahead of the document: when the operator takes a
\* job for finished, in the stored status or in a request in flight, the document
\* is finished (or there is none), so that removing the job leaves no crawl behind
\* that is shown as running for ever.  A final state and a finish time go together.
\* A job that finished before its document was added leaves such a crawl behind.
StatusFollowsDocument ==
  /\ ~overtaken /\ (status.finished \/ sync.st.finished) => over
  /\ \A st \in {status, sync.st} : st.state \in NON_RUNNING_STATES => st.finished
  /\ db.finished <=> db.state \in NON_RUNNING_STATES

\* When the job is gone, so that nothing will ever update the crawl again, its
\* document is in a final state or there is none: cancellation by deletion of the job
\* always reaches the database first.  A document that was added to a job at work is
\* the exception.
GoneOnlyWhenOver == job = "gone" /\ ~overtaken => over

\* do_crawl_finished_tasks, which counts the crawl in the workflow and the org,
\* adds it to collections and notifies webhooks, is started at most once for a
\* crawl that has a document, whatever is lost or repeated, unless the document came
\* after the job had got on.
TasksStartedOnce == db.state # None /\ ~overtaken => hist.started <= 1

\* A webhook never announces an end that is not the end the crawl is stored with, with
\* the same exception.
NotifiedIsStored == db.state # None /\ ~overtaken => hist.notified \subseteq {db.state}

\* A crawl is complete only when every file its crawlers uploaded is listed in the
\* document and only a crawler that failed has data left.  The files are taken from
\* redis before the pods' results are read, and a result counts only when the snapshot
\* already showed the pod's exit.  Files are lost when redis or the operator failed
\* between taking one from redis and adding it, when the crawl had to wait after it
\* had started, or when the document was not there yet; and a crawler starts late when
\* the answer that ends the crawl was lost or the snapshot lacked a pod that was evicted.
CompleteHasAllFiles ==
  db.state = "complete" /\ job = "live" /\ ~hist.lost /\ ~hist.late /\ ~overtaken =>
    /\ redis.queue = 0 /\ files.db = files.uploaded
    /\ \A p \in volume : redis.status[p] = "failed"

\* Until its first resume, a paused crawl whose pods have been removed has all its
\* uploaded files listed, if its document was there in time: no file waits in redis for as long as the crawl stays
\* paused.  (The answer that removes the pods belongs to a request that evaluated
\* them after they were all interrupted, and took the files first.)
PausedHasAllFiles ==
  /\ db.state \in PAUSED_STATES /\ job = "live" /\ sync.pc = "idle"
  /\ hist.faults = 0 /\ ~hist.lost /\ ~hist.resumed /\ ~overtaken
  /\ \A p \in Pods : pod[p] = None
  => redis.queue = 0 /\ files.db = files.uploaded

\* Once its end has been announced, a failed or canceled crawl holds no file and
\* takes no space of the org's quota, if its document was there in time.
FailedHasNoFiles ==
  /\ hist.notified \cap FAILED_STATES # {} /\ db.state # None
  /\ hist.faults = 0 /\ api.pc = "idle" /\ ~overtaken
  => files.db = 0 /\ files.org = 0

\* The final state of a crawl never changes and its finish time is never undone,
\* whichever of the operator, a stale request, the API or a lost answer comes late.
FinalStateIsFinal ==
  [][db.finished => db' = db \/ db'.state = None]_vars

\* To those who look at the document, the webhooks and the job only, the crawl
\* behaves as CrawlLifecycle says, whatever is lost, repeated or late; of a document
\* that was added too late only the order of the states is promised.
Lifecycle == INSTANCE CrawlLifecycle
  WITH state <- db.state, recorded <- api.run, announced <- hist.notified, removed <- (job = "gone")

ImplementsLifecycle == Lifecycle!Spec

\* A crawl that is over has its job, its pods and its volumes removed: the job is
\* never there for ever.  (A crawl that is over stays so, and a job that is gone; a crawl
\* whose document has yet to be added is not over.)
OverIsRemoved == []<>~(over /\ api.run # "adding" /\ job \in {"live", "deleting"})

\* Deleting the job, which is how a crawl is canceled, ends with the document in a
\* final state and the job gone, but for a document that came too late.
CancelEnds == []<>(job # "deleting" /\ (job = "gone" => over \/ overtaken))

\* A crawl that is told to stop ends, also when it is paused or being paused, but for
\* a document that came too late.  (spec.stopping is never taken back.)
StopEnds == []<>(spec.stopping => over \/ overtaken)

\* The finish tasks run once and announce the end that is stored
\* (do_crawl_finished_tasks).
FinishedOnce == TasksStartedOnce /\ NotifiedIsStored

\* No file is left behind, neither by a pause nor by the end of the crawl
\* (add_file_to_crawl, update_crawl_state).
NoFileLeftBehind == PausedHasAllFiles /\ CompleteHasAllFiles
=============================================================================
