--------------------------- MODULE CrawlJobProofs ---------------------------
(***************************************************************************)
(* Proofs about CrawlJob, for every number of pods and every bound.        *)
(*                                                                         *)
(* The invariant is inductive because of two facts.  A status, stored or in*)
(* a request, is finished only when the document is over, and all changes  *)
(* of the document's state are conditional on the document being active, so*)
(* a document that is over stays as it is.  And the coroutine that closes a*)
(* crawl is started only by the step that moved the document from active to*)
(* final, or when there is no document.  A document that was added when its*)
(* job had got on (overtaken) is the exception.                            *)
(***************************************************************************)
EXTENDS CrawlJob, FiniteSetTheorems, TLAPS

\* A document has a finish time exactly when it is in a final state.
DocumentOK(d) == d.finished <=> d.state \in NON_RUNNING_STATES

\* A document that is over never becomes active again.
DocumentOver(d) == d.finished \/ d.state = None

\* A status is not ahead of the document: see StatusFollowsDocument.
StatusOK(st, d) ==
  /\ st.finished => DocumentOver(d) \/ overtaken
  /\ st.state \in NON_RUNNING_STATES => st.finished

\* What set_state and mark_finished promise about the status st and the document
\* d they were called with, when the given state is asked for and may be set from
\* the states in from
Outcome(st, d, state, from, r) ==
  /\ r.st \in CrawlStatus /\ r.db \in Document /\ r.ok \in BOOLEAN
  /\ DocumentOK(r.db)
  /\ DocumentOver(d) => r.db = d
  /\ r.db.state # d.state => d.state \in from /\ r.db.state = state
  /\ r.st.finished => DocumentOver(r.db) \/ overtaken
  /\ r.st.state \in NON_RUNNING_STATES => r.st.finished \/ r.st.state = state
  /\ r.ok => \/ d.state = None
             \/ ~DocumentOver(d) /\ r.db.state = state

USE DEF overtaken
-----------------------------------------------------------------------------
\* The states of models.py: a final state is not an active one, and None is no state.
LEMMA StateFacts ==
  /\ NON_RUNNING_STATES \cap RUNNING_AND_WAITING_STATES = {}
  /\ None \notin ALL_CRAWL_STATES
  /\ ALL_CRAWL_STATES = NON_RUNNING_STATES \cup RUNNING_AND_WAITING_STATES
<1> USE DEF NON_RUNNING_STATES, ALL_CRAWL_STATES, None, RUNNING_AND_WAITING_STATES,
            FAILED_STATES, SUCCESSFUL_STATES, WAITING_STATES, RUNNING_STATES,
            WAITING_NOT_PAUSED_STATES, PAUSED_STATES, AUTO_PAUSED_STATES
<1>1. NON_RUNNING_STATES \cap RUNNING_AND_WAITING_STATES = {}
  OBVIOUS
<1>2. None \notin ALL_CRAWL_STATES
  OBVIOUS
<1>3. ALL_CRAWL_STATES = NON_RUNNING_STATES \cup RUNNING_AND_WAITING_STATES
  OBVIOUS
<1> QED BY <1>1, <1>2, <1>3

\* update_crawl_state_if_allowed, called with a finish time exactly for a final state
\* and allowed only from active states, leaves a document alone that is over.
LEMMA UpdateDocument ==
  ASSUME NEW d \in Document, DocumentOK(d), NEW state \in ALL_CRAWL_STATES,
         NEW from \in SUBSET RUNNING_AND_WAITING_STATES, NEW finished \in BOOLEAN,
         finished <=> state \in NON_RUNNING_STATES
  PROVE  LET d2 == update_crawl_state_if_allowed(d, state, from, finished)
         IN  /\ d2 \in Document /\ DocumentOK(d2)
             /\ DocumentOver(d) => d2 = d
             /\ matches(d, from) => ~DocumentOver(d) /\ d2.state = state /\ d.state \in from
             /\ ~matches(d, from) => d2 = d
BY StateFacts DEF update_crawl_state_if_allowed, matches, Document, DocumentOK, DocumentOver

\* A status that takes over the state and the finish time of the document is not
\* ahead of it (get_crawl_state in set_state).
LEMMA Adopt ==
  ASSUME NEW st \in CrawlStatus, NEW d \in Document, StatusOK(st, d), DocumentOK(d)
  PROVE  /\ adopt(st, d) \in CrawlStatus
         /\ StatusOK(adopt(st, d), d)
<1>1. adopt(st, d) \in CrawlStatus
  BY DEF adopt, Document, CrawlStatus
<1>2. /\ adopt(st, d).state = IF d.state = None THEN st.state ELSE d.state
      /\ adopt(st, d).finished = (st.finished \/ d.finished)
  BY DEF adopt, CrawlStatus
<1> QED BY <1>1, <1>2 DEF StatusOK, DocumentOK, DocumentOver, Document, CrawlStatus

\* set_state, for every state and every set of active states it is allowed from.
LEMMA SetState ==
  ASSUME NEW st \in CrawlStatus, NEW d \in Document, StatusOK(st, d), DocumentOK(d),
         NEW state \in ALL_CRAWL_STATES, NEW from \in SUBSET RUNNING_AND_WAITING_STATES,
         NEW finished \in BOOLEAN, finished <=> state \in NON_RUNNING_STATES
  PROVE  Outcome(st, d, state, from, set_state(st, d, state, from, finished))
<1> DEFINE d2 == update_crawl_state_if_allowed(d, state, from, finished)
           r == set_state(st, d, state, from, finished)
           changed == [st EXCEPT !.state = state]
<1>0. /\ d2 \in Document /\ DocumentOK(d2)
      /\ DocumentOver(d) => d2 = d
      /\ matches(d, from) => ~DocumentOver(d) /\ d2.state = state /\ d.state \in from
      /\ ~matches(d, from) => d2 = d
  BY UpdateDocument
<1>a. StatusOK(st, d2)
  BY <1>0 DEF StatusOK
<1>1. CASE st.state \notin from
  <2>1. r = [st |-> st, db |-> d, ok |-> FALSE]
    BY <1>1 DEF set_state
  <2> QED BY <2>1 DEF Outcome, StatusOK
<1>2. CASE st.state \in from /\ matches(d, from) /\ st.state # state
  <2>1. r.st = changed /\ r.db = d2 /\ r.ok = TRUE
    BY <1>2 DEF set_state
  <2>2. changed \in CrawlStatus /\ changed.state = state /\ changed.finished = st.finished
    BY DEF CrawlStatus
  <2>3. /\ changed.finished => DocumentOver(d2) \/ overtaken
        /\ changed.state \in NON_RUNNING_STATES => changed.state = state
    BY <1>a, <2>2 DEF StatusOK
  <2> QED BY <1>0, <1>2, <2>1, <2>2, <2>3 DEF Outcome
<1>3. CASE st.state \in from /\ ~(matches(d, from) /\ st.state # state)
  <2>1. r.st = adopt(st, d2) /\ r.db = d2
    BY <1>3 DEF set_state
  <2>2. r.ok = (d2.state = None /\ state = "canceled")
    BY <1>3, Zenon DEF set_state
  <2>3. adopt(st, d2) \in CrawlStatus /\ StatusOK(adopt(st, d2), d2)
    BY <1>0, <1>a, Adopt
  <2>4. d2.state = None => d.state = None
    BY <1>0, StateFacts
  <2>5. r.ok \in BOOLEAN /\ (r.ok => d.state = None)
    BY <2>2, <2>4
  <2> QED BY <1>0, <2>1, <2>3, <2>5 DEF Outcome, StatusOK
<1> QED BY <1>1, <1>2, <1>3

\* After mark_finished the status is finished and so is the document, or it has been
\* deleted, whether or not set_state changed anything.
LEMMA MarkFinished ==
  ASSUME NEW st \in CrawlStatus, NEW d \in Document, StatusOK(st, d), DocumentOK(d),
         NEW state \in NON_RUNNING_STATES
  PROVE  /\ Outcome(st, d, state, RUNNING_AND_WAITING_STATES, mark_finished(st, d, state))
         /\ mark_finished(st, d, state).st.finished
<1> DEFINE s == set_state(st, d, state, finishable, TRUE)
           r == mark_finished(st, d, state)
           done == [s.st EXCEPT !.finished = TRUE]
<1>1. finishable \in SUBSET RUNNING_AND_WAITING_STATES
  BY DEF finishable
<1>2. Outcome(st, d, state, RUNNING_AND_WAITING_STATES, s)
  <2>1. Outcome(st, d, state, finishable, s)
    BY <1>1, SetState, StateFacts
  <2> QED BY <2>1 DEF finishable
<1>3. s.st \in CrawlStatus /\ s.db \in Document
  BY <1>2 DEF Outcome
<1>4. done \in CrawlStatus /\ done.state = s.st.state /\ done.finished = TRUE
  BY <1>3 DEF CrawlStatus
<1>5. s = [st |-> s.st, db |-> s.db, ok |-> s.ok]
  BY DEF set_state
<1>6. r.st = done /\ r.db = s.db /\ r.ok = s.ok
  BY <1>5 DEF mark_finished
<1>7. DocumentOver(s.db) \/ overtaken
  <2>1. CASE st.state \notin finishable
    <3>1. s.db = d
      BY <2>1 DEF set_state
    <3>2. st.finished
      BY <2>1, StateFacts DEF StatusOK, CrawlStatus, finishable
    <3> QED BY <3>1, <3>2 DEF StatusOK
  <2>2. CASE st.state \in finishable /\ matches(d, finishable)
    <3> DEFINE d2 == update_crawl_state_if_allowed(d, state, finishable, TRUE)
    <3>1. s.db = d2
      BY <2>2 DEF set_state
    <3>2. state \in ALL_CRAWL_STATES
      BY StateFacts
    <3>3. DocumentOK(d2) /\ (matches(d, finishable) => d2.state = state)
      BY <1>1, <3>2, UpdateDocument
    <3> QED BY <2>2, <3>1, <3>3 DEF DocumentOK, DocumentOver
  <2>3. CASE st.state \in finishable /\ ~matches(d, finishable)
    <3>1. s.db = d
      BY <2>3 DEF set_state, update_crawl_state_if_allowed
    <3> QED BY <2>3, <3>1, StateFacts
            DEF matches, finishable, Document, DocumentOK, DocumentOver
  <2> QED BY <2>1, <2>2, <2>3
<1> QED BY <1>2, <1>4, <1>6, <1>7 DEF Outcome

\* Leaving a waiting state for "starting".
LEMMA Leave ==
  ASSUME NEW st \in CrawlStatus, NEW d \in Document, StatusOK(st, d), DocumentOK(d),
         NEW waiting \in RUNNING_AND_WAITING_STATES
  PROVE  LET r == leave(st, d, waiting)
         IN  /\ Outcome(st, d, "starting", {waiting}, r)
             /\ StatusOK(r.st, r.db)
<1> DEFINE r == leave(st, d, waiting)
<1>1. "starting" \in RUNNING_AND_WAITING_STATES
  BY DEF RUNNING_AND_WAITING_STATES, WAITING_STATES, WAITING_NOT_PAUSED_STATES
<1>2. Outcome(st, d, "starting", {waiting}, r)
  <2>1. CASE st.state = waiting
    BY <1>1, <2>1, SetState, StateFacts DEF leave
  <2>2. CASE st.state # waiting
    BY <2>2 DEF leave, Outcome, StatusOK
  <2> QED BY <2>1, <2>2
<1> QED BY <1>1, <1>2, StateFacts DEF Outcome, StatusOK
-----------------------------------------------------------------------------
(***************************************************************************)
(* The inductive invariant.                                                *)
(***************************************************************************)

\* finalize_response answers only for a status that is finished.
FinalAnswer == sync.pc = "answer" /\ sync.answer = "final" => sync.st.finished

\* While the document has yet to be added there is none, and nobody deletes it.
AddingNone == api.run = "adding" => db.state = None /\ api.pc = "idle"

\* A coroutine exists only when the document is over, with the state it has.
TasksFollowDocument ==
  /\ hist.started = 0 => tasks = {} /\ hist.notified = {}
  /\ ~overtaken /\ hist.started > 0 => DocumentOver(db)
  /\ ~overtaken /\ db.state # None => \A t \in tasks : t.state = db.state

\* The inductive invariant.
Inv ==
  /\ TypeOK
  /\ DocumentOK(db) /\ StatusOK(status, db) /\ StatusOK(sync.st, db)
  /\ FinalAnswer /\ AddingNone
  /\ GoneOnlyWhenOver
  /\ TasksFollowDocument /\ TasksStartedOnce /\ NotifiedIsStored

\* What every step does to a document that is over, but for adding one; and no other
\* step has to do with the adding.
Settled ==
  /\ DocumentOver(db) => db' = db \/ db'.state = None
  /\ api'.run = api.run

\* The state of the document changes as the abstract specification allows.
Allowed(d, d2) ==
  d2.state # d.state =>
    d2.state \in ALL_CRAWL_STATES /\ d.state \in Lifecycle!allowed_from(d2.state)

\* What every step is to those who look at the crawl from outside.
Lawful == [Lifecycle!Next]_(Lifecycle!crawl)

\* The states the abstract specification speaks of are the same.
LEMMA SameStates ==
  /\ Lifecycle!None = None
  /\ Lifecycle!RUNNING_AND_STARTING_ONLY = RUNNING_AND_STARTING_ONLY
  /\ Lifecycle!RUNNING_AND_WAITING_STATES = RUNNING_AND_WAITING_STATES
  /\ Lifecycle!NON_RUNNING_STATES = NON_RUNNING_STATES
  /\ Lifecycle!ALL_CRAWL_STATES = ALL_CRAWL_STATES
<1>1. Lifecycle!None = None
  BY DEF None, Lifecycle!None
<1>2. Lifecycle!RUNNING_STATES = RUNNING_STATES
  BY DEF RUNNING_STATES, Lifecycle!RUNNING_STATES
<1>3. Lifecycle!WAITING_STATES = WAITING_STATES
  BY DEF WAITING_STATES, PAUSED_STATES, AUTO_PAUSED_STATES, WAITING_NOT_PAUSED_STATES,
         Lifecycle!WAITING_STATES, Lifecycle!PAUSED_STATES, Lifecycle!AUTO_PAUSED_STATES,
         Lifecycle!WAITING_NOT_PAUSED_STATES
<1>4. Lifecycle!NON_RUNNING_STATES = NON_RUNNING_STATES
  BY DEF NON_RUNNING_STATES, FAILED_STATES, SUCCESSFUL_STATES,
         Lifecycle!NON_RUNNING_STATES, Lifecycle!FAILED_STATES, Lifecycle!SUCCESSFUL_STATES
<1> QED BY <1>1, <1>2, <1>3, <1>4
        DEF RUNNING_AND_STARTING_ONLY, RUNNING_AND_WAITING_STATES, ALL_CRAWL_STATES,
            Lifecycle!RUNNING_AND_STARTING_ONLY, Lifecycle!RUNNING_AND_WAITING_STATES,
            Lifecycle!ALL_CRAWL_STATES

\* From where the operator sets each state.
LEMMA AllowedFrom ==
  /\ Lifecycle!allowed_from("starting") = {"waiting_org_limit", "waiting_dedupe_index"}
  /\ Lifecycle!allowed_from("waiting_org_limit") = {"starting"}
  /\ Lifecycle!allowed_from("waiting_dedupe_index") = {"starting", "waiting_org_limit"}
  /\ Lifecycle!allowed_from("waiting_capacity") = RUNNING_AND_STARTING_ONLY
  /\ \A s \in ALL_CRAWL_STATES \ WAITING_NOT_PAUSED_STATES :
       Lifecycle!allowed_from(s) = RUNNING_AND_WAITING_STATES
BY SameStates DEF Lifecycle!allowed_from, WAITING_NOT_PAUSED_STATES

\* A final state may be set from every active state.
LEMMA AllowedFinal ==
  \A s \in NON_RUNNING_STATES :
    s \in ALL_CRAWL_STATES /\ Lifecycle!allowed_from(s) = RUNNING_AND_WAITING_STATES
BY StateFacts, AllowedFrom DEF RUNNING_AND_WAITING_STATES, WAITING_STATES

\* A step that neither announces anything nor removes the job is lawful when it
\* leaves the state alone, deletes the document, or sets a state as allowed.
LEMMA LawfulMove ==
  ASSUME Inv, db'.state = None \/ Allowed(db, db'), DocumentOK(db),
         DocumentOver(db) => db' = db \/ db'.state = None,
         hist'.notified = hist.notified, (job' = "gone") = (job = "gone"), api'.run = api.run
  PROVE  Lawful
<1>1. CASE db'.state = None /\ db'.state # db.state
  <2>1. api.run # "adding"
    BY <1>1 DEF Inv, AddingNone
  <2> QED BY <1>1, <2>1, SameStates DEF Lawful, Lifecycle!Next, Lifecycle!Delete
<1>2. CASE db'.state = db.state
  BY <1>2 DEF Lawful, Lifecycle!crawl
<1>3. CASE db'.state # db.state /\ db'.state # None
  <2>1. job # "gone" \/ overtaken
    BY <1>3 DEF Inv, GoneOnlyWhenOver, over, DocumentOver
  <2>2. db'.state \in ALL_CRAWL_STATES /\ db.state \in Lifecycle!allowed_from(db'.state)
    BY <1>3 DEF Allowed
  <2>3. Lifecycle!SetState(db'.state)
    BY <2>1, <2>2 DEF Lifecycle!SetState, Lifecycle!overtaken
  <2> QED BY <2>2, <2>3, SameStates DEF Lawful, Lifecycle!Next
<1> QED BY <1>1, <1>2, <1>3

\* A request goes on to its next part.
LEMMA GotoRequest ==
  ASSUME sync \in Request, NEW st \in CrawlStatus,
         NEW pc \in {"state", "files", "add", "update", "paused"}, Goto(pc, st)
  PROVE  sync' \in Request /\ sync'.st = st /\ sync'.pc # "answer"
BY DEF Goto, Request

\* A request is about to be answered.
LEMMA AnswerRequest ==
  ASSUME sync \in Request, NEW st \in CrawlStatus, NEW kind \in {"run", "empty", "final"},
         Answer(kind, st)
  PROVE  sync' \in Request /\ sync'.st = st /\ sync'.answer = kind
BY DEF Answer, Request

\* Starting do_crawl_finished_tasks keeps the types.
LEMMA StartTasksType ==
  ASSUME tasks \in SUBSET Task, hist \in History, NEW ok \in BOOLEAN, NEW state,
         ok => state \in NON_RUNNING_STATES, StartTasks(ok, state)
  PROVE  tasks' \in SUBSET Task /\ hist' \in History
<1>1. ok => NewTask(state) \in Task
  BY DEF NewTask, History, Task
<1>2. ok => [hist EXCEPT !.started = @ + 1] \in History
  BY DEF History
<1> QED BY <1>1, <1>2 DEF StartTasks

\* What a step of a request has to show about the document and the status it works
\* on, and about the coroutine it starts, for the invariant to be kept.
LEMMA RequestStep ==
  ASSUME Inv, NEW ok \in BOOLEAN, NEW state,
         job' = job, spec' = spec, status' = status, pod' = pod, volume' = volume,
         pvc' = pvc, api' = api,
         files' \in Files, redis' \in Redis, async' \in SUBSET {"delete", "pause"},
         db' \in Document, DocumentOK(db)', DocumentOver(db) => db' = db, Allowed(db, db'),
         sync' \in Request, StatusOK(sync.st, db)', FinalAnswer',
         StartTasks(ok, state),
         ok => /\ state \in NON_RUNNING_STATES
               /\ db.state = None \/ (~DocumentOver(db) /\ db'.state = state)
  PROVE  Inv' /\ Settled /\ Lawful
<1>1. TypeOK'
  BY StartTasksType DEF Inv, TypeOK
<1>2. StatusOK(status, db)' /\ GoneOnlyWhenOver' /\ AddingNone'
  BY DEF Inv, StatusOK, GoneOnlyWhenOver, over, DocumentOver, AddingNone
<1>l. Lawful
  <2>1. hist'.notified = hist.notified
    BY DEF StartTasks, Inv, TypeOK, History
  <2> QED BY <2>1, LawfulMove DEF Inv
<1>3. CASE ~ok
  <2>1. tasks' = tasks /\ hist' = hist
    BY <1>3 DEF StartTasks
  <2>2. ~DocumentOver(db) /\ ~overtaken =>
          hist.started = 0 /\ tasks = {} /\ hist.notified = {}
    BY DEF Inv, TypeOK, History, TasksFollowDocument
  <2>3. TasksFollowDocument' /\ TasksStartedOnce' /\ NotifiedIsStored'
    BY <2>1, <2>2 DEF Inv, TasksFollowDocument, TasksStartedOnce, NotifiedIsStored
  <2> QED BY <1>1, <1>2, <1>l, <2>3 DEF Inv, Settled
<1>4. CASE ok
  <2>0. hist \in History
    BY DEF Inv, TypeOK
  <2>1. /\ tasks' = tasks \cup {NewTask(state)} /\ NewTask(state).state = state
        /\ hist'.started = hist.started + 1 /\ hist'.notified = hist.notified
    BY <1>4, <2>0 DEF StartTasks, NewTask, History
  <2>2. DocumentOver(db)'
    BY <1>4 DEF DocumentOK, DocumentOver
  <2>3. CASE db.state = None
    <3>1. db'.state = None
      BY <2>3 DEF DocumentOver
    <3>2. TasksFollowDocument' /\ TasksStartedOnce' /\ NotifiedIsStored'
      BY <2>0, <2>1, <2>2, <3>1
         DEF TasksFollowDocument, TasksStartedOnce, NotifiedIsStored, History
    <3> QED BY <1>1, <1>2, <1>l, <3>2 DEF Inv, Settled
  <2>4. CASE db.state # None
    <3>1. ~DocumentOver(db) /\ db'.state = state
      BY <1>4, <2>4
    <3>2. ~overtaken => hist.started = 0 /\ tasks = {} /\ hist.notified = {}
      BY <2>0, <3>1 DEF Inv, History, TasksFollowDocument
    <3>3. hist'.started # 0 /\ (~overtaken => hist'.started <= 1)
      BY <2>0, <2>1, <3>2 DEF History
    <3>4. TasksFollowDocument' /\ TasksStartedOnce' /\ NotifiedIsStored'
      BY <2>1, <2>2, <3>1, <3>2, <3>3
         DEF TasksFollowDocument, TasksStartedOnce, NotifiedIsStored
    <3> QED BY <1>1, <1>2, <1>l, <3>4 DEF Inv, Settled
  <2> QED BY <2>3, <2>4
<1> QED BY <1>3, <1>4

-----------------------------------------------------------------------------
\* The facts about a request, the document and the types the steps below use.
LEMMA RequestFacts ==
  ASSUME Inv
  PROVE  /\ sync \in Request /\ sync.st \in CrawlStatus /\ db \in Document
         /\ files \in Files /\ redis \in Redis /\ async \in SUBSET {"delete", "pause"}
         /\ tasks \in SUBSET Task /\ hist \in History
         /\ StatusOK(sync.st, db) /\ DocumentOK(db)
BY DEF Inv, TypeOK, Request

\* A step that starts no coroutine.
LEMMA NoTasks == (tasks' = tasks /\ hist' = hist) => \A state : StartTasks(FALSE, state)
BY DEF StartTasks

\* The job is being deleted: cancel_crawl.
LEMMA FinalizeStep ==
  ASSUME Inv, SyncFinalize
  PROVE  Inv' /\ Settled /\ Lawful
<1> DEFINE r == IF sync.st.finished THEN [st |-> sync.st, db |-> db, ok |-> FALSE]
                ELSE mark_finished(sync.st, db, "canceled")
<1>1. "canceled" \in NON_RUNNING_STATES
  BY DEF NON_RUNNING_STATES, FAILED_STATES
<1>2. Outcome(sync.st, db, "canceled", RUNNING_AND_WAITING_STATES, r) /\ r.st.finished
  <2>1. CASE sync.st.finished
    BY <2>1, RequestFacts DEF Outcome, StatusOK
  <2>2. CASE ~sync.st.finished
    BY <1>1, <2>2, RequestFacts, MarkFinished
  <2> QED BY <2>1, <2>2
<1>3. /\ db' = r.db /\ StartTasks(r.ok, "canceled") /\ Answer("final", r.st)
      /\ UNCHANGED <<job, spec, status, files, cluster, async, api>>
  BY DEF SyncFinalize
<1>4. sync' \in Request /\ sync'.st = r.st
  BY <1>2, <1>3, AnswerRequest, RequestFacts DEF Outcome
<1>5. StatusOK(sync.st, db)' /\ FinalAnswer'
  BY <1>2, <1>3, <1>4 DEF Outcome, StatusOK, FinalAnswer
<1> HIDE DEF r
<1>6. Allowed(db, db')
  BY <1>1, <1>2, <1>3, AllowedFinal DEF Outcome, Allowed
<1> QED BY <1>1, <1>2, <1>3, <1>4, <1>5, <1>6, RequestFacts, RequestStep
        DEF Outcome, DocumentOK, cluster

\* The quota is reached before the crawl starts.
LEMMA SkipStep ==
  ASSUME Inv, NEW state \in {"skipped_storage_quota_reached", "skipped_time_quota_reached"},
         SyncSkip(state)
  PROVE  Inv' /\ Settled /\ Lawful
<1> DEFINE r == mark_finished(sync.st, db, state)
<1>1. state \in NON_RUNNING_STATES
  BY DEF NON_RUNNING_STATES, FAILED_STATES
<1>2. Outcome(sync.st, db, state, RUNNING_AND_WAITING_STATES, r) /\ r.st.finished
  BY <1>1, RequestFacts, MarkFinished
<1>3. /\ db' = r.db /\ StartTasks(r.ok, state) /\ Answer("empty", r.st)
      /\ UNCHANGED <<job, spec, status, files, cluster, async, api>>
  BY DEF SyncSkip
<1>4. sync' \in Request /\ sync'.st = r.st
  BY <1>2, <1>3, AnswerRequest, RequestFacts DEF Outcome
<1>5. StatusOK(sync.st, db)' /\ FinalAnswer'
  BY <1>2, <1>3, <1>4 DEF Outcome, StatusOK, FinalAnswer
<1> HIDE DEF r
<1>6. Allowed(db, db')
  BY <1>1, <1>2, <1>3, AllowedFinal DEF Outcome, Allowed
<1> QED BY <1>1, <1>2, <1>3, <1>4, <1>5, <1>6, RequestFacts, RequestStep
        DEF Outcome, DocumentOK, cluster

\* A paused crawl is stopped or expires.
LEMMA PausedStep ==
  ASSUME Inv, NEW expired \in BOOLEAN, SyncPaused(expired)
  PROVE  Inv' /\ Settled /\ Lawful
<1> DEFINE state == paused_end(sync.spec, expired)
           st == [sync.st EXCEPT !.stopping = TRUE, !.stopReason = state]
           r == IF state = None THEN [st |-> sync.st, db |-> db, ok |-> FALSE]
                ELSE mark_finished(st, db, state)
<1>1. /\ state \in {None, "stopped_pause_expired", "stopped_by_user"}
  BY DEF paused_end
<1>2. state = None \/ (state \in NON_RUNNING_STATES /\ state \in StopReason)
  BY <1>1 DEF NON_RUNNING_STATES, SUCCESSFUL_STATES, StopReason
<1>3. Outcome(sync.st, db, state, RUNNING_AND_WAITING_STATES, r) /\ StatusOK(r.st, r.db)
  <2>1. CASE state = None
    BY <2>1, RequestFacts DEF Outcome, StatusOK
  <2>2. CASE state # None
    <3>1. /\ st \in CrawlStatus
          /\ st.state = sync.st.state /\ st.finished = sync.st.finished
      BY <1>2, <2>2, RequestFacts DEF CrawlStatus
    <3>2. StatusOK(st, db)
      BY <3>1, RequestFacts DEF StatusOK
    <3>3. Outcome(st, db, state, RUNNING_AND_WAITING_STATES, r) /\ r.st.finished
      BY <1>2, <2>2, <3>1, <3>2, RequestFacts, MarkFinished
    <3> QED BY <3>3 DEF Outcome, StatusOK
  <2> QED BY <2>1, <2>2
<1>4. /\ db' = r.db /\ StartTasks(r.ok, state) /\ Answer("run", r.st)
      /\ UNCHANGED <<job, spec, status, files, cluster, async, api>>
  BY DEF SyncPaused
<1>5. sync' \in Request /\ sync'.st = r.st /\ sync'.answer = "run"
  BY <1>3, <1>4, AnswerRequest, RequestFacts DEF Outcome
<1>6. StatusOK(sync.st, db)' /\ FinalAnswer'
  BY <1>3, <1>4, <1>5 DEF StatusOK, FinalAnswer
<1>7. r.ok => state \in NON_RUNNING_STATES
  BY <1>2
<1>8. state = None => db' = db
  BY <1>4
<1> HIDE DEF r, state
<1>9. Allowed(db, db')
  BY <1>2, <1>3, <1>4, <1>8, AllowedFinal DEF Outcome, Allowed
<1> QED BY <1>3, <1>4, <1>5, <1>6, <1>7, <1>9, RequestFacts, RequestStep
        DEF Outcome, DocumentOK, cluster

\* The waiting states used below are active states.
LEMMA WaitingStates ==
  /\ {"starting", "waiting_org_limit", "waiting_dedupe_index", "waiting_capacity"}
       \subseteq RUNNING_AND_WAITING_STATES
  /\ RUNNING_AND_STARTING_ONLY \subseteq RUNNING_AND_WAITING_STATES
BY DEF RUNNING_AND_WAITING_STATES, WAITING_STATES, WAITING_NOT_PAUSED_STATES,
       RUNNING_AND_STARTING_ONLY

\* set_state to a state that is not final.
LEMMA SetWaiting ==
  ASSUME NEW st \in CrawlStatus, NEW d \in Document, StatusOK(st, d), DocumentOK(d),
         NEW state \in RUNNING_AND_WAITING_STATES,
         NEW from \in SUBSET RUNNING_AND_WAITING_STATES
  PROVE  LET r == set_state(st, d, state, from, FALSE)
         IN  Outcome(st, d, state, from, r) /\ StatusOK(r.st, r.db)
<1> DEFINE r == set_state(st, d, state, from, FALSE)
<1>1. Outcome(st, d, state, from, r)
  BY SetState, StateFacts
<1> QED BY <1>1, StateFacts DEF Outcome, StatusOK

\* can_start_new is false.
LEMMA OrgLimitStep ==
  ASSUME Inv, SyncAtOrgLimit
  PROVE  Inv' /\ Settled /\ Lawful
<1> DEFINE r == set_state(sync.st, db, "waiting_org_limit", {"starting"}, FALSE)
<1>1. Outcome(sync.st, db, "waiting_org_limit", {"starting"}, r) /\ StatusOK(r.st, r.db)
  BY RequestFacts, SetWaiting, WaitingStates
<1>2. /\ db' = r.db /\ Answer("empty", r.st)
      /\ UNCHANGED <<job, spec, status, files, cluster, tasks, async, api, hist>>
  BY DEF SyncAtOrgLimit
<1>3. sync' \in Request /\ sync'.st = r.st /\ sync'.answer = "empty"
  BY <1>1, <1>2, AnswerRequest, RequestFacts DEF Outcome
<1>4. StatusOK(sync.st, db)' /\ FinalAnswer' /\ StartTasks(FALSE, None)
  BY <1>1, <1>2, <1>3, NoTasks DEF StatusOK, FinalAnswer
<1> HIDE DEF r
<1>5. Allowed(db, db')
  BY <1>1, <1>2, AllowedFrom, WaitingStates, StateFacts DEF Outcome, Allowed
<1> QED BY <1>1, <1>2, <1>3, <1>4, <1>5, RequestFacts, RequestStep
        DEF Outcome, DocumentOK, cluster

\* The dedupe index is not ready.
LEMMA AwaitIndexStep ==
  ASSUME Inv, SyncAwaitIndex
  PROVE  Inv' /\ Settled /\ Lawful
<1> DEFINE r1 == leave(sync.st, db, "waiting_org_limit")
           r == set_state(r1.st, r1.db, "waiting_dedupe_index", {"starting"}, FALSE)
<1>1. Outcome(sync.st, db, "starting", {"waiting_org_limit"}, r1) /\ StatusOK(r1.st, r1.db)
  BY RequestFacts, Leave, WaitingStates
<1>2. Outcome(r1.st, r1.db, "waiting_dedupe_index", {"starting"}, r) /\ StatusOK(r.st, r.db)
  <2> HIDE DEF r1
  <2>1. r1.st \in CrawlStatus /\ r1.db \in Document /\ DocumentOK(r1.db)
    BY <1>1 DEF Outcome
  <2>2. /\ "waiting_dedupe_index" \in RUNNING_AND_WAITING_STATES
        /\ {"starting"} \in SUBSET RUNNING_AND_WAITING_STATES
    BY WaitingStates
  <2> QED BY <1>1, <2>1, <2>2, SetWaiting
<1>3. /\ db' = r.db /\ Answer("empty", r.st)
      /\ UNCHANGED <<job, spec, status, files, cluster, tasks, async, api, hist>>
  BY DEF SyncAwaitIndex
<1> HIDE DEF r, r1
<1>4. sync' \in Request /\ sync'.st = r.st /\ sync'.answer = "empty"
  BY <1>2, <1>3, AnswerRequest, RequestFacts DEF Outcome
<1>5. StatusOK(sync.st, db)' /\ FinalAnswer' /\ StartTasks(FALSE, None)
  BY <1>2, <1>3, <1>4, NoTasks DEF StatusOK, FinalAnswer
<1>6. DocumentOver(db) => db' = db
  BY <1>1, <1>2, <1>3 DEF Outcome
<1>7. Allowed(db, db')
  BY <1>1, <1>2, <1>3, AllowedFrom, WaitingStates, StateFacts DEF Outcome, Allowed
<1> QED BY <1>2, <1>3, <1>4, <1>5, <1>6, <1>7, RequestFacts, RequestStep
        DEF Outcome, DocumentOK, cluster

\* The crawl is admitted.
LEMMA AdmittedStep ==
  ASSUME Inv, SyncAdmitted
  PROVE  Inv' /\ Settled /\ Lawful
<1> DEFINE r1 == leave(sync.st, db, "waiting_org_limit")
           r == leave(r1.st, r1.db, "waiting_dedupe_index")
           paused == is_paused(sync.spec, r.st)
           st == [r.st EXCEPT !.rateLimited = @ /\ ~paused /\ r.st.state # "running"]
<1>1. Outcome(sync.st, db, "starting", {"waiting_org_limit"}, r1) /\ StatusOK(r1.st, r1.db)
  BY RequestFacts, Leave, WaitingStates
<1>2. Outcome(r1.st, r1.db, "starting", {"waiting_dedupe_index"}, r) /\ StatusOK(r.st, r.db)
  <2> HIDE DEF r1
  <2> QED BY <1>1, Leave, WaitingStates DEF Outcome
<1>3. /\ db' = r.db
      /\ sync' = [sync EXCEPT !.pc = "state", !.isPaused = paused, !.st = st]
      /\ UNCHANGED <<job, spec, status, files, cluster, tasks, async, api, hist>>
  BY DEF SyncAdmitted
<1>4. paused \in BOOLEAN
  BY RequestFacts DEF is_paused, Request, CrawlSpec
<1> HIDE DEF r, r1, paused
<1>5. st \in CrawlStatus /\ st.state = r.st.state /\ st.finished = r.st.finished
  BY <1>2, <1>4 DEF Outcome, CrawlStatus
<1> HIDE DEF st
<1>6. sync' \in Request /\ sync'.st = st /\ sync'.pc = "state"
  BY <1>3, <1>4, <1>5, RequestFacts DEF Request
<1>7. StatusOK(sync.st, db)' /\ FinalAnswer' /\ StartTasks(FALSE, None)
  BY <1>2, <1>3, <1>5, <1>6, NoTasks DEF StatusOK, FinalAnswer
<1>8. DocumentOver(db) => db' = db
  BY <1>1, <1>2, <1>3 DEF Outcome
<1>9. Allowed(db, db')
  BY <1>1, <1>2, <1>3, AllowedFrom, WaitingStates, StateFacts DEF Outcome, Allowed
<1> QED BY <1>2, <1>3, <1>6, <1>7, <1>8, <1>9, RequestFacts, RequestStep
        DEF Outcome, DocumentOK, cluster

\* The last exit code is one the operator tells apart.
LEMMA LastExits ==
  ASSUME Inv, NEW code \in lastExits
  PROVE  code \in FailedExits \cup {"ok"}
<1>1. sync.pod \in [Pods -> PodPhase] /\ sync.st.lastExit \in FailedExits \cup {"ok"}
  BY RequestFacts DEF Request, CrawlStatus
<1> QED BY <1>1 DEF lastExits, FailedExits

\* No crawler is running or redis is not there.
LEMMA NoCrawlerStep ==
  ASSUME Inv, NEW late \in BOOLEAN, NEW idle \in BOOLEAN, SyncNoCrawler(late, idle)
  PROVE  Inv' /\ Settled /\ Lawful
<1>1. PICK code \in lastExits :
        LET st == [sync.st EXCEPT !.lastExit = code]
            r  == IF pod_done_count = 0 /\ should_mark_waiting(st.state, late)
                    THEN set_state(st, db, "waiting_capacity",
                                   RUNNING_AND_STARTING_ONLY, FALSE)
                    ELSE [st |-> st, db |-> db, ok |-> FALSE]
            st2 == [r.st EXCEPT !.initRedis =
                      IF crawler_running THEN TRUE
                      ELSE @ /\ ~(redis_connected /\ idle)]
        IN  /\ db' = r.db
            /\ IF st2.finished THEN Answer("final", st2) ELSE Goto("paused", st2)
  BY DEF SyncNoCrawler
<1> DEFINE st == [sync.st EXCEPT !.lastExit = code]
           r  == IF pod_done_count = 0 /\ should_mark_waiting(st.state, late)
                   THEN set_state(st, db, "waiting_capacity",
                                  RUNNING_AND_STARTING_ONLY, FALSE)
                   ELSE [st |-> st, db |-> db, ok |-> FALSE]
           up == IF crawler_running THEN TRUE
                 ELSE r.st.initRedis /\ ~(redis_connected /\ idle)
           st2 == [r.st EXCEPT !.initRedis = up]
<1>2. db' = r.db /\ IF st2.finished THEN Answer("final", st2) ELSE Goto("paused", st2)
  BY <1>1
<1>3. /\ UNCHANGED <<job, spec, status, files, pod, volume, pvc, tasks, async, api, hist>>
      /\ redis' = [redis EXCEPT !.paused = FALSE] \/ redis' = redis
  BY DEF SyncNoCrawler
<1>4. redis' \in Redis
  BY <1>3, RequestFacts DEF Redis
<1>5. /\ st \in CrawlStatus /\ st.state = sync.st.state /\ st.finished = sync.st.finished
  BY LastExits, RequestFacts DEF CrawlStatus
<1>6. StatusOK(st, db)
  BY <1>5, RequestFacts DEF StatusOK
<1> HIDE DEF st
<1>7. Outcome(st, db, "waiting_capacity", RUNNING_AND_STARTING_ONLY, r) /\ StatusOK(r.st, r.db)
  <2>1. CASE pod_done_count = 0 /\ should_mark_waiting(st.state, late)
    BY <1>5, <1>6, <2>1, RequestFacts, SetWaiting, WaitingStates
  <2>2. CASE ~(pod_done_count = 0 /\ should_mark_waiting(st.state, late))
    BY <1>5, <1>6, <2>2, RequestFacts DEF Outcome, StatusOK
  <2> QED BY <2>1, <2>2
<1> HIDE DEF r
<1>8. up \in BOOLEAN
  BY <1>7 DEF Outcome, CrawlStatus, crawler_running, redis_connected
<1> HIDE DEF up
<1>9. st2 \in CrawlStatus /\ st2.state = r.st.state /\ st2.finished = r.st.finished
  BY <1>7, <1>8 DEF Outcome, CrawlStatus
<1> HIDE DEF st2
<1>10. /\ sync' \in Request /\ sync'.st = st2
       /\ FinalAnswer'
  BY <1>2, <1>9, AnswerRequest, GotoRequest, RequestFacts DEF FinalAnswer
<1>11. StatusOK(sync.st, db)' /\ StartTasks(FALSE, None)
  BY <1>2, <1>3, <1>7, <1>9, <1>10, NoTasks DEF StatusOK
<1>12. Allowed(db, db')
  BY <1>2, <1>7, AllowedFrom, WaitingStates, StateFacts DEF Outcome, Allowed
<1> QED BY <1>2, <1>3, <1>4, <1>7, <1>10, <1>11, <1>12, RequestFacts, RequestStep
        DEF Outcome, DocumentOK

\* is_crawl_stopping returns a StopReason or None.
LEMMA StopReasons ==
  ASSUME NEW s \in CrawlSpec, NEW stopReason, NEW cond \in Conditions
  PROVE  is_crawl_stopping(s, stopReason, cond) \in StopReason \cup {None}
BY DEF is_crawl_stopping, StopReason, PAUSED_STATES, AUTO_PAUSED_STATES, Conditions,
       CrawlSpec, None

\* update_crawl_state asks for a crawl state, and for none of the waiting states at
\* the start, whatever the pods report.
LEMMA RequestedState ==
  ASSUME NEW st, NEW failed \in {"failed", "failed_not_logged_in"}
  PROVE  update_crawl_state(st, failed) \in ALL_CRAWL_STATES \ WAITING_NOT_PAUSED_STATES
<1> DEFINE S == ALL_CRAWL_STATES \ WAITING_NOT_PAUSED_STATES
<1> USE DEF ALL_CRAWL_STATES, RUNNING_AND_WAITING_STATES, NON_RUNNING_STATES,
            WAITING_NOT_PAUSED_STATES
<1>1. {failed, "canceled"} \subseteq S
  BY DEF FAILED_STATES
<1>2. "rate-limited" \in S
  BY DEF RUNNING_STATES
<1>3. paused_state(st.stopReason) \in S
  BY DEF paused_state, WAITING_STATES, PAUSED_STATES, AUTO_PAUSED_STATES
<1>4. completed_state(st.stopReason) \in S
  BY DEF completed_state, SUCCESSFUL_STATES
<1>5. \A reports : running_state(reports) \in S
  BY DEF running_state, RUNNING_STATES
<1> HIDE DEF S
<1>6. update_crawl_state(st, failed) \in S
  BY <1>1, <1>2, <1>3, <1>4, <1>5 DEF update_crawl_state
<1> QED BY <1>6 DEF S

\* update_crawl_state: whatever the pods report and whichever limit is reached.
LEMMA UpdateStep ==
  ASSUME Inv, NEW cond \in Conditions, NEW failed \in {"failed", "failed_not_logged_in"},
         SyncUpdate(cond, failed)
  PROVE  Inv' /\ Settled /\ Lawful
<1> DEFINE resumed == sync.st.stopReason \in PAUSED_STATES /\ ~sync.spec.paused
           st1 == [sync.st EXCEPT
                     !.pagesFound = redis.found,
                     !.sizePending = volume,
                     !.stopReason = IF resumed THEN None ELSE @,
                     !.stopping = @ /\ ~resumed]
           reason == is_crawl_stopping(sync.spec, st1.stopReason, cond)
           st2 == IF st1.stopping THEN st1
                  ELSE [st1 EXCEPT !.stopReason = reason, !.stopping = reason # None]
           state == update_crawl_state(st2, failed)
           crashed == allCrashed /\ st2.lastExit \in {"fatal", "limited"}
           r == IF state \in NON_RUNNING_STATES
                  THEN mark_finished(st2, db, state)
                  ELSE set_state(st2, db, state, RUNNING_AND_WAITING_STATES, FALSE)
           st3 == [r.st EXCEPT !.rateLimited = @ \/ (r.ok /\ state = "rate-limited")]
           ok == r.ok /\ state \in NON_RUNNING_STATES
<1>1. /\ db' = r.db
      /\ StartTasks(ok, state)
      /\ IF st3.finished THEN Answer("final", st3) ELSE Goto("paused", st3)
      /\ UNCHANGED <<job, spec, status, files, pod, volume, pvc, api>>
  BY DEF SyncUpdate
<1>2. redis' \in Redis
  <2>1. \E p, s \in BOOLEAN : redis' = [redis EXCEPT !.paused = p, !.stopping = s]
    <3> DEFINE p == (redis.paused /\ ~resumed)
                    \/ (~crashed /\ st2.stopping /\ st2.stopReason \in PAUSED_STATES)
               s == redis.stopping \/ (~crashed /\ st2.stopping
                                       /\ st2.stopReason \notin PAUSED_STATES)
    <3>1. redis' = [redis EXCEPT !.paused = p, !.stopping = s]
      BY DEF SyncUpdate
    <3>2. p \in BOOLEAN /\ s \in BOOLEAN
      OBVIOUS
    <3> HIDE DEF p, s
    <3> QED BY <3>1, <3>2
  <2> QED BY <2>1, RequestFacts DEF Redis
<1>3. async' \in SUBSET {"delete", "pause"}
  BY RequestFacts DEF SyncUpdate
<1>4. /\ redis.found \in 0..MaxPages /\ volume \in SUBSET Pods
      /\ sync.spec \in CrawlSpec /\ sync.st \in CrawlStatus
  BY DEF Inv, TypeOK, Redis, Request
<1>5. resumed \in BOOLEAN
  BY <1>4 DEF CrawlSpec
<1> HIDE DEF resumed
<1>6. st1 \in CrawlStatus /\ st1.state = sync.st.state /\ st1.finished = sync.st.finished
  BY <1>4, <1>5 DEF CrawlStatus
<1> HIDE DEF st1
<1>7. reason \in StopReason \cup {None}
  BY <1>4, StopReasons
<1> HIDE DEF reason
<1>8. st2 \in CrawlStatus /\ st2.state = sync.st.state /\ st2.finished = sync.st.finished
  BY <1>6, <1>7 DEF CrawlStatus
<1>9. StatusOK(st2, db)
  BY <1>8, RequestFacts DEF StatusOK
<1> HIDE DEF st2
<1>10. state \in ALL_CRAWL_STATES \ WAITING_NOT_PAUSED_STATES
  BY RequestedState
<1> HIDE DEF state
<1>11. Outcome(st2, db, state, RUNNING_AND_WAITING_STATES, r) /\ StatusOK(r.st, r.db)
  <2>1. CASE state \in NON_RUNNING_STATES
    <3>1. Outcome(st2, db, state, RUNNING_AND_WAITING_STATES, r) /\ r.st.finished
      BY <1>8, <1>9, <2>1, MarkFinished, RequestFacts
    <3> QED BY <3>1 DEF Outcome, StatusOK
  <2>2. CASE state \notin NON_RUNNING_STATES
    <3>1. state \in RUNNING_AND_WAITING_STATES
      BY <1>10, <2>2, StateFacts
    <3> QED BY <1>8, <1>9, <2>2, <3>1, SetWaiting, RequestFacts
  <2> QED BY <2>1, <2>2
<1> HIDE DEF r
<1>12. st3 \in CrawlStatus /\ st3.state = r.st.state /\ st3.finished = r.st.finished
  BY <1>11 DEF Outcome, CrawlStatus
<1>13. ok \in BOOLEAN /\ (ok => r.ok /\ state \in NON_RUNNING_STATES)
  BY <1>11 DEF Outcome
<1> HIDE DEF st3, ok
<1>14. sync' \in Request /\ sync'.st = st3 /\ FinalAnswer'
  BY <1>1, <1>12, AnswerRequest, GotoRequest, RequestFacts DEF FinalAnswer
<1>15. StatusOK(sync.st, db)'
  BY <1>1, <1>11, <1>12, <1>14 DEF StatusOK
<1>16. Allowed(db, db')
  BY <1>1, <1>10, <1>11, AllowedFrom DEF Outcome, Allowed
<1> QED BY <1>1, <1>2, <1>3, <1>11, <1>13, <1>14, <1>15, <1>16, RequestFacts, RequestStep
        DEF Outcome, DocumentOK

\* A step that leaves the document alone, starts no coroutine and announces nothing.
LEMMA QuietStep ==
  ASSUME Inv, TypeOK', db' = db,
         StatusOK(status, db)', StatusOK(sync.st, db)', FinalAnswer',
         job = "gone" => job' = "gone",
         job' = "gone" => job = "gone" \/ DocumentOver(db) \/ overtaken,
         \A t \in tasks' : \E u \in tasks : t.state = u.state,
         hist'.started = hist.started, hist'.notified = hist.notified, api' = api
  PROVE  Inv' /\ Settled /\ Lawful
<1>1. GoneOnlyWhenOver' /\ AddingNone'
  BY DEF Inv, GoneOnlyWhenOver, over, DocumentOver, AddingNone
<1>2. TasksFollowDocument' /\ TasksStartedOnce' /\ NotifiedIsStored'
  BY DEF Inv, TasksFollowDocument, TasksStartedOnce, NotifiedIsStored, DocumentOver
<1>3. Lawful
  <2>1. CASE job' = "gone" /\ job # "gone"
    <3>1. db.state \in NON_RUNNING_STATES \cup {None} \/ overtaken
      BY <2>1 DEF Inv, DocumentOK, DocumentOver
    <3> QED BY <2>1, <3>1, SameStates
            DEF Lawful, Lifecycle!Next, Lifecycle!Remove, Lifecycle!overtaken
  <2>2. CASE ~(job' = "gone" /\ job # "gone")
    BY <2>2, LawfulMove DEF Inv, Allowed
  <2> QED BY <2>1, <2>2
<1> QED BY <1>1, <1>2, <1>3 DEF Inv, Settled, DocumentOK

\* No request in flight.
LEMMA Idle ==
  /\ IdleSync \in Request /\ IdleSync.pc = "idle"
  /\ \A d : StatusOK(IdleSync.st, d)
<1>1. "starting" \in ALL_CRAWL_STATES /\ "starting" \notin NON_RUNNING_STATES
  BY WaitingStates, StateFacts
<1>2. InitialStatus \in CrawlStatus
  BY <1>1, MaxPagesAssumption DEF InitialStatus, CrawlStatus, None
<1>3. IdleSync \in Request
  BY <1>2 DEF IdleSync, Request, CrawlSpec, PodPhase, RedisPhase
<1>4. \A d : StatusOK(IdleSync.st, d)
  BY <1>1 DEF IdleSync, InitialStatus, StatusOK
<1> QED BY <1>3, <1>4 DEF IdleSync

\* The counts of files stay numbers.
LEMMA FilesUpdate ==
  ASSUME NEW f \in Files, NEW a \in Nat, NEW b \in Int
  PROVE  /\ [f EXCEPT !.db = a, !.org = b] \in Files
         /\ f.db \in Nat /\ f.org \in Int
BY DEF Files

\* The parts of a request that do not touch the document.
LEMMA OtherSyncStep ==
  ASSUME Inv, SyncBegin \/ SyncFinished \/ SyncNoPods \/ SyncCrawler \/ SyncPop
              \/ SyncAddFile \/ SyncDrained \/ SyncRedisError
  PROVE  Inv' /\ Settled /\ Lawful
<1>1. CASE SyncBegin
  <2>1. status \in CrawlStatus /\ pod \in [Pods -> PodPhase] /\ spec \in CrawlSpec
        /\ redis.pod \in RedisPhase /\ pvc \in BOOLEAN
    BY DEF Inv, TypeOK, Redis
  <2>2. sync' \in Request /\ sync'.st = status /\ sync'.pc = "start"
    BY <1>1, <2>1, Idle DEF SyncBegin, Request
  <2>3. TypeOK'
    BY <1>1, <2>2 DEF SyncBegin, cluster, Inv, TypeOK
  <2> QED BY <1>1, <2>2, <2>3, QuietStep DEF SyncBegin, Inv, StatusOK, FinalAnswer
<1>2. CASE SyncFinished
  <2>1. sync' \in Request /\ sync'.st = sync.st /\ sync.st.finished
    BY <1>2, AnswerRequest, RequestFacts DEF SyncFinished
  <2>2. TypeOK'
    BY <1>2, <2>1 DEF SyncFinished, cluster, Inv, TypeOK
  <2> QED BY <1>2, <2>1, <2>2, QuietStep DEF SyncFinished, Inv, StatusOK, FinalAnswer
<1>3. CASE SyncNoPods \/ SyncDrained
  <2>1. sync' \in Request /\ sync'.st = sync.st /\ sync'.pc # "answer"
    BY <1>3, GotoRequest, RequestFacts DEF SyncNoPods, SyncDrained
  <2>2. TypeOK'
    BY <1>3, <2>1 DEF SyncNoPods, SyncDrained, cluster, Inv, TypeOK
  <2> QED BY <1>3, <2>1, <2>2, QuietStep
          DEF SyncNoPods, SyncDrained, Inv, StatusOK, FinalAnswer
<1>4. CASE SyncCrawler
  <2>1. PICK code \in lastExits : Goto("files", [sync.st EXCEPT !.lastExit = code])
    BY <1>4 DEF SyncCrawler
  <2> DEFINE st == [sync.st EXCEPT !.lastExit = code]
  <2>2. st \in CrawlStatus /\ st.state = sync.st.state /\ st.finished = sync.st.finished
    BY LastExits, RequestFacts DEF CrawlStatus
  <2>3. Goto("files", st)
    BY <2>1
  <2> HIDE DEF st
  <2>4. sync' \in Request /\ sync'.st = st /\ sync'.pc # "answer"
    BY <2>2, <2>3, GotoRequest, RequestFacts
  <2>5. TypeOK'
    BY <1>4, <2>4 DEF SyncCrawler, cluster, Inv, TypeOK
  <2> QED BY <1>4, <2>2, <2>4, <2>5, QuietStep DEF SyncCrawler, Inv, StatusOK, FinalAnswer
<1>5. CASE SyncPop
  <2>1. sync' \in Request /\ sync'.st = sync.st /\ sync'.pc # "answer"
    BY <1>5, GotoRequest, RequestFacts DEF SyncPop
  <2>2. redis' \in Redis
    BY <1>5, RequestFacts DEF SyncPop, Redis
  <2>3. TypeOK'
    BY <1>5, <2>1, <2>2 DEF SyncPop, Inv, TypeOK
  <2> QED BY <1>5, <2>1, <2>3, QuietStep DEF SyncPop, Inv, StatusOK, FinalAnswer
<1>6. CASE SyncAddFile
  <2>1. sync' \in Request /\ sync'.st = sync.st /\ sync'.pc # "answer"
    BY <1>6, GotoRequest, RequestFacts DEF SyncAddFile
  <2>2. redis' \in Redis /\ files' \in Files
    <3>1. redis' \in Redis
      BY <1>6, RequestFacts DEF SyncAddFile, Redis
    <3>2. files.db \in Nat /\ files.org \in Int
      BY RequestFacts DEF Files
    <3>3. (IF db.state = None THEN files.db ELSE files.db + 1) \in Nat /\ files.org + 1 \in Int
      BY <3>2
    <3>4. files' = [files EXCEPT !.db = IF db.state = None THEN files.db ELSE files.db + 1,
                                 !.org = files.org + 1]
      BY <1>6 DEF SyncAddFile
    <3> QED BY <3>1, <3>3, <3>4, FilesUpdate, RequestFacts
  <2>3. TypeOK'
    BY <1>6, <2>1, <2>2 DEF SyncAddFile, Inv, TypeOK
  <2> QED BY <1>6, <2>1, <2>3, QuietStep DEF SyncAddFile, Inv, StatusOK, FinalAnswer
<1>7. CASE SyncRedisError
  <2>1. sync' \in Request /\ sync'.st = sync.st /\ sync'.pc # "answer"
    BY <1>7, GotoRequest, RequestFacts DEF SyncRedisError
  <2>2. /\ hist' \in History
        /\ hist'.started = hist.started /\ hist'.notified = hist.notified
    BY <1>7, RequestFacts DEF SyncRedisError, History
  <2>3. TypeOK'
    BY <1>7, <2>1, <2>2 DEF SyncRedisError, cluster, Inv, TypeOK
  <2> QED BY <1>7, <2>1, <2>2, <2>3, QuietStep
          DEF SyncRedisError, Inv, StatusOK, FinalAnswer
<1> QED BY <1>1, <1>2, <1>3, <1>4, <1>5, <1>6, <1>7

\* The answer is stored; the job goes only when its crawl is over.
LEMMA AnswerStep ==
  ASSUME Inv, AnswerRun \/ AnswerEmpty \/ \E expired \in BOOLEAN : AnswerFinal(expired)
  PROVE  Inv' /\ Settled /\ Lawful
<1>1. \A phase \in PodPhase : create(phase) \in PodPhase
  BY DEF create, PodPhase
<1>2. \A phase \in RedisPhase : create(phase) \in RedisPhase
  BY DEF create, RedisPhase
<1>3. pod \in [Pods -> PodPhase] /\ redis \in Redis /\ None \in PodPhase /\ None \in RedisPhase
  BY DEF Inv, TypeOK, PodPhase, RedisPhase
<1>4. EmptyRedis \in Redis
  BY MaxPagesAssumption DEF EmptyRedis, Redis, RedisPhase, CrawlerStatus
<1>5. CASE AnswerRun
  <2>1. pod' \in [Pods -> PodPhase]
    BY <1>1, <1>3, <1>5 DEF AnswerRun
  <2>2. redis' \in Redis
    BY <1>2, <1>3, <1>5 DEF AnswerRun, Redis
  <2>3. TypeOK'
    BY <1>5, <2>1, <2>2, Idle, RequestFacts DEF AnswerRun, Inv, TypeOK
  <2> QED BY <1>5, <2>3, Idle, QuietStep DEF AnswerRun, Inv, StatusOK, FinalAnswer
<1>6. CASE AnswerEmpty
  <2>1. pod' \in [Pods -> PodPhase] /\ redis' \in Redis
    BY <1>3, <1>4, <1>6 DEF AnswerEmpty, DropVolumes
  <2>2. /\ hist' \in History
        /\ hist'.started = hist.started /\ hist'.notified = hist.notified
    BY <1>6, RequestFacts DEF AnswerEmpty, History
  <2>3. TypeOK'
    BY <1>6, <2>1, <2>2, Idle, RequestFacts DEF AnswerEmpty, DropVolumes, Inv, TypeOK
  <2> QED BY <1>6, <2>2, <2>3, Idle, QuietStep DEF AnswerEmpty, Inv, StatusOK, FinalAnswer
<1>7. ASSUME NEW expired \in BOOLEAN, AnswerFinal(expired)
      PROVE  Inv' /\ Settled /\ Lawful
  <2>1. DocumentOver(db) \/ overtaken
    BY <1>7 DEF AnswerFinal, Inv, FinalAnswer, StatusOK
  <2>2. pod' \in [Pods -> PodPhase]
    BY <1>3, <1>7 DEF AnswerFinal
  <2>3. redis' \in Redis /\ volume' \in SUBSET Pods /\ pvc' \in BOOLEAN
    <3>1. CASE keep_redis
      <4>1. redis' \in Redis
        BY <1>2, <1>3, <1>7, <3>1 DEF AnswerFinal, Redis
      <4> QED BY <1>7, <3>1, <4>1 DEF AnswerFinal, Inv, TypeOK
    <3>2. CASE ~keep_redis
      BY <1>4, <1>7, <3>2 DEF AnswerFinal, DropVolumes
    <3> QED BY <3>1, <3>2
  <2>4. job' \in {"gone", job}
    BY <1>7 DEF AnswerFinal
  <2>5. TypeOK'
    BY <1>7, <2>2, <2>3, <2>4, Idle, RequestFacts DEF AnswerFinal, Inv, TypeOK
  <2> QED BY <1>7, <2>1, <2>5, Idle, QuietStep DEF AnswerFinal, Inv, StatusOK, FinalAnswer
<1> QED BY <1>5, <1>6, <1>7

\* do_crawl_finished_tasks.
LEMMA TaskActions ==
  ASSUME Inv, NEW t \in tasks, TaskCleanup(t) \/ TaskNotify(t) \/ TaskDeleteJob(t)
  PROVE  Inv' /\ Settled /\ Lawful
<1>0. /\ t \in Task /\ tasks \in SUBSET Task /\ files \in Files /\ hist \in History
      /\ job \in {"none", "live", "deleting", "gone"}
  BY DEF Inv, TypeOK
<1>1. \A pc \in {"notify", "delete"} :
        [t EXCEPT !.pc = pc] \in Task /\ [t EXCEPT !.pc = pc].state = t.state
  BY <1>0 DEF Task
<1>2. CASE TaskCleanup(t)
  <2>1. files' \in Files
    <3>1. files.db \in Nat /\ files.org - files.db \in Int
      BY <1>0 DEF Files
    <3>2. without_files(files) \in Files
      BY <1>0, <3>1, FilesUpdate DEF without_files
    <3> QED BY <1>0, <1>2, <3>2 DEF TaskCleanup
  <2>2. tasks' \in SUBSET Task /\ \A u \in tasks' : \E v \in tasks : u.state = v.state
    BY <1>0, <1>1, <1>2 DEF TaskCleanup
  <2>3. TypeOK'
    BY <1>2, <2>1, <2>2 DEF TaskCleanup, cluster, Inv, TypeOK
  <2> QED BY <1>2, <2>2, <2>3, QuietStep DEF TaskCleanup, Inv, StatusOK, FinalAnswer
<1>3. CASE TaskNotify(t)
  <2>1. tasks' \in SUBSET Task /\ \A u \in tasks' : \E v \in tasks : u.state = v.state
    BY <1>0, <1>1, <1>3 DEF TaskNotify
  <2>2. /\ hist' \in History /\ hist'.started = hist.started
        /\ hist'.notified = IF db.state = None THEN hist.notified
                            ELSE hist.notified \cup {t.state}
    BY <1>0, <1>3 DEF TaskNotify, History, Task
  <2>3. /\ TypeOK' /\ db' = db
    BY <1>3, <2>1, <2>2 DEF TaskNotify, cluster, Inv, TypeOK
  <2>4. hist.started # 0 /\ (db.state # None /\ ~overtaken => t.state = db.state)
    BY DEF Inv, TasksFollowDocument
  <2>5. TasksFollowDocument' /\ TasksStartedOnce' /\ NotifiedIsStored'
    <3>1. api' = api
      BY <1>3 DEF TaskNotify
    <3>2. TasksFollowDocument'
      BY <2>1, <2>2, <2>3, <2>4, <3>1 DEF Inv, TasksFollowDocument, DocumentOver
    <3>3. TasksStartedOnce' /\ NotifiedIsStored'
      BY <2>2, <2>3, <2>4, <3>1 DEF Inv, TasksStartedOnce, NotifiedIsStored
    <3> QED BY <3>2, <3>3
  <2>6. /\ GoneOnlyWhenOver' /\ FinalAnswer' /\ AddingNone'
        /\ StatusOK(status, db)' /\ StatusOK(sync.st, db)'
    BY <1>3 DEF TaskNotify, Inv, GoneOnlyWhenOver, over, FinalAnswer, AddingNone, StatusOK,
       DocumentOver
  <2>7. Lawful
    <3>1. CASE db.state = None
      BY <1>3, <2>2, <2>3, <3>1, LawfulMove DEF TaskNotify, Inv
    <3>2. CASE db.state # None
      <4>1. /\ t.state \in NON_RUNNING_STATES /\ hist'.notified = hist.notified \cup {t.state}
            /\ t.state = db.state \/ overtaken
        BY <1>0, <2>2, <2>4, <3>2 DEF Task
      <4>2. Lifecycle!Announce(t.state)
        BY <1>3, <2>3, <4>1 DEF TaskNotify, Lifecycle!Announce, Lifecycle!overtaken
      <4> QED BY <4>1, <4>2, SameStates DEF Lawful, Lifecycle!Next
    <3> QED BY <3>1, <3>2
  <2> QED BY <1>3, <2>3, <2>5, <2>6, <2>7 DEF TaskNotify, Inv, Settled, DocumentOK
<1>4. CASE TaskDeleteJob(t)
  <2>1. job' \in {"deleting", job} /\ (job' = "gone") = (job = "gone")
    BY <1>4 DEF TaskDeleteJob, delete_crawl_job
  <2>2. tasks' \in SUBSET Task /\ \A u \in tasks' : \E v \in tasks : u.state = v.state
    BY <1>0, <1>4 DEF TaskDeleteJob
  <2>3. TypeOK'
    BY <1>0, <1>4, <2>1, <2>2 DEF TaskDeleteJob, cluster, Inv, TypeOK
  <2> QED BY <1>4, <2>1, <2>2, <2>3, QuietStep DEF TaskDeleteJob, Inv, StatusOK, FinalAnswer
<1> QED BY <1>2, <1>3, <1>4

\* The other coroutines.
LEMMA AsyncStep ==
  ASSUME Inv, AsyncDelete \/ AsyncPause
  PROVE  Inv' /\ Settled /\ Lawful
<1>1. CASE AsyncDelete
  <2>1. /\ job' \in {"deleting", job} /\ (job' = "gone") = (job = "gone")
        /\ async' \in SUBSET {"delete", "pause"}
    BY <1>1, RequestFacts DEF AsyncDelete, delete_crawl_job
  <2>2. TypeOK'
    BY <1>1, <2>1 DEF AsyncDelete, cluster, Inv, TypeOK
  <2> QED BY <1>1, <2>1, <2>2, QuietStep DEF AsyncDelete, Inv, StatusOK, FinalAnswer
<1>2. CASE AsyncPause
  <2>1. spec' \in CrawlSpec /\ async' \in SUBSET {"delete", "pause"}
    BY <1>2 DEF AsyncPause, Inv, TypeOK, CrawlSpec
  <2>2. TypeOK'
    BY <1>2, <2>1 DEF AsyncPause, cluster, Inv, TypeOK
  <2> QED BY <1>2, <2>2, QuietStep DEF AsyncPause, Inv, StatusOK, FinalAnswer
<1> QED BY <1>1, <1>2

\* update_crawl_state of basecrawls.py leaves a document alone that is over.
LEMMA CanceledDocument ==
  ASSUME Inv
  PROVE  LET d == canceled_document(db)
         IN  /\ d \in Document /\ DocumentOK(d)
             /\ (DocumentOver(db) => d = db) /\ Allowed(db, d)
<1>1. "canceled" \in NON_RUNNING_STATES
  BY DEF NON_RUNNING_STATES, FAILED_STATES
<1>2. "canceled" \in ALL_CRAWL_STATES
  BY <1>1, StateFacts
<1> DEFINE d == canceled_document(db)
<1>3. /\ d \in Document /\ DocumentOK(d) /\ (DocumentOver(db) => d = db)
      /\ d.state # db.state => db.state \in RUNNING_AND_WAITING_STATES /\ d.state = "canceled"
  BY <1>1, <1>2, RequestFacts, UpdateDocument DEF canceled_document
<1> HIDE DEF d
<1>4. Allowed(db, d)
  BY <1>1, <1>3, AllowedFinal DEF Allowed
<1> QED BY <1>3, <1>4 DEF d

\* A step of the API on the document: it becomes canceled or deleted, or stays.
LEMMA DocumentStep ==
  ASSUME Inv, TypeOK', DocumentOK(db)', DocumentOver(db) => db' = db \/ db'.state = None,
         db'.state = None \/ Allowed(db, db'),
         (job' = "gone") = (job = "gone"), status' = status, sync' = sync, tasks' = tasks,
         hist' = hist, api'.run = api.run, AddingNone'
  PROVE  Inv' /\ Settled /\ Lawful
<1>1. ~DocumentOver(db) /\ ~overtaken => hist.started = 0 /\ tasks = {} /\ hist.notified = {}
  BY RequestFacts DEF Inv, TasksFollowDocument, History
<1>2. TasksFollowDocument' /\ TasksStartedOnce' /\ NotifiedIsStored'
  BY <1>1 DEF Inv, TasksFollowDocument, TasksStartedOnce, NotifiedIsStored, DocumentOver
<1>3. GoneOnlyWhenOver' /\ FinalAnswer' /\ StatusOK(status, db)' /\ StatusOK(sync.st, db)'
  BY DEF Inv, GoneOnlyWhenOver, over, FinalAnswer, StatusOK, DocumentOver
<1>4. Lawful
  BY LawfulMove DEF Inv
<1> QED BY <1>2, <1>3, <1>4 DEF Inv, Settled

\* The API.
LEMMA ApiStepKeeps ==
  ASSUME Inv, ApiStep
  PROVE  Inv' /\ Settled /\ Lawful
<1>0. /\ job \in {"none", "live", "deleting", "gone"} /\ spec \in CrawlSpec
      /\ api \in Api /\ files \in Files /\ hist \in History
  BY DEF Inv, TypeOK
<1>1. CASE ApiStop \/ ApiPause \/ ApiResume
  <2>1. spec' \in CrawlSpec
    BY <1>0, <1>1 DEF ApiStop, ApiPause, ApiResume, CrawlSpec
  <2>2. hist' \in History /\ hist'.started = hist.started /\ hist'.notified = hist.notified
    <3>1. CASE ApiStop
      BY <1>0, <3>1 DEF ApiStop
    <3>2. CASE ApiPause
      BY <1>0, <3>2 DEF ApiPause, History
    <3>3. CASE ApiResume
      BY <1>0, <3>3 DEF ApiResume, History
    <3> QED BY <1>1, <3>1, <3>2, <3>3
  <2>3. TypeOK'
    BY <1>1, <2>1, <2>2 DEF ApiStop, ApiPause, ApiResume, cluster, Inv, TypeOK
  <2> QED BY <1>1, <2>2, <2>3, QuietStep
          DEF ApiStop, ApiPause, ApiResume, Inv, StatusOK, FinalAnswer
<1>2. ASSUME shutdown_crawl
      PROVE  /\ job' \in {"deleting", job} /\ (job' = "gone") = (job = "gone")
             /\ db' \in Document /\ DocumentOK(db)' /\ (DocumentOver(db) => db' = db)
             /\ Allowed(db, db')
  BY <1>2, CanceledDocument, RequestFacts
     DEF shutdown_crawl, delete_crawl_job, DocumentOK, Allowed
<1>3. CASE ApiCancel
  <2>1. TypeOK'
    BY <1>0, <1>2, <1>3 DEF ApiCancel, cluster, Inv, TypeOK
  <2>2. AddingNone'
    BY <1>3 DEF ApiCancel, Inv, AddingNone
  <2> QED BY <1>2, <1>3, <2>1, <2>2, DocumentStep DEF ApiCancel
<1>4. CASE ApiDeleteBegin
  <2>1. /\ job' \in {"deleting", job} /\ (job' = "gone") = (job = "gone")
        /\ db' \in Document /\ DocumentOK(db)' /\ (DocumentOver(db) => db' = db)
        /\ Allowed(db, db')
    BY <1>2, <1>4, RequestFacts DEF ApiDeleteBegin, DocumentOK, Allowed
  <2>2. api' \in Api /\ api'.run = api.run /\ AddingNone'
    BY <1>0, <1>4 DEF ApiDeleteBegin, Files, Api, Inv, AddingNone
  <2>3. TypeOK'
    BY <1>0, <1>4, <2>1, <2>2 DEF ApiDeleteBegin, cluster, Inv, TypeOK
  <2> QED BY <1>4, <2>1, <2>2, <2>3, DocumentStep DEF ApiDeleteBegin
<1>5. CASE ApiDeleteEnd
  <2>1. db' \in Document /\ DocumentOK(db)' /\ db'.state = None
    BY <1>5, StateFacts DEF ApiDeleteEnd, Document, DocumentOK
  <2>2. api' \in Api /\ api'.run = api.run /\ AddingNone' /\ files' \in Files
    <3>1. files.org - api.size \in Int
      BY <1>0 DEF Files, Api
    <3>2. files' \in Files
      BY <1>0, <1>5, <3>1, FilesUpdate DEF ApiDeleteEnd
    <3>3. api' \in Api /\ api'.run = api.run /\ api'.run # "adding"
      BY <1>0, <1>5 DEF ApiDeleteEnd, Api, Inv, AddingNone
    <3> QED BY <3>2, <3>3 DEF AddingNone
  <2>3. TypeOK'
    BY <1>5, <2>1, <2>2 DEF ApiDeleteEnd, cluster, Inv, TypeOK
  <2> QED BY <1>5, <2>1, <2>2, <2>3, DocumentStep DEF ApiDeleteEnd
<1>6. CASE CronCreateJob
  <2>1. TypeOK'
    BY <1>6 DEF CronCreateJob, cluster, Inv, TypeOK
  <2> QED BY <1>6, <2>1, QuietStep DEF CronCreateJob, Inv, StatusOK, FinalAnswer
<1>7. CASE CronFinished
  <2>1. job' \in {"deleting", job} /\ (job' = "gone") = (job = "gone")
    BY <1>7 DEF CronFinished, delete_crawl_job
  <2>2. TypeOK'
    BY <1>0, <1>7, <2>1 DEF CronFinished, cluster, Inv, TypeOK
  <2> QED BY <1>7, <2>1, <2>2, QuietStep DEF CronFinished, Inv, StatusOK, FinalAnswer
<1> QED BY <1>1, <1>3, <1>4, <1>5, <1>6, <1>7 DEF ApiStep

-----------------------------------------------------------------------------
\* A step of the cluster or of a crawler.
LEMMA ClusterStep ==
  ASSUME Inv, UNCHANGED operator_and_api,
         files' \in Files, redis' \in Redis, pod' \in [Pods -> PodPhase],
         volume' \in SUBSET Pods, pvc' = pvc, hist' \in History,
         hist'.started = hist.started, hist'.notified = hist.notified
  PROVE  Inv' /\ Settled /\ Lawful
<1>1. TypeOK'
  BY DEF operator_and_api, Inv, TypeOK
<1> QED BY <1>1, QuietStep DEF operator_and_api, Inv, StatusOK, FinalAnswer

\* A fault is counted.
LEMMA FaultType ==
  ASSUME hist \in History, NEW lost \in BOOLEAN, Fault(lost)
  PROVE  hist' \in History /\ hist'.started = hist.started /\ hist'.notified = hist.notified
<1>1. hist.faults + 1 \in Nat /\ (hist.lost \/ lost) \in BOOLEAN
  BY DEF History
<1>2. \A f \in Nat, l \in BOOLEAN :
        LET h == [hist EXCEPT !.faults = f, !.lost = l]
        IN  h \in History /\ h.started = hist.started /\ h.notified = hist.notified
  BY DEF History
<1>3. hist' = [hist EXCEPT !.faults = hist.faults + 1, !.lost = hist.lost \/ lost]
  BY DEF Fault
<1> QED BY <1>1, <1>2, <1>3

\* The crawler pods.
LEMMA CrawlerStepKeeps ==
  ASSUME Inv, NEW p \in Pods, CrawlerStep(p)
  PROVE  Inv' /\ Settled /\ Lawful
<1>0. /\ files \in Files /\ redis \in Redis /\ pod \in [Pods -> PodPhase]
      /\ volume \in SUBSET Pods /\ hist \in History
  BY DEF Inv, TypeOK
<1>1. CASE \/ PodStart(p) \/ PodRestart(p) \/ PodSucceed(p)
           \/ \E code \in FailedExits : PodExit(p, code)
  <2>1. pod' \in [Pods -> PodPhase]
    BY <1>0, <1>1 DEF PodStart, PodRestart, PodSucceed, PodExit, PodPhase
  <2> QED BY <1>0, <1>1, <2>1, ClusterStep DEF PodStart, PodRestart, PodSucceed, PodExit
<1>2. CASE PodEvict(p)
  <2>1. pod' \in [Pods -> PodPhase]
    BY <1>0, <1>2 DEF PodEvict, PodPhase
  <2>2. hist' \in History /\ hist'.started = hist.started /\ hist'.notified = hist.notified
    BY <1>0, <1>2, FaultType DEF PodEvict
  <2> QED BY <1>0, <1>2, <2>1, <2>2, ClusterStep DEF PodEvict
<1>3. \A v \in CrawlerStatus : [redis EXCEPT !.status[p] = v] \in Redis
  BY <1>0 DEF Redis
<1>4. CASE CrawlerStart(p)
  <2>1. redis.found \in 0..MaxPages
    BY <1>0 DEF Redis
  <2>2. max(redis.found, 1) \in 0..MaxPages
    BY <2>1, NumPodsAssumption, MaxPagesAssumption DEF max
  <2>3. redis' \in Redis
    BY <1>0, <1>4, <2>2 DEF CrawlerStart, Redis, CrawlerStatus
  <2>4. /\ hist' \in History
        /\ hist'.started = hist.started /\ hist'.notified = hist.notified
    BY <1>0, <1>4 DEF CrawlerStart, History
  <2> QED BY <1>0, <1>4, <2>3, <2>4, ClusterStep DEF CrawlerStart
<1>5. CASE CrawlerPage(p)
  <2>1. PICK n \in redis.found .. MaxPages : redis' = [redis EXCEPT !.found = n, !.done = TRUE]
    BY <1>5 DEF CrawlerPage
  <2>2. n \in 0..MaxPages
    BY <1>0, <2>1, MaxPagesAssumption DEF Redis
  <2>3. redis' \in Redis
    BY <1>0, <2>1, <2>2 DEF Redis
  <2> QED BY <1>0, <1>5, <2>3, ClusterStep DEF CrawlerPage
<1>6. CASE CrawlerUpload(p)
  <2>1. redis' \in Redis
    BY <1>0, <1>6 DEF CrawlerUpload, Redis
  <2>2. files' \in Files
    BY <1>0, <1>6 DEF CrawlerUpload, Files
  <2> QED BY <1>0, <1>6, <2>1, <2>2, ClusterStep DEF CrawlerUpload
<1>7. CASE CrawlerEnd(p)
  <2>1. redis' \in Redis
    BY <1>3, <1>7 DEF CrawlerEnd, CrawlerStatus
  <2> QED BY <1>0, <1>7, <2>1, ClusterStep DEF CrawlerEnd
<1>8. CASE CrawlerFail(p)
  <2>1. redis' \in Redis
    BY <1>3, <1>8 DEF CrawlerFail, CrawlerStatus
  <2> QED BY <1>0, <1>8, <2>1, ClusterStep DEF CrawlerFail
<1>9. ASSUME NEW busy \in Busy \cap Events, CrawlerPackage(p, busy)
      PROVE  Inv' /\ Settled /\ Lawful
  <2>1. redis' \in Redis
    BY <1>3, <1>9 DEF CrawlerPackage, CrawlerStatus
  <2> QED BY <1>0, <1>9, <2>1, ClusterStep DEF CrawlerPackage
<1> QED BY <1>1, <1>2, <1>4, <1>5, <1>6, <1>7, <1>8, <1>9 DEF CrawlerStep

\* Redis, operator restarts and lost answers.
LEMMA EnvironmentStep ==
  ASSUME Inv, RedisStart \/ RedisRestart \/ CrawlerRateLimit \/ OperatorRestart \/ AnswerLost
  PROVE  Inv' /\ Settled /\ Lawful
<1>0. /\ files \in Files /\ redis \in Redis /\ pod \in [Pods -> PodPhase]
      /\ volume \in SUBSET Pods /\ hist \in History
  BY DEF Inv, TypeOK
<1>1. CASE RedisStart \/ CrawlerRateLimit
  <2>1. redis' \in Redis
    BY <1>0, <1>1 DEF RedisStart, CrawlerRateLimit, Redis, RedisPhase
  <2> QED BY <1>0, <1>1, <2>1, ClusterStep DEF RedisStart, CrawlerRateLimit
<1>2. CASE RedisRestart
  <2>1. redis' \in Redis
    BY <1>0, <1>2 DEF RedisRestart, Redis, RedisPhase
  <2>2. hist' \in History /\ hist'.started = hist.started /\ hist'.notified = hist.notified
    BY <1>0, <1>2, FaultType DEF RedisRestart
  <2> QED BY <1>0, <1>2, <2>1, <2>2, ClusterStep DEF RedisRestart
<1>3. CASE OperatorRestart \/ AnswerLost
  <2>1. hist' \in History /\ hist'.started = hist.started /\ hist'.notified = hist.notified
    BY <1>0, <1>3, FaultType DEF OperatorRestart, AnswerLost
  <2>2. sync' = IdleSync /\ tasks' \subseteq tasks /\ async' \subseteq async
    BY <1>3 DEF OperatorRestart, AnswerLost
  <2>3. TypeOK'
    BY <1>3, <2>1, <2>2, Idle DEF OperatorRestart, AnswerLost, cluster, Inv, TypeOK
  <2> QED BY <1>3, <2>1, <2>2, <2>3, Idle, QuietStep
          DEF OperatorRestart, AnswerLost, Inv, StatusOK, FinalAnswer
<1> QED BY <1>1, <1>2, <1>3
-----------------------------------------------------------------------------
\* run_now_internal adds the document.
LEMMA AddStep ==
  ASSUME Inv, ApiAddCrawl
  PROVE  Inv' /\ Lawful /\ db.state = None
<1>1. /\ api.run = "adding" /\ db' = [state |-> "starting", finished |-> FALSE]
      /\ api' = [api EXCEPT !.run = IF not_begun THEN "added" ELSE "overtaken"]
      /\ UNCHANGED <<job, spec, status, files, cluster, sync, tasks, async, hist>>
  BY DEF ApiAddCrawl
<1>2. api \in Api /\ db.state = None
  BY <1>1 DEF Inv, TypeOK, AddingNone
<1>3. /\ api' \in Api /\ api'.run \in {"added", "overtaken"}
      /\ ~overtaken' => not_begun
  BY <1>1, <1>2 DEF Api
<1>4. "starting" \in ALL_CRAWL_STATES /\ "starting" \notin NON_RUNNING_STATES
  BY WaitingStates, StateFacts
<1>5. TypeOK' /\ DocumentOK(db)'
  BY <1>1, <1>3, <1>4 DEF Inv, TypeOK, cluster, Document, DocumentOK
<1>6. not_begun => /\ ~status.finished /\ ~sync.st.finished /\ job = "live"
                   /\ hist.started = 0 /\ tasks = {} /\ hist.notified = {}
  BY DEF not_begun, InitialStatus, Inv, TasksFollowDocument
<1>7. /\ StatusOK(status, db)' /\ StatusOK(sync.st, db)' /\ FinalAnswer' /\ AddingNone'
      /\ GoneOnlyWhenOver'
  BY <1>1, <1>3, <1>6 DEF Inv, StatusOK, FinalAnswer, AddingNone, GoneOnlyWhenOver
<1>8. TasksFollowDocument' /\ TasksStartedOnce' /\ NotifiedIsStored'
  BY <1>1, <1>3, <1>6 DEF Inv, TasksFollowDocument, TasksStartedOnce, NotifiedIsStored
<1>9. Lawful
  BY <1>1, <1>3, <1>6 DEF Lawful, Lifecycle!Next, Lifecycle!Record
<1> QED BY <1>2, <1>5, <1>7, <1>8, <1>9 DEF Inv

\* The invariant holds initially.
LEMMA InitInv == Init => Inv
<1> SUFFICES ASSUME Init PROVE Inv
  OBVIOUS
<1>1. "starting" \in ALL_CRAWL_STATES /\ "starting" \notin NON_RUNNING_STATES
  BY WaitingStates, StateFacts
<1>2. EmptyRedis \in Redis
  BY MaxPagesAssumption DEF EmptyRedis, Redis, RedisPhase, CrawlerStatus
<1>3. InitialStatus \in CrawlStatus
  BY Idle DEF IdleSync, Request
<1>d. /\ \/ /\ db = [state |-> None, finished |-> FALSE]
            /\ api = [run |-> "adding", pc |-> "idle", size |-> 0]
         \/ /\ db = [state |-> "starting", finished |-> FALSE]
            /\ api = [run |-> "added", pc |-> "idle", size |-> 0]
      /\ job \in {"none", "live"}
  BY DEF Init
<1>4. /\ spec \in CrawlSpec /\ pod \in [Pods -> PodPhase]
      /\ hist \in History /\ files \in Files
  BY DEF Init, CrawlSpec, PodPhase, History, Files
<1>5. db \in Document /\ api \in Api /\ DocumentOK(db) /\ AddingNone
  <2>1. None \notin NON_RUNNING_STATES /\ 0 \in Nat
    BY StateFacts
  <2>2. CASE /\ db = [state |-> None, finished |-> FALSE]
             /\ api = [run |-> "adding", pc |-> "idle", size |-> 0]
    BY <2>1, <2>2 DEF Document, Api, DocumentOK, AddingNone
  <2>3. CASE /\ db = [state |-> "starting", finished |-> FALSE]
             /\ api = [run |-> "added", pc |-> "idle", size |-> 0]
    BY <1>1, <2>3 DEF Document, Api, DocumentOK, AddingNone
  <2> QED BY <1>d, <2>2, <2>3
<1>6. TypeOK
  BY <1>2, <1>3, <1>4, <1>5, <1>d, Idle DEF Init, TypeOK
<1>7. StatusOK(status, db) /\ StatusOK(sync.st, db)
  BY <1>1, Idle DEF Init, StatusOK, InitialStatus
<1>8. FinalAnswer /\ GoneOnlyWhenOver
  BY <1>d, Idle DEF Init, FinalAnswer, GoneOnlyWhenOver
<1>9. TasksFollowDocument /\ TasksStartedOnce /\ NotifiedIsStored
  BY DEF Init, TasksFollowDocument, TasksStartedOnce, NotifiedIsStored
<1> QED BY <1>5, <1>6, <1>7, <1>8, <1>9 DEF Inv

\* Every step keeps the invariant and does not change a document that is over, but
\* for deleting it, or adds a document where there is none.
LEMMA NextInv ==
  ASSUME Inv, [Next]_vars
  PROVE  Inv' /\ Lawful /\ (Settled \/ (ApiAddCrawl /\ db.state = None))
<1>1. ASSUME SyncStep PROVE Inv' /\ Settled /\ Lawful
  BY <1>1, FinalizeStep, SkipStep, PausedStep, OrgLimitStep, AwaitIndexStep, AdmittedStep,
     NoCrawlerStep, UpdateStep, OtherSyncStep, AnswerStep, Zenon DEF SyncStep
<1>2. ASSUME TaskStep PROVE Inv' /\ Settled /\ Lawful
  BY <1>2, TaskActions, AsyncStep DEF TaskStep
<1>3. CASE UNCHANGED vars
  <2>1. TypeOK'
    BY <1>3 DEF vars, Inv, TypeOK
  <2>2. /\ job' = job /\ status' = status /\ db' = db /\ sync' = sync /\ tasks' = tasks
        /\ api' = api /\ hist' = hist
    BY <1>3 DEF vars
  <2>3. StatusOK(status, db)' /\ StatusOK(sync.st, db)' /\ FinalAnswer'
    BY <2>2 DEF Inv, StatusOK, FinalAnswer
  <2>4. \A t \in tasks' : \E u \in tasks : t.state = u.state
    BY <2>2
  <2>5. hist'.started = hist.started /\ hist'.notified = hist.notified
    BY <2>2
  <2> QED BY <2>1, <2>2, <2>3, <2>4, <2>5, QuietStep
<1>4. CASE ApiStep \/ ApiAddCrawl
  BY <1>4, ApiStepKeeps, AddStep
<1>5. ASSUME \/ \E p \in Pods : CrawlerStep(p)
             \/ RedisStart \/ RedisRestart \/ CrawlerRateLimit \/ OperatorRestart \/ AnswerLost
      PROVE  Inv' /\ Settled /\ Lawful
  BY <1>5, CrawlerStepKeeps, EnvironmentStep
<1> QED BY <1>1, <1>2, <1>3, <1>4, <1>5, Zenon DEF Next

\* Once a document is overtaken it is said to be so for ever.
LEMMA OvertakenStays ==
  ASSUME Inv, [Next]_vars, ~overtaken'
  PROVE  ~overtaken
<1>1. CASE Settled
  BY <1>1 DEF Settled
<1>2. CASE ApiAddCrawl
  BY <1>2 DEF ApiAddCrawl
<1> QED BY <1>1, <1>2, NextInv

\* Inv is an invariant of the crawl, for every number of pods and every bound.
THEOREM Invariance == Spec => []Inv
BY InitInv, NextInv, PTL DEF Spec

\* Every variable keeps its type: in particular every state the operator computes
\* from the results of the pods and from the stop reason is a crawl state.
THEOREM TypeCorrect == Spec => []TypeOK
<1>1. Inv => TypeOK
  BY DEF Inv
<1> QED BY <1>1, Invariance, PTL

\* A job whose status says finished, in the store or in a request of the operator,
\* belongs to a document that is finished or deleted (set_state, mark_finished), unless
\* the document was added when the job had got on already (run_now_internal).
THEOREM StatusSafe == Spec => []StatusFollowsDocument
<1>1. Inv => StatusFollowsDocument
  BY DEF Inv, StatusFollowsDocument, StatusOK, DocumentOK, DocumentOver, over
<1> QED BY <1>1, Invariance, PTL

\* A job is removed only when its crawl is over in the database or was never recorded
\* there (finalize_response), unless the document was overtaken by its job.
THEOREM GoneSafe == Spec => []GoneOnlyWhenOver
<1>1. Inv => GoneOnlyWhenOver
  BY DEF Inv
<1> QED BY <1>1, Invariance, PTL

\* The coroutine run after a crawl is started at most once while the crawl has a
\* document, and what the webhooks announce is the state that is stored
\* (mark_finished, do_crawl_finished_tasks).
THEOREM TasksSafe == Spec => []FinishedOnce
<1>1. Inv => FinishedOnce
  BY DEF Inv, FinishedOnce
<1> QED BY <1>1, Invariance, PTL

\* No step changes the final state or the finish time of a crawl, but for deleting
\* the document (update_crawl_state_if_allowed, update_crawl_state).
THEOREM FinalSafe == Spec => FinalStateIsFinal
<1>1. Inv /\ [Next]_vars => [db.finished => db' = db \/ db'.state = None]_vars
  BY NextInv, StateFacts DEF Settled, DocumentOver, Inv, DocumentOK
<1> QED BY <1>1, Invariance, PTL DEF Spec, FinalStateIsFinal

\* Seen through the document, the webhooks and the existence of the job only, every
\* crawl behaves as CrawlLifecycle says: states are set in the order it allows, and,
\* unless the job got on before the document was added, an end is announced only when it
\* is stored and the job goes only after the end.
THEOREM Refinement == Spec => ImplementsLifecycle
<1>1. Init => Lifecycle!Init
  BY SameStates DEF Init, Lifecycle!Init
<1>2. Inv /\ [Next]_vars => [Lifecycle!Next]_(Lifecycle!crawl)
  BY NextInv DEF Lawful
<1> QED BY <1>1, <1>2, Invariance, PTL DEF Spec, ImplementsLifecycle, Lifecycle!Spec
-----------------------------------------------------------------------------
(***************************************************************************)
(* The files of a crawl: the invariants FailedHasNoFiles and               *)
(* NoFileLeftBehind of CrawlJob.                                           *)
(*                                                                         *)
(* The operator takes files from redis before it looks at the results of   *)
(* the pods, so a result may be newer than the files.  For the end of a    *)
(* crawl what helps is that a pod counts as done only when the snapshot,   *)
(* which is older than both, has seen it exit; for a pause, that the pods  *)
(* are removed only by the request after the one that saw them interrupted.*)
(***************************************************************************)

\* The invariant of a crawl whose document was not overtaken by its job: what follows is
\* about such crawls only.
Timely == Inv /\ ~overtaken

\* Every step but that which adds the document.
Onward == [Next]_vars /\ ~ApiAddCrawl

\* The status that the operator goes on with.
Current == IF sync.pc = "idle" THEN status ELSE sync.st

\* The crawl has a document and has not ended.
Active == ~DocumentOver(db)

-----------------------------------------------------------------------------
(***************************************************************************)
(* Failed crawls.                                                          *)
(***************************************************************************)

\* What the org is charged for is what the document lists.
OrgCounted == db.state # None => files.org = files.db

\* Once the coroutine that ends a crawl has started, no request works on the crawl.
NobodyAdds ==
  hist.faults = 0 /\ hist.started > 0 =>
    \/ sync.pc = "idle" /\ status.finished
    \/ sync.pc \in {"start", "answer"} /\ sync.st.finished

\* From the cleanup of a failed crawl on its document lists no file.
Cleaned ==
  hist.faults = 0 /\ db.state # None =>
    /\ hist.notified \cap FAILED_STATES # {} => files.db = 0
    /\ \A t \in tasks : t.pc # "cleanup" /\ t.state \in FAILED_STATES => files.db = 0

FailedInv == OrgCounted /\ NobodyAdds /\ Cleaned

-----------------------------------------------------------------------------
(***************************************************************************)
(* Complete crawls.                                                        *)
(***************************************************************************)

\* A pod exits successfully when its crawler is done, and stays done.
ExitedIsDone ==
  \A p \in Pods : pod[p] = "succeeded" \/ sync.pod[p] = "succeeded" => redis.status[p] = "done"

\* A crawler that has not started, is done or interrupted has nothing on its volume.
VolumeUsed ==
  \A p \in volume : redis.status[p] \notin {None, "done", "interrupted"}

\* Every uploaded file is listed, waits in redis, or is being added.
Adding == IF sync.pc = "add" THEN 1 ELSE 0
AllCounted ==
  Active /\ ~hist.lost => files.uploaded = files.db + redis.queue + Adding

\* A file uploaded after the queue was drained is of a pod that the snapshot has not
\* seen exit.
Behind(p) ==
  /\ sync.pod[p] # "succeeded"
  /\ \/ redis.status[p] \in Busy \cup {"done"}
     \/ redis.status[p] = "interrupted" /\ redis.paused
QueueBehind ==
  sync.pc = "update" /\ redis.queue > 0 => \E p \in Pods : Behind(p)

\* Nobody works for a complete crawl any more.
CompleteRests ==
  db.state = "complete" /\ ~hist.lost /\ ~hist.late =>
    /\ redis.queue = 0 /\ sync.pc # "add" /\ files.db = files.uploaded
    /\ \A p \in Pods : redis.status[p] \in {None, "done", "failed"}

CompleteInv == ExitedIsDone /\ VolumeUsed /\ AllCounted /\ QueueBehind /\ CompleteRests

-----------------------------------------------------------------------------
(***************************************************************************)
(* Paused crawls.                                                          *)
(***************************************************************************)
EarlyStates == {"starting", "waiting_org_limit", "waiting_dedupe_index"}
Looking == {"state", "files", "add", "update"}

\* A request that found the crawl paused has not forgotten it, and one that takes files
\* found redis and a pod that has started.  A pause lasts until the first resume.
RequestKnows ==
  /\ sync.spec.paused /\ ~hist.resumed => spec.paused
  /\ sync.pc \in Looking /\ sync.isPaused => sync.st.state \in PAUSED_STATES
  /\ sync.pc \in {"files", "add", "update"} => sync.redis = "up" /\ Started # {}

\* As long as nothing fails the status says what the document says, and a crawl that
\* is early has found no page; only such a crawl is made to wait.
StatusIsDocument == Current.state = db.state
EarlyIsEmpty ==
  Current.state \in EarlyStates => Current.pagesFound = 0 /\ Current.sizePending = {}
EmptyIsEarly ==
  sync.pc = "answer" /\ sync.answer = "empty" => sync.st.state \in EarlyStates

\* Pages found become more, and so do pods.
PagesGrow ==
  status.pagesFound <= Current.pagesFound /\ Current.pagesFound <= redis.found
PodsKept ==
  \A p \in Pods : pod[p] # None => p < desiredScale /\ p <= Current.pagesFound

\* Redis is not removed while it is needed.
RedisKept ==
  sync.pc \in {"idle", "start"} \cup Looking /\ redis.pod # None => Current.initRedis

\* A crawler that was interrupted or failed did not exit.
InterruptedRuns ==
  \A p \in Pods : redis.status[p] \in {"interrupted", "failed"} =>
                    pod[p] \in {None, "pending", "running"}

\* During a request pods are neither created nor removed, and those seen to have
\* started have.
SnapshotHolds ==
  sync.pc # "idle" =>
    \A p \in Pods : /\ sync.pod[p] # None <=> pod[p] # None
                    /\ sync.pod[p] \notin {None, "pending"} => pod[p] # "pending"

\* The pods are the first ones, or all of them have reported.
PodsShape ==
  \/ \A p \in Pods : pod[p] # None => redis.status[p] # None
  \/ \A p \in Pods, q \in Pods : pod[p] # None /\ q < p => pod[q] # None

\* Only a crawler that has reported has anything pending.
PendingReported == \A p \in Current.sizePending : redis.status[p] # None

WorkInv ==
  /\ StatusIsDocument /\ EarlyIsEmpty /\ EmptyIsEarly /\ PagesGrow /\ PodsKept /\ RedisKept
  /\ InterruptedRuns /\ SnapshotHolds /\ PodsShape /\ PendingReported

\* All files have been taken.
Taken == redis.queue = 0 /\ sync.pc # "add"

\* Pod q, which is interrupted or failed, makes the operator look at redis.
Held(q) ==
  /\ redis.status[q] \in {"interrupted", "failed"}
  /\ pod[q] = "running" /\ redis.pod = "up" /\ Current.initRedis
  /\ sync.pc # "idle" => sync.pod[q] \notin {None, "pending"} /\ sync.redis = "up"

\* Before and after the interrupted pods are removed.
PodsStay == redis.paused /\ \E q \in Pods : Held(q)
PodsLeft == Taken /\ \A p \in Pods : pod[p] # None => redis.status[p] = "failed"

\* In a paused crawl nobody works, and every request knows of the pause.
PausedQuiet ==
  /\ spec.paused /\ (sync.pc # "idle" => sync.spec.paused)
  /\ \A p \in Pods : redis.status[p] \in {None, "interrupted", "failed"}
  /\ \A p \in Current.sizePending : redis.status[p] = "failed"

\* The request that removes the pods has taken all files before.
PausedPlace ==
  /\ sync.pc \in {"idle", "start"} => PodsStay \/ PodsLeft
  /\ sync.pc \in {"state", "files", "add"} => sync.isPaused /\ (PodsStay \/ PodsLeft)
  /\ sync.pc = "update" => sync.isPaused /\ ((PodsStay /\ Taken) \/ PodsLeft)
  /\ sync.pc \in {"paused", "answer"} =>
       \/ sync.isPaused /\ ((PodsStay /\ Taken) \/ PodsLeft)
       \/ ~sync.isPaused /\ PodsStay
  /\ sync.pc = "answer" => sync.answer = "run"

PausedRests == PausedQuiet /\ PausedPlace

PausedInv ==
  /\ RequestKnows
  /\ hist.faults = 0 /\ Active => WorkInv
  /\ hist.faults = 0 /\ ~hist.resumed /\ db.state \in PAUSED_STATES => PausedRests

-----------------------------------------------------------------------------
(***************************************************************************)
(* Records.                                                                *)
(***************************************************************************)

\* A document that is not overtaken was added before its job had got on.
LEMMA Added ==
  ASSUME Inv, ApiAddCrawl, ~overtaken'
  PROVE  /\ Timely /\ not_begun /\ db.state = None /\ db'.state = "starting"
         /\ UNCHANGED <<job, spec, status, files, redis, pod, volume, sync, tasks, hist>>
<1>1. api \in Api /\ db.state = None
  BY DEF Inv, TypeOK, AddingNone, ApiAddCrawl
<1> QED BY <1>1 DEF ApiAddCrawl, Api, Timely, cluster

\* The fields of the variables.
LEMMA Fields ==
  ASSUME Timely
  PROVE  /\ sync \in Request /\ sync.st \in CrawlStatus /\ sync.spec \in CrawlSpec
         /\ sync.pod \in [Pods -> PodPhase] /\ sync.isPaused \in BOOLEAN
         /\ status \in CrawlStatus /\ spec \in CrawlSpec /\ db \in Document
         /\ files \in Files /\ files.db \in Nat /\ files.org \in Int /\ files.uploaded \in Nat
         /\ redis \in Redis /\ redis.queue \in Nat /\ redis.status \in [Pods -> CrawlerStatus]
         /\ redis.found \in 0..MaxPages /\ redis.paused \in BOOLEAN
         /\ pod \in [Pods -> PodPhase] /\ volume \in SUBSET Pods
         /\ tasks \in SUBSET Task
         /\ hist \in History /\ hist.started \in Nat /\ hist.faults \in Nat
         /\ hist.lost \in BOOLEAN /\ hist.late \in BOOLEAN /\ hist.resumed \in BOOLEAN
BY DEF Timely, Inv, TypeOK, Request, Files, Redis, History

\* A request goes on: only its place and its status change.
LEMMA GotoFields ==
  ASSUME Timely, NEW st, NEW pc, Goto(pc, st)
  PROVE  /\ sync'.pc = pc /\ sync'.st = st /\ sync'.pod = sync.pod /\ sync'.spec = sync.spec
         /\ sync'.redis = sync.redis /\ sync'.isPaused = sync.isPaused
         /\ sync'.answer = sync.answer /\ sync'.finalizing = sync.finalizing
BY Fields DEF Goto, Request

LEMMA AnswerFields ==
  ASSUME Timely, NEW st, NEW kind, Answer(kind, st)
  PROVE  /\ sync'.pc = "answer" /\ sync'.answer = kind /\ sync'.st = st
         /\ sync'.pod = sync.pod /\ sync'.spec = sync.spec /\ sync'.redis = sync.redis
         /\ sync'.isPaused = sync.isPaused
BY Fields DEF Answer, Request

LEMMA IdleFields ==
  /\ IdleSync.pc = "idle" /\ IdleSync.isPaused = FALSE /\ IdleSync.redis = None
  /\ \A p \in Pods : IdleSync.pod[p] = None
BY DEF IdleSync

LEMMA EmptyFields ==
  /\ EmptyRedis.pod = None /\ EmptyRedis.queue = 0 /\ EmptyRedis.paused = FALSE
  /\ EmptyRedis.found = 0
  /\ \A p \in Pods : EmptyRedis.status[p] = None
BY DEF EmptyRedis

\* What starting do_crawl_finished_tasks leaves alone.
LEMMA StartTasksFields ==
  ASSUME Timely, NEW ok \in BOOLEAN, NEW state, StartTasks(ok, state)
  PROVE  /\ hist'.faults = hist.faults /\ hist'.notified = hist.notified
         /\ hist'.lost = hist.lost /\ hist'.late = hist.late /\ hist'.resumed = hist.resumed
         /\ hist'.started = IF ok THEN hist.started + 1 ELSE hist.started
         /\ \A t \in tasks' : t \in tasks \/ t.pc = "cleanup"
BY Fields DEF StartTasks, NewTask, History

\* A fault is counted.
LEMMA FaultFields ==
  ASSUME Timely, NEW lost \in BOOLEAN, Fault(lost)
  PROVE  /\ hist'.faults = hist.faults + 1 /\ hist'.faults # 0
         /\ hist'.notified = hist.notified /\ hist'.started = hist.started
         /\ hist'.lost = (hist.lost \/ lost) /\ hist'.late = hist.late
<1>1. /\ hist'.faults = hist.faults + 1 /\ hist'.notified = hist.notified
      /\ hist'.started = hist.started /\ hist'.lost = (hist.lost \/ lost)
      /\ hist'.late = hist.late
  BY Fields DEF Fault, History
<1> QED BY <1>1, Fields

\* The states that matter here.
LEMMA Paused ==
  /\ PAUSED_STATES \subseteq RUNNING_AND_WAITING_STATES
  /\ PAUSED_STATES \cap RUNNING_AND_STARTING_ONLY = {} /\ PAUSED_STATES \cap EarlyStates = {}
  /\ PAUSED_STATES \cap RUNNING_STATES = {}
  /\ None \notin PAUSED_STATES /\ "waiting_capacity" \notin PAUSED_STATES
BY DEF PAUSED_STATES, AUTO_PAUSED_STATES, RUNNING_AND_WAITING_STATES, WAITING_STATES,
       RUNNING_AND_STARTING_ONLY, RUNNING_STATES, EarlyStates, None

LEMMA ActiveStates ==
  ASSUME Timely
  PROVE  /\ Active <=> db.state \in RUNNING_AND_WAITING_STATES
         /\ db.state \in PAUSED_STATES => Active
         /\ db.state = "complete" => ~Active
<1>1. "complete" \in NON_RUNNING_STATES
  BY DEF NON_RUNNING_STATES, SUCCESSFUL_STATES
<1> QED BY <1>1, Fields, Paused, StateFacts DEF Timely, Inv, DocumentOK, DocumentOver, Document, Active
-----------------------------------------------------------------------------
(***************************************************************************)
(* Parts of a request.                                                     *)
(***************************************************************************)

\* What a change of state leaves alone in a status.
SameWork(st, st2) ==
  /\ st2.pagesFound = st.pagesFound /\ st2.sizePending = st.sizePending
  /\ st2.initRedis = st.initRedis

\* set_state changes the state of the status and of the document together, if they
\* were the same.
LEMMA SetStateFields ==
  ASSUME NEW st \in CrawlStatus, NEW d \in Document, NEW state \in ALL_CRAWL_STATES,
         NEW from, NEW finished \in BOOLEAN
  PROVE  LET r == set_state(st, d, state, from, finished)
         IN  /\ SameWork(st, r.st)
             /\ st.state = d.state => r.st.state = r.db.state
             /\ st.state = d.state /\ st.state \notin from => r.st.state = st.state
             /\ st.state = d.state /\ st.state \in from => r.st.state = state
<1> DEFINE r == set_state(st, d, state, from, finished)
           d2 == update_crawl_state_if_allowed(d, state, from, finished)
<1>0. state # None
  BY StateFacts
<1>1. CASE st.state \notin from
  <2>1. r.st = st /\ r.db = d
    BY <1>1 DEF set_state
  <2> QED BY <1>1, <2>1 DEF SameWork
<1>2. CASE st.state \in from /\ matches(d, from) /\ st.state # state
  <2>1. r.st = [st EXCEPT !.state = state] /\ r.db = d2
    BY <1>2 DEF set_state
  <2>2. d2.state = state
    BY <1>2 DEF update_crawl_state_if_allowed
  <2> QED BY <1>2, <2>1, <2>2 DEF CrawlStatus, SameWork
<1>3. CASE st.state \in from /\ ~(matches(d, from) /\ st.state # state)
  <2>1. r.st = adopt(st, d2) /\ r.db = d2
    BY <1>3 DEF set_state
  <2>2. SameWork(st, adopt(st, d2))
    BY DEF adopt, CrawlStatus, SameWork
  <2>3. adopt(st, d2).state = IF d2.state = None THEN st.state ELSE d2.state
    BY DEF adopt, CrawlStatus
  <2>4. st.state = d.state => d2.state = state
    BY <1>3 DEF update_crawl_state_if_allowed, matches
  <2> QED BY <1>0, <1>3, <2>1, <2>2, <2>3, <2>4
<1> QED BY <1>1, <1>2, <1>3

LEMMA SetRunning ==
  ASSUME NEW st \in CrawlStatus, NEW d \in Document, NEW state \in ALL_CRAWL_STATES,
         st.state = d.state, st.state \in RUNNING_AND_WAITING_STATES, NEW no, NEW r,
         r = set_state(st, d, state, RUNNING_AND_WAITING_STATES, no)
  PROVE  r.st.state = state /\ r.db.state = state
<1> DEFINE d2 == update_crawl_state_if_allowed(d, state, RUNNING_AND_WAITING_STATES, no)
<1>1. d2.state = state /\ matches(d, RUNNING_AND_WAITING_STATES) /\ state # None
  BY StateFacts DEF update_crawl_state_if_allowed, matches
<1> HIDE DEF d2
<1>2. CASE st.state # state
  BY <1>1, <1>2 DEF set_state, CrawlStatus, d2
<1>3. CASE st.state = state
  <2>1. r.st = adopt(st, d2) /\ r.db = d2
    BY <1>3 DEF set_state, d2
  <2> QED BY <1>1, <2>1 DEF adopt, CrawlStatus
<1> QED BY <1>2, <1>3

LEMMA MarkFinishedFields ==
  ASSUME NEW st \in CrawlStatus, NEW d \in Document, NEW state \in ALL_CRAWL_STATES
  PROVE  SameWork(st, mark_finished(st, d, state).st)
<1> DEFINE s == set_state(st, d, state, finishable, TRUE)
<1>1. SameWork(st, s.st)
  BY SetStateFields
<1>2. s = [st |-> s.st, db |-> s.db, ok |-> s.ok]
  BY DEF set_state
<1>3. mark_finished(st, d, state).st = [s.st EXCEPT !.finished = TRUE]
  BY <1>2 DEF mark_finished
<1>4. s.st \in [state : {s.st.state}, finished : {s.st.finished}, stopping : {s.st.stopping},
                stopReason : {s.st.stopReason}, initRedis : {s.st.initRedis},
                rateLimited : {s.st.rateLimited}, lastExit : {s.st.lastExit},
                pagesFound : {s.st.pagesFound}, sizePending : {s.st.sizePending}]
  <2>1. s.st \in {st, [st EXCEPT !.state = state]} \/ \E d2 : s.st = adopt(st, d2)
    BY DEF set_state
  <2> QED BY <2>1 DEF CrawlStatus, adopt
<1>5. SameWork(s.st, mark_finished(st, d, state).st)
  BY <1>3, <1>4 DEF SameWork
<1> QED BY <1>1, <1>5 DEF SameWork

\* update_crawl_state, seen as a whole.
UpdateOf(st, state, ok) ==
  /\ st \in CrawlStatus /\ ok \in BOOLEAN
  /\ st.state = sync.st.state /\ st.finished = sync.st.finished
  /\ st.pagesFound = redis.found /\ st.sizePending = volume
  /\ st.initRedis = sync.st.initRedis
  /\ st.stopReason \in PAUSED_STATES => st.stopping
  /\ StartTasks(ok, state)
  /\ ok => state \in NON_RUNNING_STATES
  /\ db'.state # db.state => db'.state = state /\ db.state \in RUNNING_AND_WAITING_STATES
  /\ state \in NON_RUNNING_STATES => sync'.st.finished
  /\ SameWork(st, sync'.st)
  /\ Active' /\ sync.st.state = db.state => sync'.st.state = db'.state /\ db'.state = state
  /\ sync'.pc = IF sync'.st.finished THEN "answer" ELSE "paused"
  /\ sync'.pod = sync.pod /\ sync'.spec = sync.spec /\ sync'.redis = sync.redis
  /\ sync'.isPaused = sync.isPaused
  /\ redis'.status = redis.status /\ redis'.queue = redis.queue /\ redis'.pod = redis.pod
  /\ redis'.found = redis.found
  /\ redis.paused /\ sync.spec.paused => redis'.paused
  /\ state \in PAUSED_STATES => redis'.paused
  /\ UNCHANGED <<job, spec, status, files, pod, volume, pvc, api>>

\* The number of pods that have to report, and of those that report v.
Scale ==
  max(Cardinality({p \in Pods : redis.status[p] # None}),
      Cardinality({p \in Pods : sync.pod[p] # None}))
Count(v) == Cardinality({p \in Pods : p < Scale /\ redis.status[p] = v})

\* When update_crawl_state finds the crawl complete or paused.
LEMMA UpdateCases ==
  ASSUME NEW st, NEW failed \in {"failed", "failed_not_logged_in"}
  PROVE  LET state == update_crawl_state(st, failed)
         IN  /\ state \notin EarlyStates
             /\ state = "complete" =>
                  /\ Count("done") + Count("failed") >= Scale
                  /\ pod_done_count >= Count("done")
             /\ state \in PAUSED_STATES =>
                  /\ ~(allCrashed /\ st.lastExit \in {"fatal", "limited"})
                  /\ sync.spec.paused /\ st.stopReason \in PAUSED_STATES
                  /\ Count("interrupted") + Count("failed") >= Scale
<1> DEFINE state == update_crawl_state(st, failed)
           all_completed == Count("done") + Count("failed") >= Scale
           reports == {redis.status[p] : p \in {q \in Pods : q < Scale}}
<1>0. "complete" \notin PAUSED_STATES /\ failed \notin PAUSED_STATES /\ failed # "complete"
      /\ "canceled" \notin PAUSED_STATES /\ failed \notin EarlyStates
      /\ "canceled" \notin EarlyStates
  BY DEF PAUSED_STATES, AUTO_PAUSED_STATES, EarlyStates
<1>1. CASE allCrashed /\ st.lastExit \in {"fatal", "limited"}
  <2>1. state = failed \/ state = "rate-limited"
    BY <1>1 DEF update_crawl_state
  <2>2. "rate-limited" \notin PAUSED_STATES /\ "rate-limited" \notin EarlyStates
    BY DEF PAUSED_STATES, AUTO_PAUSED_STATES, EarlyStates
  <2> QED BY <1>0, <2>1, <2>2
<1>2. CASE ~(allCrashed /\ st.lastExit \in {"fatal", "limited"})
  <2>0. state = CASE ~all_completed /\ sync.spec.paused /\ st.stopReason \in PAUSED_STATES
                     /\ Count("interrupted") + Count("failed") >= Scale ->
                       paused_state(st.stopReason)
                  [] all_completed /\ Count("done") >= 1 /\ pods_exited(Count("done")) ->
                       (IF st.pagesFound = 1 /\ redis.filesAdded = 0
                          THEN failed ELSE completed_state(st.stopReason))
                  [] all_completed /\ Count("done") = 0 /\ Count("failed") > 0 ->
                       (IF st.stopping /\ ~redis.done THEN "canceled" ELSE failed)
                  [] OTHER -> running_state(reports)
    BY <1>2 DEF update_crawl_state, Count, Scale
  <2>1. CASE /\ ~all_completed /\ sync.spec.paused /\ st.stopReason \in PAUSED_STATES
             /\ Count("interrupted") + Count("failed") >= Scale
    <3>1. state = paused_state(st.stopReason)
      BY <2>0, <2>1
    <3>2. paused_state(st.stopReason) # "complete" /\ paused_state(st.stopReason) \notin EarlyStates
      BY <1>0 DEF paused_state, AUTO_PAUSED_STATES, EarlyStates
    <3> QED BY <1>2, <2>1, <3>1, <3>2
  <2>2. CASE all_completed /\ Count("done") >= 1 /\ pods_exited(Count("done"))
    <3>1. state = failed \/ state = completed_state(st.stopReason)
      BY <2>0, <2>2
    <3>2. completed_state(st.stopReason) \notin PAUSED_STATES \cup EarlyStates
      BY DEF completed_state, PAUSED_STATES, AUTO_PAUSED_STATES, EarlyStates
    <3> QED BY <1>0, <2>2, <3>1, <3>2 DEF pods_exited
  <2>3. CASE all_completed /\ Count("done") = 0 /\ Count("failed") > 0
             /\ ~(Count("done") >= 1 /\ pods_exited(Count("done")))
    <3>1. state \in {failed, "canceled"}
      BY <2>0, <2>3
    <3> QED BY <1>0, <3>1
  <2>4. CASE /\ ~(~all_completed /\ sync.spec.paused /\ st.stopReason \in PAUSED_STATES
                  /\ Count("interrupted") + Count("failed") >= Scale)
             /\ ~(all_completed /\ Count("done") >= 1 /\ pods_exited(Count("done")))
             /\ ~(all_completed /\ Count("done") = 0 /\ Count("failed") > 0)
    <3>1. state = running_state(reports)
      BY <2>0, <2>4
    <3>2. running_state(reports) \notin PAUSED_STATES \cup EarlyStates \cup {"complete"}
      BY DEF running_state, PAUSED_STATES, AUTO_PAUSED_STATES, EarlyStates
    <3> QED BY <3>1, <3>2
  <2> QED BY <2>1, <2>2, <2>3, <2>4
<1> QED BY <1>1, <1>2

LEMMA UpdateFacts ==
  ASSUME Timely, Timely', NEW cond \in Conditions, NEW failed \in {"failed", "failed_not_logged_in"},
         SyncUpdate(cond, failed)
  PROVE  \E st, ok : UpdateOf(st, update_crawl_state(st, failed), ok)
<1> DEFINE resumed == sync.st.stopReason \in PAUSED_STATES /\ ~sync.spec.paused
           st1 == [sync.st EXCEPT
                     !.pagesFound = redis.found,
                     !.sizePending = volume,
                     !.stopReason = IF resumed THEN None ELSE @,
                     !.stopping = @ /\ ~resumed]
           reason == is_crawl_stopping(sync.spec, st1.stopReason, cond)
           st2 == IF st1.stopping THEN st1
                  ELSE [st1 EXCEPT !.stopReason = reason, !.stopping = reason # None]
           state == update_crawl_state(st2, failed)
           crashed == allCrashed /\ st2.lastExit \in {"fatal", "limited"}
           r == IF state \in NON_RUNNING_STATES
                  THEN mark_finished(st2, db, state)
                  ELSE set_state(st2, db, state, RUNNING_AND_WAITING_STATES, FALSE)
           limited == r.st.rateLimited \/ (r.ok /\ state = "rate-limited")
           st3 == [r.st EXCEPT !.rateLimited = limited]
           ok == r.ok /\ state \in NON_RUNNING_STATES
           p == (redis.paused /\ ~resumed)
                \/ (~crashed /\ st2.stopping /\ st2.stopReason \in PAUSED_STATES)
           s == redis.stopping \/ (~crashed /\ st2.stopping
                                   /\ st2.stopReason \notin PAUSED_STATES)
<1>1. /\ db' = r.db
      /\ StartTasks(ok, state)
      /\ IF st3.finished THEN Answer("final", st3) ELSE Goto("paused", st3)
      /\ redis' = [redis EXCEPT !.paused = p, !.stopping = s]
      /\ UNCHANGED <<job, spec, status, files, pod, volume, pvc, api>>
  BY DEF SyncUpdate
<1>2. /\ redis'.status = redis.status /\ redis'.queue = redis.queue /\ redis'.pod = redis.pod
      /\ redis'.found = redis.found /\ redis'.paused = p
  BY <1>1, Fields DEF Redis
<1>3. redis.paused /\ sync.spec.paused => p
  OBVIOUS
<1>4. state \in PAUSED_STATES /\ st2.stopping => p
  BY UpdateCases
<1>5. resumed \in BOOLEAN
  BY Fields DEF CrawlSpec
<1> HIDE DEF resumed
<1>6. /\ st1 \in CrawlStatus /\ st1.state = sync.st.state /\ st1.finished = sync.st.finished
      /\ st1.pagesFound = redis.found /\ st1.sizePending = volume
      /\ st1.initRedis = sync.st.initRedis
  BY <1>5, Fields DEF CrawlStatus
<1> HIDE DEF st1
<1>7. reason \in StopReason \cup {None}
  BY Fields, StopReasons
<1> HIDE DEF reason
<1>8. /\ st2 \in CrawlStatus /\ st2.state = sync.st.state /\ st2.finished = sync.st.finished
      /\ st2.pagesFound = redis.found /\ st2.sizePending = volume
      /\ st2.initRedis = sync.st.initRedis
  BY <1>6, <1>7 DEF CrawlStatus
<1>9. st2.stopReason \in PAUSED_STATES => st2.stopping
  BY <1>6, <1>7, Paused DEF CrawlStatus
<1>10. StatusOK(st2, db)
  BY <1>8, Fields DEF StatusOK, Timely, Inv
<1> HIDE DEF st2
<1>11. state \in ALL_CRAWL_STATES
  BY RequestedState
<1>12. state \in PAUSED_STATES => p
  BY <1>4, <1>9, UpdateCases
<1> HIDE DEF state, p, s
<1>13. /\ Outcome(st2, db, state, RUNNING_AND_WAITING_STATES, r) /\ SameWork(st2, r.st)
       /\ state \in NON_RUNNING_STATES => r.st.finished
  <2>1. CASE state \in NON_RUNNING_STATES
    BY <1>8, <1>10, <1>11, <2>1, MarkFinished, MarkFinishedFields, Fields DEF Timely, Inv
  <2>2. CASE state \notin NON_RUNNING_STATES
    <3>1. state \in RUNNING_AND_WAITING_STATES
      BY <1>11, <2>2, StateFacts
    <3> QED BY <1>8, <1>10, <1>11, <2>2, <3>1, SetWaiting, SetStateFields, Fields DEF Timely, Inv
  <2> QED BY <2>1, <2>2
<1>14. ASSUME Active', sync.st.state = db.state
       PROVE  r.st.state = r.db.state /\ r.db.state = state
  <2>1. state \notin NON_RUNNING_STATES
    BY <1>1, <1>8, <1>10, <1>14, MarkFinished, Fields DEF Timely, Inv, Active, Outcome
  <2>2. db.state \in RUNNING_AND_WAITING_STATES
    <3>1. Active
      BY <1>1, <1>13, <1>14 DEF Outcome, Active
    <3> QED BY <3>1, ActiveStates
  <2> DEFINE no == FALSE
  <2>3. r = set_state(st2, db, state, RUNNING_AND_WAITING_STATES, no)
    BY <2>1
  <2>4. st2.state = db.state /\ st2.state \in RUNNING_AND_WAITING_STATES
    BY <1>8, <1>14, <2>2
  <2> HIDE DEF r, no
  <2> QED BY <1>8, <1>11, <2>3, <2>4, Fields, SetRunning
<1>15. ok \in BOOLEAN /\ (ok => state \in NON_RUNNING_STATES)
  BY <1>13 DEF Outcome
<1>16. r.st \in CrawlStatus /\ limited \in BOOLEAN
  BY <1>13 DEF Outcome, CrawlStatus
<1> HIDE DEF r, ok, limited
<1>17. /\ st3.state = r.st.state /\ st3.finished = r.st.finished /\ SameWork(st2, st3)
       /\ st3.finished \in BOOLEAN
  BY <1>13, <1>16 DEF CrawlStatus, SameWork
<1> HIDE DEF st3
<1>18. /\ sync'.st = st3 /\ sync'.pc = IF st3.finished THEN "answer" ELSE "paused"
       /\ sync'.pod = sync.pod /\ sync'.spec = sync.spec /\ sync'.redis = sync.redis
       /\ sync'.isPaused = sync.isPaused
  BY <1>1, AnswerFields, GotoFields
<1>19. UpdateOf(st2, state, ok)
  BY <1>1, <1>2, <1>3, <1>8, <1>9, <1>12, <1>13, <1>14, <1>15, <1>17, <1>18
     DEF UpdateOf, Outcome
<1> QED BY <1>19 DEF state
-----------------------------------------------------------------------------
(***************************************************************************)
(* Failed crawls.                                                          *)
(***************************************************************************)

\* A step that touches neither files nor announcements keeps FailedInv if no request
\* begins to work.
LEMMA FailedQuiet ==
  ASSUME Timely, FailedInv, files'.db = files.db, files'.org = files.org,
         db'.state # None => db.state # None,
         hist'.faults = 0 => hist.faults = 0, hist'.notified = hist.notified,
         \A t \in tasks' : t \in tasks \/ t.pc = "cleanup",
         NobodyAdds'
  PROVE  FailedInv'
BY DEF FailedInv, OrgCounted, Cleaned

\* A part of a request that does more than to end or to answer it is at work for a
\* crawl whose coroutine has not started.
LEMMA AtWork ==
  ASSUME Timely, FailedInv,
         \/ sync.pc \in {"state", "files", "add", "update", "paused"}
         \/ sync.pc = "start" /\ ~sync.st.finished,
         hist.faults = 0
  PROVE  hist.started = 0 /\ tasks = {} /\ hist.notified = {}
<1>1. ~(hist.started > 0)
  BY DEF FailedInv, NobodyAdds
<1>2. hist.started = 0
  BY <1>1, Fields
<1> QED BY <1>2 DEF Timely, Inv, TasksFollowDocument

\* A request that goes on without starting the coroutine, or ends the crawl.
LEMMA FailedRequest ==
  ASSUME Timely, FailedInv, Settled, files' = files, NEW ok \in BOOLEAN, NEW state,
         StartTasks(ok, state), status' = status,
         \/ sync.pc \in {"state", "files", "add", "update", "paused"}
         \/ sync.pc = "start" /\ ~sync.st.finished,
         ok => sync'.pc = "answer" /\ sync'.st.finished
  PROVE  FailedInv'
<1>1. NobodyAdds'
  BY AtWork, StartTasksFields, Fields DEF NobodyAdds
<1>2. db'.state # None => db.state # None
  BY DEF Settled, DocumentOver
<1> QED BY <1>1, <1>2, StartTasksFields, FailedQuiet

\* A step of others than the operator: the job and the cluster change.
LEMMA FailedOther ==
  ASSUME Timely, FailedInv, Settled, files'.db = files.db, files'.org = files.org,
         sync' = sync, status' = status, tasks' \subseteq tasks,
         hist'.faults = 0 => hist.faults = 0, hist'.notified = hist.notified,
         hist'.started = hist.started
  PROVE  FailedInv'
<1>1. NobodyAdds'
  BY DEF FailedInv, NobodyAdds
<1>2. db'.state # None => db.state # None
  BY DEF Settled, DocumentOver
<1> QED BY <1>1, <1>2, FailedQuiet

\* After a fault nothing is claimed of failed crawls.
LEMMA FailedFault ==
  ASSUME Timely, FailedInv, Settled, files' = files, hist'.faults # 0
  PROVE  FailedInv'
<1>1. db'.state # None => db.state # None
  BY DEF Settled, DocumentOver
<1> QED BY <1>1 DEF FailedInv, OrgCounted, NobodyAdds, Cleaned

\* Parts of a request that leave the coroutines alone.
LEMMA FailedParts ==
  ASSUME Timely, FailedInv, Settled,
         \/ SyncAtOrgLimit \/ SyncAwaitIndex \/ SyncAdmitted \/ SyncNoPods
         \/ \E late, idle \in BOOLEAN : SyncNoCrawler(late, idle)
         \/ SyncCrawler \/ SyncPop \/ SyncDrained
  PROVE  FailedInv'
<1>1. /\ files' = files /\ status' = status /\ tasks' = tasks /\ hist' = hist
      /\ \/ sync.pc \in {"state", "files", "add", "update", "paused"}
         \/ sync.pc = "start" /\ ~sync.st.finished
  BY DEF SyncAtOrgLimit, SyncAwaitIndex, SyncAdmitted, SyncNoPods, SyncNoCrawler, SyncCrawler,
         SyncPop, SyncDrained, Unfinished
<1> QED BY <1>1, NoTasks, FailedRequest

\* Redis fails.
LEMMA FailedRedisError ==
  ASSUME Timely, FailedInv, Settled, SyncRedisError
  PROVE  FailedInv'
<1>1. /\ files' = files /\ status' = status /\ tasks' = tasks /\ hist'.faults = hist.faults
      /\ hist'.started = hist.started /\ hist'.notified = hist.notified
      /\ sync.pc \in {"files", "add", "update"}
  BY Fields DEF SyncRedisError, History
<1>2. NobodyAdds'
  BY <1>1, AtWork, Fields DEF NobodyAdds
<1>3. db'.state # None => db.state # None
  BY DEF Settled, DocumentOver
<1> QED BY <1>1, <1>2, <1>3, FailedQuiet

\* add_file_to_crawl: the coroutine has not started.
LEMMA FailedAdd ==
  ASSUME Timely, FailedInv, Settled, SyncAddFile
  PROVE  FailedInv'
<1>1. /\ status' = status /\ tasks' = tasks /\ hist' = hist /\ sync.pc = "add" /\ db' = db
      /\ files' = [files EXCEPT !.db = IF db.state = None THEN @ ELSE @ + 1, !.org = @ + 1]
  BY DEF SyncAddFile
<1>2. files'.org = files.org + 1 /\ (db.state # None => files'.db = files.db + 1)
  BY <1>1, Fields DEF Files
<1>3. OrgCounted'
  BY <1>1, <1>2 DEF FailedInv, OrgCounted
<1>4. hist.faults = 0 => hist.started = 0 /\ tasks = {} /\ hist.notified = {}
  BY <1>1, AtWork
<1>5. NobodyAdds' /\ Cleaned'
  BY <1>1, <1>4, Fields DEF NobodyAdds, Cleaned
<1> QED BY <1>3, <1>5 DEF FailedInv

\* A request that ends the crawl, or finds it ended, before it looks at the pods.
Ending ==
  \/ SyncFinalize \/ SyncFinished
  \/ \E state \in {"skipped_storage_quota_reached", "skipped_time_quota_reached"} :
       SyncSkip(state)

LEMMA EndFields ==
  ASSUME Timely, Ending
  PROVE  /\ sync.pc = "start" /\ sync'.pc = "answer" /\ sync'.st.finished
         /\ sync'.pod = sync.pod /\ sync'.spec = sync.spec /\ sync'.redis = sync.redis
         /\ \E state : \E ok \in BOOLEAN : StartTasks(ok, state)
         /\ db'.state = "complete" => db.state = "complete"
         /\ UNCHANGED <<spec, status, files, redis, pod, volume>>
<1>0. /\ sync.pc = "start" /\ UNCHANGED <<spec, status, files, redis, pod, volume>>
  BY DEF Ending, SyncFinalize, SyncFinished, SyncSkip, Unfinished, cluster
<1> DEFINE Ends(kind, state) ==
             LET r == mark_finished(sync.st, db, state)
             IN  StartTasks(r.ok, state) /\ Answer(kind, r.st) /\ db' = r.db
           States == {"canceled", "skipped_storage_quota_reached", "skipped_time_quota_reached"}
<1>1. CASE SyncFinished \/ (SyncFinalize /\ sync.st.finished)
  <2>1. Answer("final", sync.st) /\ db' = db /\ sync.st.finished
    BY <1>1 DEF SyncFinished, SyncFinalize
  <2>2. tasks' = tasks /\ hist' = hist
    BY <1>1 DEF SyncFinished, SyncFinalize, StartTasks
  <2>3. StartTasks(FALSE, "canceled")
    BY <2>2, NoTasks
  <2> QED BY <1>0, <2>1, <2>3, AnswerFields
<1>2. ASSUME NEW kind \in {"final", "empty"}, NEW state \in States, Ends(kind, state)
      PROVE  /\ sync'.pc = "answer" /\ sync'.st.finished
             /\ sync'.pod = sync.pod /\ sync'.spec = sync.spec /\ sync'.redis = sync.redis
             /\ \E s : \E ok \in BOOLEAN : StartTasks(ok, s)
             /\ db'.state = "complete" => db.state = "complete"
  <2> DEFINE r == mark_finished(sync.st, db, state)
  <2>1. state \in NON_RUNNING_STATES /\ state # "complete"
    BY DEF NON_RUNNING_STATES, FAILED_STATES
  <2>2. r.ok \in BOOLEAN /\ r.st.finished /\ (r.db.state # db.state => r.db.state = state)
    BY <2>1, RequestFacts, MarkFinished DEF Outcome, Timely
  <2>3. StartTasks(r.ok, state) /\ Answer(kind, r.st) /\ db' = r.db
    BY <1>2
  <2> HIDE DEF r
  <2> QED BY <2>1, <2>2, <2>3, AnswerFields
<1>3. CASE SyncFinalize /\ ~sync.st.finished
  <2>1. Ends("final", "canceled")
    BY <1>3 DEF SyncFinalize
  <2> QED BY <1>0, <1>2, <2>1
<1>4. ASSUME NEW state \in {"skipped_storage_quota_reached", "skipped_time_quota_reached"},
             SyncSkip(state)
      PROVE  Ends("empty", state)
  BY <1>4 DEF SyncSkip
<1> HIDE DEF Ends
<1> QED BY <1>0, <1>1, <1>2, <1>3, <1>4 DEF Ending

LEMMA FailedEnd ==
  ASSUME Timely, FailedInv, Settled, Ending
  PROVE  FailedInv'
<1>1. NobodyAdds'
  BY EndFields DEF NobodyAdds
<1>2. db'.state # None => db.state # None
  BY DEF Settled, DocumentOver
<1> QED BY <1>1, <1>2, EndFields, StartTasksFields, FailedQuiet

\* The crawl is ended by the results of its pods, or while it is paused.
LEMMA FailedUpdate ==
  ASSUME Timely, Timely', FailedInv, Settled, NEW cond \in Conditions,
         NEW failed \in {"failed", "failed_not_logged_in"}, SyncUpdate(cond, failed)
  PROVE  FailedInv'
<1>1. PICK st, ok : UpdateOf(st, update_crawl_state(st, failed), ok)
  BY UpdateFacts
<1> DEFINE state == update_crawl_state(st, failed)
<1>2. /\ ok \in BOOLEAN /\ StartTasks(ok, state) /\ files' = files /\ status' = status
      /\ ok => sync'.pc = "answer" /\ sync'.st.finished
  BY <1>1 DEF UpdateOf
<1>3. sync.pc = "update"
  BY DEF SyncUpdate
<1> HIDE DEF state
<1> QED BY <1>2, <1>3, FailedRequest

\* What ending a paused crawl does.
LEMMA PausedFields ==
  ASSUME Timely, NEW expired \in BOOLEAN, SyncPaused(expired)
  PROVE  /\ sync'.pc = "answer" /\ sync'.answer = "run" /\ SameWork(sync.st, sync'.st)
         /\ sync'.pod = sync.pod /\ sync'.spec = sync.spec /\ sync'.redis = sync.redis
         /\ sync'.isPaused = sync.isPaused
         /\ \E state : \E ok \in BOOLEAN : StartTasks(ok, state) /\ (ok => sync'.st.finished)
         /\ \/ sync'.st = sync.st /\ db' = db
            \/ sync'.st.finished
<1> DEFINE state == paused_end(sync.spec, expired)
           st == [sync.st EXCEPT !.stopping = TRUE, !.stopReason = state]
           r == IF state = None THEN [st |-> sync.st, db |-> db, ok |-> FALSE]
                ELSE mark_finished(st, db, state)
<1>1. db' = r.db /\ StartTasks(r.ok, state) /\ Answer("run", r.st)
  BY DEF SyncPaused
<1>2. CASE state = None
  <2>1. Answer("run", sync.st) /\ db' = db /\ StartTasks(FALSE, state)
    BY <1>1, <1>2
  <2> QED BY <2>1, AnswerFields DEF SameWork
<1>3. CASE state # None
  <2>1. state \in {"stopped_pause_expired", "stopped_by_user"}
    BY <1>3 DEF paused_end
  <2>2. state \in NON_RUNNING_STATES /\ state \in ALL_CRAWL_STATES /\ state \in StopReason
    BY <2>1, StateFacts DEF NON_RUNNING_STATES, SUCCESSFUL_STATES, StopReason
  <2>3. Answer("run", mark_finished(st, db, state).st)
        /\ StartTasks(mark_finished(st, db, state).ok, state)
    BY <1>1, <1>3
  <2> HIDE DEF state
  <2>4. st \in CrawlStatus /\ StatusOK(st, db) /\ SameWork(sync.st, st)
    BY <2>2, Fields DEF CrawlStatus, StatusOK, Timely, Inv, SameWork
  <2> HIDE DEF st
  <2>5. /\ SameWork(st, mark_finished(st, db, state).st)
        /\ mark_finished(st, db, state).st.finished
        /\ mark_finished(st, db, state).ok \in BOOLEAN
    BY <2>2, <2>4, RequestFacts, MarkFinished, MarkFinishedFields DEF Outcome, Timely
  <2>6. SameWork(sync.st, mark_finished(st, db, state).st)
    BY <2>4, <2>5 DEF SameWork
  <2> QED BY <2>3, <2>5, <2>6, AnswerFields
<1> QED BY <1>2, <1>3

LEMMA FailedPaused ==
  ASSUME Timely, FailedInv, Settled, NEW expired \in BOOLEAN, SyncPaused(expired)
  PROVE  FailedInv'
<1>1. sync.pc = "paused" /\ files' = files /\ status' = status
  BY DEF SyncPaused
<1> QED BY <1>1, PausedFields, FailedRequest

\* The snapshot and the answers move the status between the job and the request.
LEMMA FailedAnswer ==
  ASSUME Timely, FailedInv, Settled,
         \/ SyncBegin \/ AnswerRun \/ AnswerEmpty
         \/ \E expired \in BOOLEAN : AnswerFinal(expired)
  PROVE  FailedInv'
<1>1. /\ files' = files /\ tasks' = tasks /\ hist'.faults = hist.faults
      /\ hist'.started = hist.started /\ hist'.notified = hist.notified
  BY Fields DEF SyncBegin, AnswerRun, AnswerEmpty, AnswerFinal, History
<1>2. CASE SyncBegin
  <2>1. sync.pc = "idle" /\ sync'.pc = "start" /\ sync'.st = status
    BY <1>2 DEF SyncBegin, IdleSync
  <2> QED BY <1>1, <2>1, FailedQuiet DEF FailedInv, NobodyAdds, Settled, DocumentOver
<1>3. CASE ~SyncBegin
  <2>1. sync.pc = "answer" /\ sync'.pc = "idle" /\ status' = sync.st
    BY <1>3, IdleFields DEF AnswerRun, AnswerEmpty, AnswerFinal
  <2> QED BY <1>1, <2>1, FailedQuiet DEF FailedInv, NobodyAdds, Settled, DocumentOver
<1> QED BY <1>2, <1>3

\* do_crawl_finished_tasks.
LEMMA FailedTask ==
  ASSUME Timely, FailedInv, Settled, TaskStep
  PROVE  FailedInv'
<1>1. ASSUME NEW t \in tasks, TaskCleanup(t)
      PROVE  FailedInv'
  <2>0. /\ t.pc = "cleanup" /\ db' = db /\ sync' = sync /\ status' = status /\ hist' = hist
        /\ t \in Task
    BY <1>1, Fields DEF TaskCleanup
  <2>1. NobodyAdds'
    BY <2>0 DEF FailedInv, NobodyAdds
  <2> DEFINE u == [t EXCEPT !.pc = "notify"]
  <2>2. u.state = t.state /\ u.pc = "notify"
    BY <2>0 DEF Task
  <2> HIDE DEF u
  <2>3. CASE t.state \notin FAILED_STATES
    <3>1. files' = files /\ tasks' = (tasks \ {t}) \cup {u}
      BY <1>1, <2>3 DEF TaskCleanup, u
    <3> QED BY <2>0, <2>1, <2>2, <2>3, <3>1 DEF FailedInv, OrgCounted, Cleaned
  <2>4. CASE t.state \in FAILED_STATES /\ db.state # None
    <3>1. files' = without_files(files) /\ tasks' = (tasks \ {t}) \cup {u}
      BY <1>1, <2>4 DEF TaskCleanup, u
    <3>2. files'.db = 0 /\ files'.org = files.org - files.db
      BY <3>1, Fields DEF without_files, Files
    <3>3. files'.org = 0
      BY <2>4, <3>2, Fields DEF FailedInv, OrgCounted
    <3> QED BY <2>1, <3>2, <3>3 DEF FailedInv, OrgCounted, Cleaned
  <2>5. CASE db.state = None
    BY <2>0, <2>1, <2>5 DEF FailedInv, OrgCounted, Cleaned
  <2> QED BY <2>3, <2>4, <2>5
<1>2. ASSUME NEW t \in tasks, TaskNotify(t)
      PROVE  FailedInv'
  <2>0. /\ t.pc = "notify" /\ db' = db /\ sync' = sync /\ status' = status /\ files' = files
        /\ hist'.faults = hist.faults /\ hist'.started = hist.started
        /\ db.state # None => hist'.notified = hist.notified \cup {t.state}
    BY <1>2, Fields DEF TaskNotify, History
  <2>1. NobodyAdds'
    BY <2>0 DEF FailedInv, NobodyAdds
  <2> DEFINE u == [t EXCEPT !.pc = "delete"]
  <2>2. u.state = t.state
    BY Fields DEF Task
  <2>3. tasks' \subseteq tasks \cup {u}
    BY <1>2 DEF TaskNotify
  <2> HIDE DEF u
  <2> QED BY <2>0, <2>1, <2>2, <2>3 DEF FailedInv, OrgCounted, Cleaned
<1>3. ASSUME \/ \E t \in tasks : TaskDeleteJob(t)
             \/ AsyncDelete \/ AsyncPause
      PROVE  FailedInv'
  <2>1. /\ files' = files /\ sync' = sync /\ status' = status /\ tasks' \subseteq tasks
        /\ hist' = hist
    BY <1>3 DEF TaskDeleteJob, AsyncDelete, AsyncPause
  <2> QED BY <2>1, FailedOther
<1> QED BY <1>1, <1>2, <1>3 DEF TaskStep

\* The API.
LEMMA FailedApi ==
  ASSUME Timely, FailedInv, Settled, ApiStep
  PROVE  FailedInv'
<1>1. /\ sync' = sync /\ status' = status /\ tasks' = tasks
      /\ hist'.faults = hist.faults /\ hist'.started = hist.started
      /\ hist'.notified = hist.notified
  BY Fields DEF ApiStep, ApiStop, ApiPause, ApiResume, ApiCancel, ApiDeleteBegin, ApiDeleteEnd,
     CronCreateJob, CronFinished, History
<1>2. CASE ApiDeleteEnd
  <2>1. db'.state = None
    BY <1>2 DEF ApiDeleteEnd
  <2> QED BY <1>1, <2>1 DEF FailedInv, OrgCounted, Cleaned, NobodyAdds
<1>3. CASE ~ApiDeleteEnd
  <2>1. files' = files
    BY <1>3 DEF ApiStep, ApiStop, ApiPause, ApiResume, ApiCancel, ApiDeleteBegin,
       CronCreateJob, CronFinished
  <2> QED BY <1>1, <2>1, FailedOther
<1> QED BY <1>2, <1>3

\* The cluster, the crawlers and faults.
LEMMA FailedCluster ==
  ASSUME Timely, FailedInv, Settled,
         \/ \E p \in Pods : CrawlerStep(p)
         \/ RedisStart \/ RedisRestart \/ CrawlerRateLimit \/ OperatorRestart \/ AnswerLost
  PROVE  FailedInv'
<1>1. CASE OperatorRestart \/ AnswerLost \/ RedisRestart \/ \E p \in Pods : PodEvict(p)
  <2>1. files' = files /\ hist'.faults # 0
    BY <1>1, FaultFields DEF OperatorRestart, AnswerLost, RedisRestart, PodEvict
  <2> QED BY <2>1, FailedFault
<1>2. CASE RedisStart \/ CrawlerRateLimit
  BY <1>2, FailedOther DEF RedisStart, CrawlerRateLimit, operator_and_api
<1>3. ASSUME NEW p \in Pods, CrawlerStep(p), ~PodEvict(p)
      PROVE  FailedInv'
  <2>1. sync' = sync /\ status' = status /\ tasks' = tasks
    BY <1>3 DEF CrawlerStep, PodStart, PodRestart, PodSucceed, PodExit, CrawlerStart,
       CrawlerPage, CrawlerUpload, CrawlerEnd, CrawlerFail, CrawlerPackage, operator_and_api
  <2>2. /\ hist'.faults = hist.faults /\ hist'.started = hist.started
        /\ hist'.notified = hist.notified
    BY <1>3, Fields DEF CrawlerStep, PodStart, PodRestart, PodSucceed, PodExit, CrawlerStart,
       CrawlerPage, CrawlerUpload, CrawlerEnd, CrawlerFail, CrawlerPackage, History
  <2>3. files'.db = files.db /\ files'.org = files.org
    BY <1>3, Fields DEF CrawlerStep, PodStart, PodRestart, PodSucceed, PodExit, CrawlerStart,
       CrawlerPage, CrawlerUpload, CrawlerEnd, CrawlerFail, CrawlerPackage, Files
  <2> QED BY <2>1, <2>2, <2>3, FailedOther
<1> QED BY <1>1, <1>2, <1>3 DEF CrawlerStep

\* Every step keeps FailedInv.
LEMMA FailedStep ==
  ASSUME Timely, Timely', FailedInv, Onward
  PROVE  FailedInv'
<1>0. Settled
  BY NextInv DEF Timely, Onward
<1>1. CASE SyncStep
  <2>1. \A expired \in (IF "expiry" \in Events THEN BOOLEAN ELSE {FALSE}) : expired \in BOOLEAN
    OBVIOUS
  <2> QED BY <1>0, <1>1, <2>1, FailedParts, FailedRedisError, FailedAdd, FailedEnd, FailedUpdate,
             FailedPaused, FailedAnswer, Zenon DEF SyncStep, Ending
<1>2. CASE UNCHANGED vars
  BY <1>0, <1>2, FailedOther DEF vars
<1> QED BY <1>0, <1>1, <1>2, FailedTask, FailedApi, FailedCluster DEF Onward, Next

LEMMA AddFailed ==
  ASSUME Inv, ApiAddCrawl, ~overtaken'
  PROVE  FailedInv'
<1>1. /\ hist.started = 0 /\ files.db = 0 /\ files.org = 0
      /\ UNCHANGED <<hist, files, tasks>>
  BY Added DEF Timely, not_begun
<1>2. tasks = {} /\ hist.notified = {}
  BY <1>1 DEF Inv, TasksFollowDocument
<1> QED BY <1>1, <1>2 DEF FailedInv, OrgCounted, NobodyAdds, Cleaned

LEMMA InitFailed == Init => FailedInv
BY DEF Init, FailedInv, OrgCounted, NobodyAdds, Cleaned

\* When a failed or canceled crawl is announced its files are gone, from the document
\* and from the org's quota (delete_failed_crawl_files before the notification in
\* do_crawl_finished_tasks), and no request of the operator adds another one.
THEOREM FailedSafe == Spec => []FailedHasNoFiles
<1>1. Timely /\ FailedInv => FailedHasNoFiles
  BY Fields DEF FailedInv, OrgCounted, Cleaned, FailedHasNoFiles
<1>2. Inv /\ Inv' /\ (overtaken \/ FailedInv) /\ [Next]_vars => (overtaken \/ FailedInv)'
  BY OvertakenStays, FailedStep, AddFailed DEF Timely, Onward
<1>3. overtaken => FailedHasNoFiles
  BY DEF FailedHasNoFiles
<1>4. Init => overtaken \/ FailedInv
  BY InitFailed
<1>5. Inv /\ (overtaken \/ FailedInv) => FailedHasNoFiles
  BY <1>1, <1>3 DEF Timely
<1> QED BY <1>2, <1>4, <1>5, Invariance, PTL DEF Spec
-----------------------------------------------------------------------------
(***************************************************************************)
(* Counting pods.                                                          *)
(***************************************************************************)
LEMMA FinitePods ==
  ASSUME NEW S \in SUBSET Pods
  PROVE  IsFiniteSet(S) /\ Cardinality(S) \in Nat /\ Cardinality(S) <= NumPods
<1>1. IsFiniteSet(Pods) /\ Cardinality(Pods) = NumPods
  BY FS_Interval, NumPodsAssumption DEF Pods
<1> QED BY <1>1, FS_Subset, FS_CardinalityType

\* Two disjoint parts that are as many as the whole are the whole.
LEMMA TwoParts ==
  ASSUME NEW R \in SUBSET Pods, NEW A \in SUBSET R, NEW B \in SUBSET R, A \cap B = {},
         Cardinality(A) + Cardinality(B) >= Cardinality(R)
  PROVE  A \cup B = R /\ Cardinality(A) + Cardinality(B) = Cardinality(R)
<1>1. /\ IsFiniteSet(R) /\ IsFiniteSet(A) /\ IsFiniteSet(B)
      /\ Cardinality(R) \in Nat /\ Cardinality(A) \in Nat /\ Cardinality(B) \in Nat
  BY FinitePods
<1>2. Cardinality(A \cap B) = 0
  BY FS_EmptySet
<1>3. Cardinality(A \cup B) = Cardinality(A) + Cardinality(B)
  <2>1. Cardinality(A \cup B) = Cardinality(A) + Cardinality(B) - Cardinality(A \cap B)
    BY <1>1, FS_Union
  <2> QED BY <1>1, <1>2, <2>1
<1>4. /\ Cardinality(A \cup B) <= Cardinality(R)
      /\ Cardinality(R) = Cardinality(A \cup B) => R = A \cup B
  BY <1>1, FS_Subset
<1>5. Cardinality(R) = Cardinality(A \cup B)
  BY <1>1, <1>3, <1>4
<1> QED BY <1>3, <1>4, <1>5

\* When the pods below the scale that report v or w are as many as the scale, the pods
\* that report anything are those below the scale, and they report v or w.
LEMMA AllReport ==
  ASSUME Timely, NEW v \in CrawlerStatus \ {None}, NEW w \in CrawlerStatus \ {None}, v # w,
         Count(v) + Count(w) >= Scale
  PROVE  /\ Scale \in Nat
         /\ Cardinality({p \in Pods : sync.pod[p] # None}) <= Scale
         /\ \A p \in Pods : redis.status[p] # None <=> p < Scale
         /\ \A p \in Pods : redis.status[p] \in {None, v, w}
<1> DEFINE R == {p \in Pods : redis.status[p] # None}
           A == {p \in Pods : p < Scale /\ redis.status[p] = v}
           B == {p \in Pods : p < Scale /\ redis.status[p] = w}
           S == {p \in Pods : sync.pod[p] # None}
<1>1. /\ R \in SUBSET Pods /\ A \in SUBSET R /\ B \in SUBSET R /\ A \cap B = {}
      /\ S \in SUBSET Pods
  OBVIOUS
<1>2. Cardinality(A) + Cardinality(B) >= Scale
  BY DEF Count
<1>3. Scale = max(Cardinality(R), Cardinality(S))
  BY DEF Scale
<1>4. \A p \in A \cup B : p < Scale
  OBVIOUS
<1>5. \A p \in A : redis.status[p] = v
  OBVIOUS
<1>6. \A p \in B : redis.status[p] = w
  OBVIOUS
<1>7. \A p \in Pods : redis.status[p] # None <=> p \in R
  OBVIOUS
<1> HIDE DEF A, B
<1>8. Cardinality(R) \in Nat /\ Cardinality(S) \in Nat /\ Cardinality(A) \in Nat
      /\ Cardinality(B) \in Nat /\ Cardinality(R) <= NumPods /\ Cardinality(S) <= NumPods
  BY <1>1, FinitePods
<1> HIDE DEF R, S
<1>9. /\ Scale \in Nat /\ Scale <= NumPods /\ Cardinality(R) <= Scale
      /\ Cardinality(S) <= Scale
  BY <1>3, <1>8 DEF max
<1>10. Cardinality(A) + Cardinality(B) >= Cardinality(R)
  BY <1>2, <1>8, <1>9
<1>11. A \cup B = R /\ Cardinality(A) + Cardinality(B) = Cardinality(R)
  BY <1>1, <1>10, TwoParts
<1>12. Cardinality(R) = Scale
  BY <1>2, <1>8, <1>9, <1>11
<1>13. R = 0 .. Scale - 1
  <2>1. \A p \in R : p \in Nat /\ p < Scale
    BY <1>1, <1>4, <1>11, NumPodsAssumption DEF Pods
  <2>2. R \subseteq 0 .. Scale - 1
    BY <1>9, <2>1
  <2>3. Scale - 1 \in Int
    BY <1>9
  <2>4. IsFiniteSet(0 .. Scale - 1) /\ Cardinality(0 .. Scale - 1) = Scale
    BY <1>9, <2>3, FS_Interval
  <2> QED BY <1>12, <2>2, <2>4, FS_Subset
<1>14. \A p \in Pods : p \in R <=> p < Scale
  BY <1>9, <1>13, NumPodsAssumption DEF Pods
<1>15. \A p \in Pods : redis.status[p] \in {None, v, w}
  BY <1>5, <1>6, <1>7, <1>11
<1> QED BY <1>7, <1>9, <1>14, <1>15 DEF S

\* When every pod that reports is done or failed and as many have been seen to exit as
\* are done, every pod that is done has been seen to exit.
LEMMA AllExited ==
  ASSUME Timely, ExitedIsDone, \A p \in Pods : redis.status[p] # None <=> p < Scale,
         pod_done_count >= Count("done")
  PROVE  \A p \in Pods : redis.status[p] = "done" => sync.pod[p] = "succeeded"
<1> DEFINE D == {p \in Pods : p < Scale /\ redis.status[p] = "done"}
           E == {p \in Pods : sync.pod[p] = "succeeded"}
<1>1. Cardinality(E) >= Cardinality(D)
  BY DEF pod_done_count, Count
<1>2. D \in SUBSET Pods /\ E \in SUBSET D
  BY DEF ExitedIsDone, None
<1>3. \A p \in Pods : redis.status[p] = "done" => p \in D
  BY DEF None
<1>4. \A p \in E : sync.pod[p] = "succeeded"
  OBVIOUS
<1> HIDE DEF D, E
<1>5. IsFiniteSet(D) /\ Cardinality(D) \in Nat /\ Cardinality(E) \in Nat
  BY <1>2, FinitePods
<1>6. D = E
  BY <1>1, <1>2, <1>5, FS_Subset
<1> QED BY <1>3, <1>4, <1>6
-----------------------------------------------------------------------------
(***************************************************************************)
(* Complete crawls.                                                        *)
(***************************************************************************)

\* A crawl that is active was so before.
LEMMA ActiveBefore ==
  ASSUME Timely, Settled, Active'
  PROVE  Active
BY DEF Settled, Active, DocumentOver, Timely, Inv

\* A step that leaves alone what the crawlers have reported and uploaded.
LEMMA CompleteQuiet ==
  ASSUME Timely, CompleteInv, Settled,
         \A p \in Pods : pod'[p] = "succeeded" =>
                           pod[p] = "succeeded" \/ redis.status[p] = "done",
         \A p \in Pods : sync'.pod[p] = "succeeded" =>
                           pod[p] = "succeeded" \/ sync.pod[p] = "succeeded",
         volume' = volume, redis'.status = redis.status, redis'.queue = redis.queue,
         Active' \/ db'.state = "complete" =>
           files'.db = files.db /\ files'.uploaded = files.uploaded,
         hist'.lost \/ (sync'.pc = "add" <=> sync.pc = "add"),
         sync'.pc = "update" => /\ sync.pc = "update" /\ sync'.pod = sync.pod
                                /\ redis'.paused = redis.paused,
         hist.lost => hist'.lost, hist.late => hist'.late,
         db'.state = "complete" => db.state = "complete"
  PROVE  CompleteInv'
<1>1. ExitedIsDone'
  BY DEF CompleteInv, ExitedIsDone
<1>2. VolumeUsed'
  BY DEF CompleteInv, VolumeUsed
<1>3. AllCounted'
  BY ActiveBefore DEF CompleteInv, AllCounted, Adding
<1>4. QueueBehind'
  BY DEF CompleteInv, QueueBehind, Behind
<1>5. CompleteRests'
  BY DEF CompleteInv, CompleteRests
<1> QED BY <1>1, <1>2, <1>3, <1>4, <1>5 DEF CompleteInv

\* A part of a request on the status and the document alone.
LEMMA CompleteRequest ==
  ASSUME Timely, CompleteInv, Settled, pod' = pod, volume' = volume, files' = files,
         redis'.status = redis.status, redis'.queue = redis.queue,
         sync'.pod = sync.pod, sync'.pc \notin {"add", "update"},
         hist'.lost \/ sync.pc # "add", hist.lost => hist'.lost, hist.late => hist'.late,
         db'.state = "complete" => db.state = "complete"
  PROVE  CompleteInv'
BY CompleteQuiet

LEMMA CompleteEnd ==
  ASSUME Timely, CompleteInv, Settled, Ending
  PROVE  CompleteInv'
BY EndFields, StartTasksFields, CompleteRequest

LEMMA SetStateOf ==
  ASSUME NEW st \in CrawlStatus, NEW d \in Document, NEW state \in ALL_CRAWL_STATES,
         NEW from, NEW finished \in BOOLEAN, NEW r, r = set_state(st, d, state, from, finished)
  PROVE  /\ SameWork(st, r.st)
         /\ st.state = d.state => r.st.state = r.db.state
         /\ st.state = d.state /\ st.state \notin from => r.st.state = st.state
         /\ st.state = d.state /\ st.state \in from => r.st.state = state
BY SetStateFields

\* A crawl that waits is early.
LEMMA EarlyFacts ==
  /\ EarlyStates \subseteq RUNNING_AND_WAITING_STATES /\ EarlyStates \subseteq ALL_CRAWL_STATES
  /\ "complete" \notin EarlyStates /\ None \notin EarlyStates
BY StateFacts, WaitingStates DEF EarlyStates, RUNNING_AND_WAITING_STATES, WAITING_STATES,
   WAITING_NOT_PAUSED_STATES, None

\* leave, for the waiting states.
LEMMA LeaveFields ==
  ASSUME NEW st \in CrawlStatus, NEW d \in Document, StatusOK(st, d), DocumentOK(d),
         NEW waiting \in {"waiting_org_limit", "waiting_dedupe_index"}, NEW r,
         r = leave(st, d, waiting)
  PROVE  /\ Outcome(st, d, "starting", {waiting}, r) /\ StatusOK(r.st, r.db) /\ SameWork(st, r.st)
         /\ st.state = d.state => r.st.state = r.db.state
         /\ st.state = d.state => r.st.state = IF st.state = waiting THEN "starting" ELSE st.state
<1>1. Outcome(st, d, "starting", {waiting}, r) /\ StatusOK(r.st, r.db)
  <2>1. waiting \in RUNNING_AND_WAITING_STATES
    BY WaitingStates
  <2> QED BY <2>1, Leave
<1> DEFINE no == FALSE
<1>2. no \in BOOLEAN
  OBVIOUS
<1>3. CASE st.state = waiting
  <2>1. r = set_state(st, d, "starting", {waiting}, no)
    BY <1>3 DEF leave
  <2>2. "starting" \in ALL_CRAWL_STATES
    BY EarlyFacts DEF EarlyStates
  <2> HIDE DEF no
  <2> QED BY <1>1, <1>2, <1>3, <2>1, <2>2, SetStateOf
<1>4. CASE st.state # waiting
  <2>1. r.st = st /\ r.db = d
    BY <1>4 DEF leave
  <2> QED BY <1>1, <1>4, <2>1 DEF SameWork
<1> QED BY <1>3, <1>4

\* The crawl is made to wait.
LEMMA WaitFields ==
  ASSUME Timely, SyncAtOrgLimit \/ SyncAwaitIndex
  PROVE  /\ sync.pc = "start"
         /\ sync'.pc = "answer" /\ sync'.answer = "empty" /\ SameWork(sync.st, sync'.st)
         /\ sync'.pod = sync.pod /\ sync'.spec = sync.spec /\ sync'.redis = sync.redis
         /\ sync'.isPaused = sync.isPaused
         /\ sync.st.state \in EarlyStates
         /\ db'.state = db.state \/ db'.state \in EarlyStates
         /\ sync.st.state = db.state => sync'.st.state = db'.state /\ db'.state \in EarlyStates
         /\ UNCHANGED <<job, spec, status, files, redis, pod, volume, hist>>
<1> DEFINE no == FALSE
<1>0. no \in BOOLEAN /\ {"starting"} \in SUBSET RUNNING_AND_WAITING_STATES
  BY WaitingStates
<1>1. CASE SyncAtOrgLimit
  <2> DEFINE r == set_state(sync.st, db, "waiting_org_limit", {"starting"}, no)
  <2>1. /\ db' = r.db /\ Answer("empty", r.st) /\ sync.pc = "start"
        /\ sync.st.state \in {"starting", "waiting_org_limit"}
        /\ UNCHANGED <<job, spec, status, files, redis, pod, volume, hist>>
    BY <1>1 DEF SyncAtOrgLimit, Unfinished, cluster
  <2>2. /\ "waiting_org_limit" \in RUNNING_AND_WAITING_STATES
        /\ "waiting_org_limit" \in ALL_CRAWL_STATES
    BY WaitingStates, StateFacts
  <2>3. Outcome(sync.st, db, "waiting_org_limit", {"starting"}, r)
    BY <1>0, <2>2, RequestFacts, SetWaiting DEF Timely
  <2> HIDE DEF no
  <2>4. /\ SameWork(sync.st, r.st)
        /\ sync.st.state = db.state => r.st.state = r.db.state
        /\ sync.st.state = db.state /\ sync.st.state \notin {"starting"} =>
             r.st.state = sync.st.state
        /\ sync.st.state = db.state /\ sync.st.state \in {"starting"} =>
             r.st.state = "waiting_org_limit"
    BY <1>0, <2>2, Fields, SetStateOf
  <2>5. r.db.state # db.state => r.db.state = "waiting_org_limit"
    BY <2>3 DEF Outcome
  <2> HIDE DEF r
  <2>6. sync.st.state = db.state => r.db.state \in EarlyStates
    BY <2>1, <2>4 DEF EarlyStates
  <2> QED BY <2>1, <2>4, <2>5, <2>6, AnswerFields DEF EarlyStates
<1>2. CASE SyncAwaitIndex
  <2> DEFINE r1 == leave(sync.st, db, "waiting_org_limit")
             r == set_state(r1.st, r1.db, "waiting_dedupe_index", {"starting"}, no)
  <2>1. /\ db' = r.db /\ Answer("empty", r.st) /\ sync.pc = "start"
        /\ r1.st.state \in {"starting", "waiting_dedupe_index"}
        /\ UNCHANGED <<job, spec, status, files, redis, pod, volume, hist>>
    BY <1>2 DEF SyncAwaitIndex, Unfinished, cluster
  <2>2. "waiting_dedupe_index" \in RUNNING_AND_WAITING_STATES
        /\ "waiting_dedupe_index" \in ALL_CRAWL_STATES
    BY WaitingStates, StateFacts
  <2>3. /\ Outcome(sync.st, db, "starting", {"waiting_org_limit"}, r1) /\ StatusOK(r1.st, r1.db)
        /\ SameWork(sync.st, r1.st)
        /\ sync.st.state = db.state => r1.st.state = r1.db.state
        /\ sync.st.state = db.state =>
             r1.st.state = IF sync.st.state = "waiting_org_limit" THEN "starting" ELSE sync.st.state
    BY RequestFacts, LeaveFields DEF Timely
  <2>a. r1.st.state = sync.st.state \/ sync.st.state = "waiting_org_limit"
    BY DEF leave
  <2> HIDE DEF r1
  <2>4. r1.st \in CrawlStatus /\ r1.db \in Document /\ DocumentOK(r1.db)
    BY <2>3 DEF Outcome
  <2>5. Outcome(r1.st, r1.db, "waiting_dedupe_index", {"starting"}, r)
    BY <1>0, <2>2, <2>3, <2>4, SetWaiting
  <2> HIDE DEF no
  <2>6. /\ SameWork(r1.st, r.st)
        /\ r1.st.state = r1.db.state => r.st.state = r.db.state
        /\ r1.st.state = r1.db.state /\ r1.st.state \notin {"starting"} => r.st.state = r1.st.state
        /\ r1.st.state = r1.db.state /\ r1.st.state \in {"starting"} =>
             r.st.state = "waiting_dedupe_index"
    BY <1>0, <2>2, <2>4, SetStateOf
  <2>7. /\ r1.db.state # db.state => r1.db.state = "starting"
        /\ r.db.state # r1.db.state => r.db.state = "waiting_dedupe_index"
    BY <2>3, <2>5 DEF Outcome
  <2> HIDE DEF r
  <2>8. r.db.state = db.state \/ r.db.state \in EarlyStates
    BY <2>7 DEF EarlyStates
  <2>9. sync.st.state = db.state => r.st.state = r.db.state /\ r.db.state \in EarlyStates
    BY <2>1, <2>3, <2>6 DEF EarlyStates
  <2>10. SameWork(sync.st, r.st) /\ sync.st.state \in EarlyStates
    BY <2>1, <2>3, <2>6, <2>a DEF SameWork, EarlyStates
  <2> QED BY <2>1, <2>8, <2>9, <2>10, AnswerFields
<1> QED BY <1>1, <1>2

\* The crawl may go on.
LEMMA AdmittedFields ==
  ASSUME Timely, SyncAdmitted
  PROVE  /\ sync.pc = "start" /\ sync'.pc = "state" /\ SameWork(sync.st, sync'.st)
         /\ sync'.pod = sync.pod /\ sync'.spec = sync.spec /\ sync'.redis = sync.redis
         /\ sync'.isPaused = (sync.spec.paused /\ sync'.st.state \in PAUSED_STATES)
         /\ db'.state = db.state \/ db'.state = "starting"
         /\ sync.st.state = db.state =>
              /\ sync'.st.state = db'.state
              /\ sync'.st.state = IF sync.st.state \in {"waiting_org_limit", "waiting_dedupe_index"}
                                    THEN "starting" ELSE sync.st.state
         /\ UNCHANGED <<job, spec, status, files, redis, pod, volume, hist>>
<1> DEFINE r1 == leave(sync.st, db, "waiting_org_limit")
           r == leave(r1.st, r1.db, "waiting_dedupe_index")
           paused == is_paused(sync.spec, r.st)
           limited == r.st.rateLimited /\ ~paused /\ r.st.state # "running"
           st == [r.st EXCEPT !.rateLimited = limited]
<1>1. /\ sync.pc = "start" /\ db' = r.db
      /\ sync' = [sync EXCEPT !.pc = "state", !.isPaused = paused, !.st = st]
      /\ UNCHANGED <<job, spec, status, files, redis, pod, volume, hist>>
  BY DEF SyncAdmitted, Unfinished, cluster
<1>2. /\ Outcome(sync.st, db, "starting", {"waiting_org_limit"}, r1) /\ StatusOK(r1.st, r1.db)
      /\ SameWork(sync.st, r1.st)
      /\ sync.st.state = db.state => r1.st.state = r1.db.state
      /\ sync.st.state = db.state =>
           r1.st.state = IF sync.st.state = "waiting_org_limit" THEN "starting" ELSE sync.st.state
  BY RequestFacts, LeaveFields DEF Timely
<1> HIDE DEF r1
<1>3. r1.st \in CrawlStatus /\ r1.db \in Document /\ DocumentOK(r1.db)
  BY <1>2 DEF Outcome
<1>4. /\ Outcome(r1.st, r1.db, "starting", {"waiting_dedupe_index"}, r)
      /\ SameWork(r1.st, r.st)
      /\ r1.st.state = r1.db.state => r.st.state = r.db.state
      /\ r1.st.state = r1.db.state =>
           r.st.state = IF r1.st.state = "waiting_dedupe_index" THEN "starting" ELSE r1.st.state
  BY <1>2, <1>3, LeaveFields
<1> HIDE DEF r
<1>5. db'.state = db.state \/ db'.state = "starting"
  BY <1>1, <1>2, <1>4 DEF Outcome
<1>6. sync.st.state = db.state =>
        /\ r.st.state = r.db.state
        /\ r.st.state = IF sync.st.state \in {"waiting_org_limit", "waiting_dedupe_index"}
                          THEN "starting" ELSE sync.st.state
  BY <1>2, <1>4
<1>7. r.st \in CrawlStatus /\ limited \in BOOLEAN
  BY <1>4 DEF Outcome, CrawlStatus
<1>8. paused = (sync.spec.paused /\ r.st.state \in PAUSED_STATES)
  BY DEF is_paused
<1> HIDE DEF limited, paused
<1>9. st.state = r.st.state /\ SameWork(r.st, st)
  BY <1>7 DEF CrawlStatus, SameWork
<1>10. SameWork(sync.st, st)
  BY <1>2, <1>4, <1>9 DEF SameWork
<1> HIDE DEF st
<1>11. /\ sync'.pc = "state" /\ sync'.isPaused = paused /\ sync'.st = st
       /\ sync'.pod = sync.pod /\ sync'.spec = sync.spec /\ sync'.redis = sync.redis
  BY <1>1, Fields DEF Request
<1> QED BY <1>1, <1>5, <1>6, <1>8, <1>9, <1>10, <1>11

\* No crawler pod is running or redis cannot be reached.
LEMMA NoCrawlerFields ==
  ASSUME Timely, NEW late \in BOOLEAN, NEW idle \in BOOLEAN, SyncNoCrawler(late, idle)
  PROVE  /\ sync.pc = "state" /\ (~crawler_running \/ ~redis_connected)
         /\ sync'.pc = IF sync'.st.finished THEN "answer" ELSE "paused"
         /\ sync'.pod = sync.pod /\ sync'.spec = sync.spec /\ sync'.redis = sync.redis
         /\ sync'.isPaused = sync.isPaused
         /\ sync'.st.pagesFound = sync.st.pagesFound /\ sync'.st.sizePending = sync.st.sizePending
         /\ sync.st.initRedis /\ ~redis_connected => sync'.st.initRedis
         /\ db'.state = db.state \/ db'.state = "waiting_capacity"
         /\ sync.st.state = db.state =>
              /\ sync'.st.state = db'.state
              /\ db.state \notin RUNNING_AND_STARTING_ONLY => sync'.st.state = db.state
              /\ sync'.st.state \in {db.state, "waiting_capacity"}
         /\ redis'.status = redis.status /\ redis'.queue = redis.queue /\ redis'.pod = redis.pod
         /\ redis'.found = redis.found
         /\ redis'.paused =
              (redis.paused /\ ~(~crawler_running /\ redis_connected /\ sync.spec.paused))
         /\ UNCHANGED <<job, spec, status, files, pod, volume, hist>>
<1>1. PICK code \in lastExits :
        LET st == [sync.st EXCEPT !.lastExit = code]
            r  == IF pod_done_count = 0 /\ should_mark_waiting(st.state, late)
                    THEN set_state(st, db, "waiting_capacity", RUNNING_AND_STARTING_ONLY, FALSE)
                    ELSE [st |-> st, db |-> db, ok |-> FALSE]
            st2 == [r.st EXCEPT !.initRedis =
                      IF crawler_running THEN TRUE ELSE @ /\ ~(redis_connected /\ idle)]
        IN  db' = r.db /\ IF st2.finished THEN Answer("final", st2) ELSE Goto("paused", st2)
  BY DEF SyncNoCrawler
<1> DEFINE no == FALSE
           st == [sync.st EXCEPT !.lastExit = code]
           waits == pod_done_count = 0 /\ should_mark_waiting(st.state, late)
           r  == IF waits
                   THEN set_state(st, db, "waiting_capacity", RUNNING_AND_STARTING_ONLY, no)
                   ELSE [st |-> st, db |-> db, ok |-> no]
           keep == IF crawler_running THEN TRUE ELSE r.st.initRedis /\ ~(redis_connected /\ idle)
           st2 == [r.st EXCEPT !.initRedis = keep]
<1>2. db' = r.db /\ IF st2.finished THEN Answer("final", st2) ELSE Goto("paused", st2)
  BY <1>1
<1>3. /\ st \in CrawlStatus /\ st.state = sync.st.state /\ SameWork(sync.st, st)
      /\ StatusOK(st, db)
  <2>1. lastExits \subseteq FailedExits \cup {"ok"}
    BY LastExits, Fields DEF Timely
  <2>2. code \in FailedExits \cup {"ok"}
    BY <2>1
  <2>3. /\ st \in CrawlStatus /\ st.state = sync.st.state /\ SameWork(sync.st, st)
        /\ st.finished = sync.st.finished
    BY <2>2, Fields DEF CrawlStatus, SameWork
  <2> QED BY <2>3 DEF Timely, Inv, StatusOK
<1> HIDE DEF st
<1>4. /\ "waiting_capacity" \in RUNNING_AND_WAITING_STATES
      /\ "waiting_capacity" \in ALL_CRAWL_STATES
      /\ RUNNING_AND_STARTING_ONLY \in SUBSET RUNNING_AND_WAITING_STATES
      /\ no \in BOOLEAN
  BY WaitingStates, StateFacts
<1>5. /\ r.st \in CrawlStatus /\ SameWork(st, r.st)
      /\ r.db.state = db.state \/ r.db.state = "waiting_capacity"
      /\ st.state = db.state =>
           /\ r.st.state = r.db.state
           /\ db.state \notin RUNNING_AND_STARTING_ONLY => r.st.state = db.state
           /\ r.st.state \in {db.state, "waiting_capacity"}
  <2>1. CASE ~waits
    <3>1. r.st = st /\ r.db = db
      BY <2>1
    <3> QED BY <1>3, <3>1 DEF SameWork
  <2>2. CASE waits
    <3>1. Outcome(st, db, "waiting_capacity", RUNNING_AND_STARTING_ONLY, r)
      BY <1>3, <1>4, <2>2, RequestFacts, SetWaiting DEF Timely
    <3>2. r = set_state(st, db, "waiting_capacity", RUNNING_AND_STARTING_ONLY, no)
      BY <2>2
    <3> HIDE DEF no, r
    <3>3. /\ SameWork(st, r.st)
          /\ st.state = db.state => r.st.state = r.db.state
          /\ st.state = db.state /\ st.state \notin RUNNING_AND_STARTING_ONLY =>
               r.st.state = st.state
          /\ st.state = db.state /\ st.state \in RUNNING_AND_STARTING_ONLY =>
               r.st.state = "waiting_capacity"
      BY <1>3, <1>4, <3>2, Fields, SetStateOf
    <3> QED BY <3>1, <3>3 DEF Outcome
  <2> QED BY <2>1, <2>2
<1> HIDE DEF r, waits
<1>6. /\ keep \in BOOLEAN
      /\ r.st.initRedis /\ ~redis_connected => keep
  BY <1>5 DEF CrawlStatus
<1> HIDE DEF keep
<1>7. /\ st2.state = r.st.state /\ st2.finished = r.st.finished /\ st2.initRedis = keep
      /\ st2.pagesFound = r.st.pagesFound /\ st2.sizePending = r.st.sizePending
  BY <1>5, <1>6 DEF CrawlStatus
<1> HIDE DEF st2
<1>8. /\ sync'.st = st2 /\ sync'.pc = IF st2.finished THEN "answer" ELSE "paused"
      /\ sync'.pod = sync.pod /\ sync'.spec = sync.spec /\ sync'.redis = sync.redis
      /\ sync'.isPaused = sync.isPaused
  BY <1>2, AnswerFields, GotoFields
<1>9. /\ redis'.status = redis.status /\ redis'.queue = redis.queue /\ redis'.pod = redis.pod
      /\ redis'.found = redis.found
      /\ redis'.paused =
           (redis.paused /\ ~(~crawler_running /\ redis_connected /\ sync.spec.paused))
  <2>1. redis' = IF ~crawler_running /\ redis_connected /\ sync.spec.paused
                   THEN [redis EXCEPT !.paused = FALSE] ELSE redis
    BY DEF SyncNoCrawler
  <2> QED BY <2>1, Fields DEF Redis
<1>10. /\ sync.pc = "state" /\ (~crawler_running \/ ~redis_connected)
       /\ UNCHANGED <<job, spec, status, files, pod, volume, hist>>
  BY DEF SyncNoCrawler
<1>11. /\ sync'.st.pagesFound = sync.st.pagesFound /\ sync'.st.sizePending = sync.st.sizePending
       /\ sync.st.initRedis /\ ~redis_connected => sync'.st.initRedis
  BY <1>3, <1>5, <1>6, <1>7, <1>8 DEF SameWork
<1>12. /\ db'.state = db.state \/ db'.state = "waiting_capacity"
       /\ sync.st.state = db.state =>
            /\ sync'.st.state = db'.state
            /\ db.state \notin RUNNING_AND_STARTING_ONLY => sync'.st.state = db.state
            /\ sync'.st.state \in {db.state, "waiting_capacity"}
  BY <1>2, <1>3, <1>5, <1>7, <1>8
<1> QED BY <1>7, <1>8, <1>9, <1>10, <1>11, <1>12

\* The other parts of a request that leave the files alone.
LEMMA CompleteParts ==
  ASSUME Timely, CompleteInv, Settled,
         \/ SyncAtOrgLimit \/ SyncAwaitIndex \/ SyncAdmitted \/ SyncNoPods
         \/ \E late, idle \in BOOLEAN : SyncNoCrawler(late, idle)
         \/ SyncCrawler \/ SyncRedisError
         \/ \E expired \in BOOLEAN : SyncPaused(expired)
  PROVE  CompleteInv'
<1>1. CASE SyncAtOrgLimit \/ SyncAwaitIndex
  BY <1>1, WaitFields, EarlyFacts, CompleteRequest
<1>2. CASE SyncAdmitted
  BY <1>2, AdmittedFields, CompleteRequest
<1>3. ASSUME NEW late \in BOOLEAN, NEW idle \in BOOLEAN, SyncNoCrawler(late, idle)
      PROVE  CompleteInv'
  BY <1>3, NoCrawlerFields, CompleteRequest
<1>4. CASE SyncNoPods \/ SyncCrawler
  <2>1. /\ sync.pc = "state" /\ db' = db /\ UNCHANGED <<files, redis, pod, volume, hist>>
        /\ \E st : \E pc \in {"paused", "files"} : Goto(pc, st)
    BY <1>4 DEF SyncNoPods, SyncCrawler, cluster
  <2>2. sync'.pc \in {"paused", "files"} /\ sync'.pod = sync.pod
    BY <2>1, GotoFields
  <2> QED BY <2>1, <2>2, CompleteRequest
<1>5. CASE SyncRedisError
  <2>1. /\ db' = db /\ UNCHANGED <<files, redis, pod, volume>> /\ Goto("paused", sync.st)
        /\ hist' = [hist EXCEPT !.lost = @ \/ sync.pc = "add"]
    BY <1>5 DEF SyncRedisError, cluster
  <2>2. hist'.lost = (hist.lost \/ sync.pc = "add") /\ hist'.late = hist.late
    BY <2>1, Fields DEF History
  <2>3. /\ hist'.lost \/ sync.pc # "add"
        /\ hist.lost => hist'.lost
        /\ hist.late => hist'.late
    BY <2>2, Zenon
  <2>4. sync'.pc = "paused" /\ sync'.pod = sync.pod
    BY <2>1, GotoFields
  <2> QED BY <2>1, <2>3, <2>4, CompleteRequest
<1>6. ASSUME NEW expired \in BOOLEAN, SyncPaused(expired)
      PROVE  CompleteInv'
  <2>1. sync.pc = "paused" /\ UNCHANGED <<files, redis, pod, volume>>
    BY <1>6 DEF SyncPaused, cluster
  <2>2. sync'.pc = "answer" /\ sync'.pod = sync.pod
    BY <1>6, PausedFields
  <2>3. hist'.lost = hist.lost /\ hist'.late = hist.late
    BY <1>6, PausedFields, StartTasksFields
  <2>4. db'.state = "complete" => db.state = "complete"
    <3> DEFINE state == paused_end(sync.spec, expired)
               st == [sync.st EXCEPT !.stopping = TRUE, !.stopReason = state]
    <3>1. CASE state = None
      BY <1>6, <3>1 DEF SyncPaused
    <3>2. CASE state # None
      <4>1. state \in {"stopped_pause_expired", "stopped_by_user"}
        BY <3>2 DEF paused_end
      <4>2. state \in NON_RUNNING_STATES /\ state \in StopReason
        BY <4>1 DEF NON_RUNNING_STATES, SUCCESSFUL_STATES, StopReason
      <4>3. db' = mark_finished(st, db, state).db
        BY <1>6, <3>2 DEF SyncPaused
      <4> HIDE DEF state
      <4>4. st \in CrawlStatus /\ StatusOK(st, db)
        BY <4>2, Fields DEF CrawlStatus, StatusOK, Timely, Inv
      <4> HIDE DEF st
      <4>5. db'.state # db.state => db'.state = state
        BY <4>2, <4>3, <4>4, RequestFacts, MarkFinished DEF Outcome, Timely
      <4> QED BY <4>1, <4>5
    <3> QED BY <3>1, <3>2
  <2> QED BY <2>1, <2>2, <2>3, <2>4, CompleteRequest
<1> QED BY <1>1, <1>2, <1>3, <1>4, <1>5, <1>6

\* Files are taken and added, one by one, until none is left.
LEMMA CompleteFiles ==
  ASSUME Timely, CompleteInv, Settled, SyncPop \/ SyncAddFile \/ SyncDrained
  PROVE  CompleteInv'
<1>1. CASE SyncPop
  <2>1. /\ sync.pc = "files" /\ redis.queue > 0 /\ db' = db
        /\ redis' = [redis EXCEPT !.queue = @ - 1] /\ Goto("add", sync.st)
        /\ UNCHANGED <<files, pod, volume, hist>>
    BY <1>1 DEF SyncPop
  <2>2. sync'.pc = "add" /\ sync'.pod = sync.pod
    BY <2>1, GotoFields
  <2>3. redis'.status = redis.status /\ redis'.queue = redis.queue - 1
    BY <2>1, Fields DEF Redis
  <2>4. ExitedIsDone' /\ VolumeUsed' /\ QueueBehind'
    BY <2>1, <2>2, <2>3 DEF CompleteInv, ExitedIsDone, VolumeUsed, QueueBehind
  <2>5. AllCounted'
    <3>1. redis.queue + 0 = redis'.queue + 1
      BY <2>3, Fields
    <3>2. Active' /\ ~hist'.lost => files.uploaded = files.db + redis.queue + 0
      BY <2>1, ActiveBefore DEF CompleteInv, AllCounted, Adding
    <3>3. Active' /\ ~hist'.lost => files.uploaded = files.db + redis'.queue + 1
      BY <3>1, <3>2, <2>3, Fields
    <3> QED BY <2>1, <2>2, <3>3 DEF AllCounted, Adding
  <2>6. CompleteRests'
    BY <2>1, Fields DEF CompleteInv, CompleteRests
  <2> QED BY <2>4, <2>5, <2>6 DEF CompleteInv
<1>2. CASE SyncAddFile
  <2>1. /\ sync.pc = "add" /\ db' = db /\ redis' = [redis EXCEPT !.filesAdded = @ + 1]
        /\ files' = [files EXCEPT !.db = IF db.state = None THEN @ ELSE @ + 1, !.org = @ + 1]
        /\ Goto("files", sync.st) /\ UNCHANGED <<pod, volume, hist>>
    BY <1>2 DEF SyncAddFile
  <2>2. sync'.pc = "files" /\ sync'.pod = sync.pod
    BY <2>1, GotoFields
  <2>3. redis'.status = redis.status /\ redis'.queue = redis.queue
    BY <2>1, Fields DEF Redis
  <2>4. /\ files'.uploaded = files.uploaded
        /\ db.state # None => files'.db = files.db + 1
    BY <2>1, Fields DEF Files
  <2>5. ExitedIsDone' /\ VolumeUsed' /\ QueueBehind'
    BY <2>1, <2>2, <2>3 DEF CompleteInv, ExitedIsDone, VolumeUsed, QueueBehind
  <2>6. AllCounted'
    <3>1. Active' /\ ~hist'.lost => files.uploaded = files.db + redis.queue + 1
      BY <2>1, ActiveBefore DEF CompleteInv, AllCounted, Adding
    <3>2. Active' => db.state # None
      BY ActiveBefore DEF Active, DocumentOver
    <3>3. Active' /\ ~hist'.lost => files'.uploaded = files'.db + redis'.queue + 0
      BY <2>3, <2>4, <3>1, <3>2, Fields
    <3> QED BY <2>2, <3>3 DEF AllCounted, Adding
  <2>7. CompleteRests'
    BY <2>1 DEF CompleteInv, CompleteRests
  <2> QED BY <2>5, <2>6, <2>7 DEF CompleteInv
<1>3. CASE SyncDrained
  <2>1. /\ sync.pc = "files" /\ db' = db /\ redis.queue = 0 /\ Goto("update", sync.st)
        /\ UNCHANGED <<files, redis, pod, volume, hist>>
    BY <1>3 DEF SyncDrained, cluster
  <2>2. sync'.pc = "update" /\ sync'.pod = sync.pod
    BY <2>1, GotoFields
  <2>3. ExitedIsDone' /\ VolumeUsed' /\ QueueBehind'
    BY <2>1, <2>2 DEF CompleteInv, ExitedIsDone, VolumeUsed, QueueBehind
  <2>4. AllCounted' /\ CompleteRests'
    BY <2>1, <2>2, ActiveBefore DEF CompleteInv, AllCounted, Adding, CompleteRests
  <2> QED BY <2>3, <2>4 DEF CompleteInv
<1> QED BY <1>1, <1>2, <1>3

\* The evaluation of the pods: the one step that completes a crawl.
LEMMA CompleteUpdate ==
  ASSUME Timely, Timely', CompleteInv, Settled, NEW cond \in Conditions,
         NEW failed \in {"failed", "failed_not_logged_in"}, SyncUpdate(cond, failed)
  PROVE  CompleteInv'
<1>1. PICK st, ok : UpdateOf(st, update_crawl_state(st, failed), ok)
  BY UpdateFacts
<1> DEFINE state == update_crawl_state(st, failed)
<1>2. /\ ok \in BOOLEAN /\ StartTasks(ok, state)
      /\ db'.state # db.state => db'.state = state /\ db.state \in RUNNING_AND_WAITING_STATES
      /\ sync'.pc \in {"answer", "paused"} /\ sync'.pod = sync.pod
      /\ redis'.status = redis.status /\ redis'.queue = redis.queue
      /\ UNCHANGED <<files, pod, volume>>
  BY <1>1 DEF UpdateOf
<1>3. sync.pc = "update"
  BY DEF SyncUpdate
<1>4. hist'.lost = hist.lost /\ hist'.late = hist.late
  BY <1>2, StartTasksFields
<1>5. CASE db'.state # "complete" \/ db.state = "complete"
  BY <1>2, <1>3, <1>4, <1>5, CompleteRequest
<1>6. CASE db'.state = "complete" /\ db.state # "complete"
  <2>1. state = "complete" /\ db.state \in RUNNING_AND_WAITING_STATES
    BY <1>2, <1>6
  <2>2. /\ Count("done") + Count("failed") >= Scale
        /\ pod_done_count >= Count("done")
    BY <2>1, UpdateCases
  <2>3. /\ \A p \in Pods : redis.status[p] # None <=> p < Scale
        /\ \A p \in Pods : redis.status[p] \in {None, "done", "failed"}
    BY <2>2, AllReport DEF CrawlerStatus, None
  <2>4. \A p \in Pods : redis.status[p] = "done" => sync.pod[p] = "succeeded"
    BY <2>2, <2>3, AllExited DEF CompleteInv
  <2>5. \A p \in Pods : ~Behind(p)
    BY <2>3, <2>4 DEF Behind, Busy, None
  <2>6. redis.queue = 0
    BY <1>3, <2>5, Fields DEF CompleteInv, QueueBehind
  <2>7. Active
    BY <2>1, ActiveStates
  <2>8. ~hist.lost => files.uploaded = files.db + 0 + 0
    BY <1>3, <2>6, <2>7 DEF CompleteInv, AllCounted, Adding
  <2>9. CompleteRests'
    BY <1>2, <1>4, <2>3, <2>6, <2>8, Fields DEF CompleteRests
  <2>10. ExitedIsDone' /\ VolumeUsed' /\ QueueBehind'
    BY <1>2 DEF CompleteInv, ExitedIsDone, VolumeUsed, QueueBehind
  <2>11. AllCounted'
    BY <1>2, <1>3, <1>4, ActiveBefore DEF CompleteInv, AllCounted, Adding
  <2> QED BY <2>9, <2>10, <2>11 DEF CompleteInv
<1> QED BY <1>5, <1>6

\* The snapshot and the answers.
LEMMA CompleteAnswer ==
  ASSUME Timely, CompleteInv, Settled,
         \/ SyncBegin \/ AnswerRun \/ AnswerEmpty
         \/ \E expired \in BOOLEAN : AnswerFinal(expired)
  PROVE  CompleteInv'
<1>1. CASE SyncBegin
  <2>1. /\ sync.pc = "idle" /\ sync'.pc = "start" /\ sync'.pod = pod /\ db' = db
        /\ UNCHANGED <<files, redis, pod, volume, hist>>
    BY <1>1 DEF SyncBegin, IdleSync, cluster
  <2> QED BY <2>1, CompleteQuiet
<1>2. CASE AnswerRun
  <2>1. /\ sync.pc = "answer" /\ sync' = IdleSync /\ db' = db
        /\ UNCHANGED <<files, volume, hist>>
    BY <1>2 DEF AnswerRun
  <2>2. redis'.status = redis.status /\ redis'.queue = redis.queue /\ redis'.paused = redis.paused
    BY <1>2, Fields DEF AnswerRun, Redis
  <2>3. \A p \in Pods : pod'[p] = "succeeded" => pod[p] = "succeeded"
    BY <1>2 DEF AnswerRun, create, None
  <2>4. \A p \in Pods : sync'.pod[p] # "succeeded"
    BY <2>1, IdleFields DEF None
  <2>5. sync'.pc = "idle"
    BY <2>1, IdleFields
  <2> QED BY <2>1, <2>2, <2>3, <2>4, <2>5, CompleteQuiet
<1>3. ASSUME DropVolumes, pod' = [p \in Pods |-> None], sync' = IdleSync, db' = db,
             files' = files, sync.pc = "answer",
             hist.lost => hist'.lost, hist.late => hist'.late,
             ~Active \/ redis.queue = 0 \/ hist'.lost
      PROVE  CompleteInv'
  <2>1. /\ volume' = {} /\ redis'.queue = 0
        /\ \A p \in Pods : /\ redis'.status[p] = None /\ pod'[p] # "succeeded"
                           /\ sync'.pod[p] # "succeeded"
        /\ sync'.pc = "idle"
    BY <1>3, EmptyFields, IdleFields DEF DropVolumes, None
  <2>2. ExitedIsDone' /\ VolumeUsed' /\ QueueBehind'
    BY <2>1 DEF ExitedIsDone, VolumeUsed, QueueBehind
  <2>3. AllCounted'
    BY <1>3, <2>1, ActiveBefore DEF CompleteInv, AllCounted, Adding
  <2>4. CompleteRests'
    BY <1>3, <2>1 DEF CompleteInv, CompleteRests
  <2> QED BY <2>2, <2>3, <2>4 DEF CompleteInv
<1>4. CASE AnswerEmpty
  <2>1. /\ DropVolumes /\ pod' = [p \in Pods |-> None] /\ sync' = IdleSync /\ db' = db
        /\ files' = files /\ sync.pc = "answer"
        /\ hist' = [hist EXCEPT !.lost = @ \/ redis.queue > 0]
    BY <1>4 DEF AnswerEmpty
  <2>2. hist'.lost = (hist.lost \/ redis.queue > 0) /\ hist'.late = hist.late
    BY <2>1, Fields DEF History
  <2>3. redis.queue > 0 \/ redis.queue = 0
    BY Fields
  <2>4. /\ hist.lost => hist'.lost
        /\ hist.late => hist'.late
        /\ redis.queue = 0 \/ hist'.lost
    BY <2>2, <2>3, Zenon
  <2> QED BY <1>3, <2>1, <2>4
<1>5. ASSUME NEW expired \in BOOLEAN, AnswerFinal(expired)
      PROVE  CompleteInv'
  <2>1. /\ pod' = [p \in Pods |-> None] /\ sync' = IdleSync /\ db' = db
        /\ files' = files /\ sync.pc = "answer" /\ sync.answer = "final" /\ hist' = hist
    BY <1>5 DEF AnswerFinal
  <2>2. ~Active
    BY <2>1 DEF Timely, Inv, FinalAnswer, StatusOK, Active
  <2>3. CASE keep_redis
    <3>1. /\ redis' = [redis EXCEPT !.pod = IF sync.st.initRedis THEN create(@) ELSE None]
          /\ volume' = volume
      BY <1>5, <2>3 DEF AnswerFinal
    <3>2. redis'.status = redis.status /\ redis'.queue = redis.queue
      BY <3>1, Fields DEF Redis
    <3>3. /\ sync'.pc = "idle"
          /\ \A p \in Pods : pod'[p] # "succeeded" /\ sync'.pod[p] # "succeeded"
      BY <2>1, IdleFields DEF None
    <3> QED BY <2>1, <3>1, <3>2, <3>3, CompleteQuiet
  <2>4. CASE ~keep_redis
    <3>1. DropVolumes
      BY <1>5, <2>4 DEF AnswerFinal
    <3> QED BY <1>3, <2>1, <2>2, <3>1
  <2> QED BY <2>3, <2>4
<1> QED BY <1>1, <1>2, <1>4, <1>5

\* Coroutines and the API.
LEMMA CompleteOthers ==
  ASSUME Timely, CompleteInv, Settled, TaskStep \/ ApiStep \/ UNCHANGED vars
  PROVE  CompleteInv'
<1>1. sync' = sync /\ UNCHANGED <<redis, pod, volume>>
  BY DEF TaskStep, TaskCleanup, TaskNotify, TaskDeleteJob, AsyncDelete, AsyncPause,
     ApiStep, ApiStop, ApiPause, ApiResume, ApiCancel, ApiDeleteBegin, ApiDeleteEnd,
     CronCreateJob, CronFinished, cluster, vars
<1>2. hist'.lost = hist.lost /\ hist'.late = hist.late
  <2>1. CASE TaskStep
    BY <2>1, Fields DEF TaskStep, TaskCleanup, TaskNotify, TaskDeleteJob, AsyncDelete, AsyncPause,
       History
  <2>2. CASE ApiStep
    BY <2>2, Fields DEF ApiStep, ApiStop, ApiPause, ApiResume, ApiCancel, ApiDeleteBegin,
       ApiDeleteEnd, CronCreateJob, CronFinished, History
  <2>3. CASE UNCHANGED vars
    BY <2>3 DEF vars
  <2> QED BY <2>1, <2>2, <2>3
<1>3. db'.state \in {db.state, None, "canceled"}
  <2>1. canceled_document(db).state \in {db.state, "canceled"}
    BY DEF canceled_document, update_crawl_state_if_allowed
  <2> QED BY <2>1 DEF TaskStep, TaskCleanup, TaskNotify, TaskDeleteJob, AsyncDelete, AsyncPause,
     ApiStep, ApiStop, ApiPause, ApiResume, ApiCancel, ApiDeleteBegin, ApiDeleteEnd,
     CronCreateJob, CronFinished, shutdown_crawl, vars
<1>4. Active' \/ db'.state = "complete" => files' = files
  <2>1. CASE \E t \in tasks : TaskCleanup(t)
    <3>1. PICK t \in tasks : TaskCleanup(t)
      BY <2>1
    <3>2. db' = db /\ (t.state \notin FAILED_STATES \/ db.state = None => files' = files)
      BY <3>1 DEF TaskCleanup
    <3>3. ~Active
      BY <3>1, Fields DEF Timely, Inv, TasksFollowDocument, Active
    <3>4. "complete" \notin FAILED_STATES
      BY DEF FAILED_STATES
    <3>5. db.state = "complete" => t.state \notin FAILED_STATES
      BY <3>1, <3>4, EarlyFacts DEF Timely, Inv, TasksFollowDocument, None
    <3> QED BY <3>2, <3>3, <3>5, ActiveBefore
  <2>2. CASE ApiDeleteEnd
    <3>1. db'.state = None
      BY <2>2 DEF ApiDeleteEnd
    <3> QED BY <3>1 DEF Active, DocumentOver, None
  <2>3. CASE ~(\E t \in tasks : TaskCleanup(t)) /\ ~ApiDeleteEnd
    BY <2>3 DEF TaskStep, TaskNotify, TaskDeleteJob, AsyncDelete, AsyncPause,
       ApiStep, ApiStop, ApiPause, ApiResume, ApiCancel, ApiDeleteBegin,
       CronCreateJob, CronFinished, vars
  <2> QED BY <2>1, <2>2, <2>3
<1>5. db'.state = "complete" => db.state = "complete"
  BY <1>3 DEF None
<1> QED BY <1>1, <1>2, <1>4, <1>5, CompleteQuiet

\* The cluster, redis and faults.
LEMMA CompleteCluster ==
  ASSUME Timely, CompleteInv, Settled,
         \/ \E p \in Pods : \/ PodStart(p) \/ PodRestart(p) \/ PodEvict(p) \/ PodSucceed(p)
                            \/ \E code \in FailedExits : PodExit(p, code)
         \/ RedisStart \/ RedisRestart \/ CrawlerRateLimit \/ OperatorRestart \/ AnswerLost
  PROVE  CompleteInv'
<1>1. ASSUME NEW p \in Pods,
             \/ PodStart(p) \/ PodRestart(p) \/ PodEvict(p) \/ PodSucceed(p)
             \/ \E code \in FailedExits : PodExit(p, code)
      PROVE  CompleteInv'
  <2>1. sync' = sync /\ db' = db /\ UNCHANGED <<files, redis, volume>>
    BY <1>1 DEF PodStart, PodRestart, PodEvict, PodSucceed, PodExit, operator_and_api
  <2>2. \E ph : pod' = [pod EXCEPT ![p] = ph] /\ (ph = "succeeded" => redis.status[p] = "done")
    BY <1>1 DEF PodStart, PodRestart, PodEvict, PodSucceed, PodExit, FailedExits, None
  <2>3. \A q \in Pods : pod'[q] = "succeeded" => pod[q] = "succeeded" \/ redis.status[q] = "done"
    BY <2>2, Fields
  <2>4. (hist.lost => hist'.lost) /\ (hist.late => hist'.late)
    <3>1. CASE PodEvict(p)
      BY <3>1, FaultFields DEF PodEvict
    <3>2. CASE ~PodEvict(p)
      BY <1>1, <3>2 DEF PodStart, PodRestart, PodSucceed, PodExit
    <3> QED BY <3>1, <3>2
  <2> QED BY <2>1, <2>3, <2>4, CompleteQuiet
<1>2. CASE RedisStart \/ RedisRestart \/ CrawlerRateLimit
  <2>1. sync' = sync /\ db' = db /\ UNCHANGED <<files, pod, volume>>
    BY <1>2 DEF RedisStart, RedisRestart, CrawlerRateLimit, operator_and_api
  <2>2. redis'.status = redis.status /\ redis'.queue = redis.queue /\ redis'.paused = redis.paused
    BY <1>2, Fields DEF RedisStart, RedisRestart, CrawlerRateLimit, Redis
  <2>3. (hist.lost => hist'.lost) /\ (hist.late => hist'.late)
    <3>1. CASE RedisRestart
      BY <3>1, FaultFields DEF RedisRestart
    <3>2. CASE ~RedisRestart
      BY <1>2, <3>2 DEF RedisStart, CrawlerRateLimit
    <3> QED BY <3>1, <3>2
  <2> QED BY <2>1, <2>2, <2>3, CompleteQuiet
<1>3. CASE OperatorRestart \/ AnswerLost
  <2>1. sync' = IdleSync /\ db' = db /\ UNCHANGED <<files, redis, pod, volume>>
    BY <1>3 DEF OperatorRestart, AnswerLost, cluster
  <2>2. sync'.pc = "idle" /\ \A p \in Pods : sync'.pod[p] # "succeeded"
    BY <2>1, IdleFields DEF None
  <2>3. /\ hist.lost => hist'.lost
        /\ hist.late => hist'.late
        /\ hist'.lost \/ sync.pc # "add"
    <3>1. CASE AnswerLost
      BY <3>1, FaultFields DEF AnswerLost
    <3>2. CASE OperatorRestart
      <4> DEFINE adding == sync.pc = "add"
      <4>1. Fault(adding) /\ adding \in BOOLEAN
        BY <3>2 DEF OperatorRestart
      <4> HIDE DEF adding
      <4>2. hist'.lost = (hist.lost \/ adding) /\ hist'.late = hist.late
        BY <4>1, FaultFields
      <4> QED BY <4>2, Zenon DEF adding
    <3> QED BY <1>3, <3>1, <3>2
  <2> QED BY <2>1, <2>2, <2>3, CompleteQuiet
<1> QED BY <1>1, <1>2, <1>3

\* What a crawler does to redis.
LEMMA CrawlerFields ==
  ASSUME Timely, NEW p \in Pods, NEW v, redis' = [redis EXCEPT !.status[p] = v]
  PROVE  /\ redis'.status = [redis.status EXCEPT ![p] = v]
         /\ redis'.status[p] = v /\ \A q \in Pods \ {p} : redis'.status[q] = redis.status[q]
         /\ redis'.queue = redis.queue /\ redis'.paused = redis.paused /\ redis'.pod = redis.pod
         /\ redis'.found = redis.found
BY Fields DEF Redis

\* A crawler that reports a new status, with nothing left on its volume when it ends.
LEMMA CompleteReport ==
  ASSUME Timely, CompleteInv, Settled, NEW p \in Pods, NEW v,
         redis'.status[p] = v, \A q \in Pods \ {p} : redis'.status[q] = redis.status[q],
         redis'.queue = redis.queue, redis'.paused = redis.paused,
         sync' = sync, db' = db, UNCHANGED <<files, pod, volume>>,
         redis.status[p] # "done",
         v \in {None, "done", "interrupted"} => p \notin volume,
         redis.status[p] \in Busy \/ (redis.status[p] = "interrupted" /\ redis.paused) =>
           v \in Busy \cup {"done"} \/ (v = "interrupted" /\ redis.paused),
         hist'.lost = hist.lost, hist.late => hist'.late,
         \/ redis.status[p] \notin {None, "done", "failed"}
         \/ db.state = "complete" => hist'.late
  PROVE  CompleteInv'
<1>1. ExitedIsDone'
  BY DEF CompleteInv, ExitedIsDone
<1>2. VolumeUsed'
  BY Fields DEF CompleteInv, VolumeUsed
<1>3. AllCounted'
  BY ActiveBefore DEF CompleteInv, AllCounted, Adding
<1>4. QueueBehind'
  <2> SUFFICES ASSUME sync.pc = "update", redis.queue > 0
               PROVE  \E q \in Pods : Behind(q)'
    BY DEF QueueBehind
  <2>1. PICK q \in Pods : Behind(q)
    BY DEF CompleteInv, QueueBehind
  <2>2. Behind(q)'
    BY <2>1 DEF Behind
  <2> QED BY <2>2
<1>5. CompleteRests'
  BY DEF CompleteInv, CompleteRests
<1> QED BY <1>1, <1>2, <1>3, <1>4, <1>5 DEF CompleteInv

\* The crawlers.
LEMMA CompleteCrawler ==
  ASSUME Timely, CompleteInv, Settled, NEW p \in Pods,
         \/ CrawlerStart(p) \/ CrawlerPage(p) \/ CrawlerUpload(p) \/ CrawlerEnd(p)
         \/ CrawlerFail(p) \/ \E busy \in Busy \cap Events : CrawlerPackage(p, busy)
  PROVE  CompleteInv'
<1>1. CASE CrawlerStart(p)
  <2>1. /\ redis.status[p] \in {None, "interrupted"} /\ ~redis.paused
        /\ redis' = [redis EXCEPT !.status[p] = "running", !.found = max(@, 1)]
        /\ hist' = [hist EXCEPT !.late = @ \/ db.state = "complete"]
        /\ sync' = sync /\ db' = db /\ UNCHANGED <<files, pod, volume>>
    BY <1>1 DEF CrawlerStart, operator_and_api
  <2>2. /\ redis'.status[p] = "running" /\ \A q \in Pods \ {p} : redis'.status[q] = redis.status[q]
        /\ redis'.queue = redis.queue /\ redis'.paused = redis.paused
    BY <2>1, Fields DEF Redis
  <2>3. hist'.lost = hist.lost /\ hist'.late = (hist.late \/ db.state = "complete")
    BY <2>1, Fields DEF History
  <2>4. (hist.late => hist'.late) /\ (db.state = "complete" => hist'.late)
    BY <2>3, Zenon
  <2> QED BY <2>1, <2>2, <2>3, <2>4, CompleteReport DEF Busy, None
<1>2. CASE CrawlerPage(p)
  <2>1. /\ redis.status[p] = "running" /\ volume' = volume \cup {p}
        /\ sync' = sync /\ db' = db /\ UNCHANGED <<files, pod, hist>>
        /\ \E n \in redis.found .. MaxPages : redis' = [redis EXCEPT !.found = n, !.done = TRUE]
    BY <1>2 DEF CrawlerPage, operator_and_api
  <2>2. redis'.status = redis.status /\ redis'.queue = redis.queue /\ redis'.paused = redis.paused
    BY <2>1, Fields DEF Redis
  <2>3. ExitedIsDone' /\ VolumeUsed'
    BY <2>1, <2>2 DEF CompleteInv, ExitedIsDone, VolumeUsed, None
  <2>4. AllCounted' /\ QueueBehind'
    BY <2>1, <2>2, ActiveBefore DEF CompleteInv, AllCounted, Adding, QueueBehind, Behind
  <2>5. CompleteRests'
    BY <2>1, <2>2 DEF CompleteInv, CompleteRests
  <2> QED BY <2>3, <2>4, <2>5 DEF CompleteInv
<1>3. CASE CrawlerUpload(p)
  <2>1. /\ redis.status[p] \in Busy /\ redis' = [redis EXCEPT !.queue = @ + 1]
        /\ volume' = volume \ {p} /\ files' = [files EXCEPT !.uploaded = @ + 1]
        /\ sync' = sync /\ db' = db /\ UNCHANGED <<pod, hist>>
    BY <1>3 DEF CrawlerUpload, operator_and_api
  <2>2. redis'.status = redis.status /\ redis'.queue = redis.queue + 1
        /\ redis'.paused = redis.paused
    BY <2>1, Fields DEF Redis
  <2>3. files'.uploaded = files.uploaded + 1 /\ files'.db = files.db
    BY <2>1, Fields DEF Files
  <2>4. ExitedIsDone' /\ VolumeUsed'
    BY <2>1, <2>2 DEF CompleteInv, ExitedIsDone, VolumeUsed
  <2>5. AllCounted'
    <3>1. Active' /\ ~hist'.lost => files.uploaded = files.db + redis.queue + Adding
      BY <2>1, ActiveBefore DEF CompleteInv, AllCounted
    <3>2. Adding \in Nat /\ Adding' = Adding
      BY <2>1 DEF Adding
    <3>3. Active' /\ ~hist'.lost => files'.uploaded = files'.db + redis'.queue + Adding'
      BY <2>2, <2>3, <3>1, <3>2, Fields
    <3> QED BY <3>3 DEF AllCounted
  <2>6. QueueBehind'
    <3>1. sync.pod[p] # "succeeded"
      BY <2>1 DEF CompleteInv, ExitedIsDone, Busy
    <3>2. Behind(p)'
      BY <2>1, <2>2, <3>1 DEF Behind
    <3> QED BY <3>2 DEF QueueBehind
  <2>7. CompleteRests'
    BY <2>1 DEF CompleteInv, CompleteRests, Busy, None
  <2> QED BY <2>4, <2>5, <2>6, <2>7 DEF CompleteInv
<1>4. CASE CrawlerEnd(p)
  <2>1. /\ redis.status[p] \in Busy /\ p \notin volume
        /\ \E end \in {"done", "interrupted"} :
             /\ redis' = [redis EXCEPT !.status[p] = end]
             /\ end = "interrupted" => redis.paused
        /\ sync' = sync /\ db' = db /\ UNCHANGED <<files, pod, volume, hist>>
    BY <1>4 DEF CrawlerEnd, operator_and_api
  <2>2. redis.status[p] \notin {None, "done", "failed"}
    BY <2>1 DEF Busy, None
  <2> QED BY <2>1, <2>2, CrawlerFields, CompleteReport
<1>5. CASE CrawlerFail(p) \/ \E busy \in Busy \cap Events : CrawlerPackage(p, busy)
  <2>1. /\ redis.status[p] = "running"
        /\ \E v \in Busy \cup {"failed"} : redis' = [redis EXCEPT !.status[p] = v]
        /\ sync' = sync /\ db' = db /\ UNCHANGED <<files, pod, volume, hist>>
    BY <1>5 DEF CrawlerFail, CrawlerPackage, operator_and_api
  <2> QED BY <2>1, CrawlerFields, CompleteReport DEF Busy, None
<1> QED BY <1>1, <1>2, <1>3, <1>4, <1>5

\* Every step keeps CompleteInv.
LEMMA CompleteStep ==
  ASSUME Timely, Timely', CompleteInv, Onward
  PROVE  CompleteInv'
<1>0. Settled
  BY NextInv DEF Timely, Onward
<1>1. CASE SyncStep
  <2>1. \A expired \in (IF "expiry" \in Events THEN BOOLEAN ELSE {FALSE}) : expired \in BOOLEAN
    OBVIOUS
  <2> QED BY <1>0, <1>1, <2>1, CompleteEnd, CompleteParts, CompleteFiles, CompleteUpdate,
             CompleteAnswer, Zenon DEF SyncStep, Ending
<1>2. CASE \E p \in Pods : CrawlerStep(p)
  BY <1>0, <1>2, CompleteCluster, CompleteCrawler DEF CrawlerStep
<1> QED BY <1>0, <1>1, <1>2, CompleteOthers, CompleteCluster DEF Onward, Next

LEMMA AddComplete ==
  ASSUME Inv, ApiAddCrawl, ~overtaken', overtaken \/ CompleteInv
  PROVE  CompleteInv'
<1>1. /\ CompleteInv /\ db'.state = "starting" /\ redis = EmptyRedis
      /\ files.uploaded = 0 /\ files.db = 0 /\ sync.pc \notin {"add", "update"}
      /\ UNCHANGED <<pod, redis, volume, sync, files>>
  BY Added DEF Timely, not_begun
<1>2. redis.queue = 0
  BY <1>1, EmptyFields
<1> QED BY <1>1, <1>2
        DEF CompleteInv, ExitedIsDone, VolumeUsed, AllCounted, Adding, QueueBehind, CompleteRests

LEMMA InitComplete == Init => CompleteInv
BY IdleFields, EmptyFields
   DEF Init, CompleteInv, ExitedIsDone, VolumeUsed, AllCounted, Adding, QueueBehind, CompleteRests,
       None

LEMMA CompleteNext ==
  ASSUME Inv, Inv', overtaken \/ CompleteInv, [Next]_vars
  PROVE  (overtaken \/ CompleteInv)'
BY OvertakenStays, CompleteStep, AddComplete DEF Timely, Onward

\* A complete crawl has all its files, unless files were lost or a crawler came late: a
\* result counts only for pods whose exit the snapshot has seen, and the snapshot is
\* older than the files that were taken (update_crawl_state).
THEOREM CompleteSafe == Spec => []CompleteHasAllFiles
<1>1. Timely /\ CompleteInv => CompleteHasAllFiles
  BY Fields DEF CompleteInv, CompleteRests, VolumeUsed, CompleteHasAllFiles
<1>2. Inv /\ Inv' /\ (overtaken \/ CompleteInv) /\ [Next]_vars => (overtaken \/ CompleteInv)'
  BY CompleteNext
<1>3. overtaken => CompleteHasAllFiles
  BY DEF CompleteHasAllFiles
<1>4. Init => overtaken \/ CompleteInv
  BY InitComplete
<1>5. Inv /\ (overtaken \/ CompleteInv) => CompleteHasAllFiles
  BY <1>1, <1>3 DEF Timely
<1> QED BY <1>2, <1>4, <1>5, Invariance, PTL DEF Spec
-----------------------------------------------------------------------------
(***************************************************************************)
(* Paused crawls: requests.                                                *)
(***************************************************************************)

\* What requests know is kept by a step that changes the place and the status only.
LEMMA KnowsRequest ==
  ASSUME Timely, RequestKnows, sync'.spec = sync.spec, sync'.pod = sync.pod,
         sync'.redis = sync.redis, spec' = spec, hist'.resumed = hist.resumed,
         sync'.pc \in Looking /\ sync'.isPaused =>
           \/ sync'.st.state \in PAUSED_STATES
           \/ sync.pc \in Looking /\ sync.isPaused /\ sync'.st.state = sync.st.state,
         sync'.pc \in {"files", "add", "update"} =>
           \/ sync.pc \in {"files", "add", "update"}
           \/ sync.redis = "up" /\ Started # {}
  PROVE  RequestKnows'
<1>1. Started' = Started
  BY DEF Started
<1> QED BY <1>1 DEF RequestKnows

\* What a request goes on with when it takes files.
LEMMA FilesFields ==
  ASSUME Timely, SyncCrawler \/ SyncPop \/ SyncAddFile \/ SyncDrained
  PROVE  /\ sync.pc \in {"state", "files", "add"} /\ sync'.pc \in {"files", "add", "update"}
         /\ SyncCrawler => sync.redis = "up" /\ Started # {}
         /\ ~SyncCrawler => sync.pc \in {"files", "add"}
         /\ sync'.st.state = sync.st.state /\ SameWork(sync.st, sync'.st)
         /\ sync'.pod = sync.pod /\ sync'.spec = sync.spec /\ sync'.redis = sync.redis
         /\ sync'.isPaused = sync.isPaused
         /\ redis'.status = redis.status /\ redis'.pod = redis.pod /\ redis'.found = redis.found
         /\ redis'.paused = redis.paused
         /\ UNCHANGED <<job, spec, status, db, pod, volume, hist>>
<1>1. CASE SyncCrawler
  <2>1. /\ sync.pc = "state" /\ sync.redis = "up" /\ Started # {} /\ redis' = redis
        /\ \E code \in lastExits : Goto("files", [sync.st EXCEPT !.lastExit = code])
        /\ UNCHANGED <<job, spec, status, db, pod, volume, hist>>
    BY <1>1 DEF SyncCrawler, crawler_running, redis_connected, cluster
  <2>2. PICK code \in lastExits : Goto("files", [sync.st EXCEPT !.lastExit = code])
    BY <2>1
  <2> DEFINE st == [sync.st EXCEPT !.lastExit = code]
  <2>3. st.state = sync.st.state /\ SameWork(sync.st, st)
    BY Fields DEF CrawlStatus, SameWork
  <2>4. Goto("files", st)
    BY <2>2
  <2> HIDE DEF st
  <2> QED BY <1>1, <2>1, <2>3, <2>4, GotoFields
<1>2. CASE ~SyncCrawler
  <2>1. /\ sync.pc \in {"files", "add"}
        /\ \E pc \in {"files", "add", "update"} : Goto(pc, sync.st)
        /\ UNCHANGED <<job, spec, status, db, pod, volume, hist>>
    BY <1>2 DEF SyncPop, SyncAddFile, SyncDrained, cluster
  <2>2. /\ redis'.status = redis.status /\ redis'.pod = redis.pod /\ redis'.found = redis.found
        /\ redis'.paused = redis.paused
    BY <1>2, Fields DEF SyncPop, SyncAddFile, SyncDrained, cluster, Redis
  <2>3. SameWork(sync.st, sync.st)
    BY DEF SameWork
  <2> QED BY <1>2, <2>1, <2>2, <2>3, GotoFields
<1> QED BY <1>1, <1>2

\* The places of a request.
LEMMA Places ==
  /\ Looking = {"state", "files", "add", "update"}
  /\ "answer" \notin Looking /\ "paused" \notin Looking /\ "start" \notin Looking
  /\ "idle" \notin Looking
BY DEF Looking

\* Coroutines and the API leave requests alone, and only a resume ends a pause.
LEMMA OthersSync ==
  ASSUME TaskStep \/ ApiStep \/ UNCHANGED vars
  PROVE  sync' = sync /\ status' = status /\ UNCHANGED <<redis, pod, volume>>
BY DEF TaskStep, TaskCleanup, TaskNotify, TaskDeleteJob, AsyncDelete, AsyncPause,
   ApiStep, ApiStop, ApiPause, ApiResume, ApiCancel, ApiDeleteBegin, ApiDeleteEnd,
   CronCreateJob, CronFinished, cluster, vars

LEMMA PauseLasts ==
  ASSUME Timely, TaskStep \/ ApiStep \/ UNCHANGED vars
  PROVE  hist'.resumed \/ (~hist.resumed /\ (spec.paused => spec'.paused))
<1>1. CASE ApiResume
  BY <1>1, Fields DEF ApiResume, History
<1>2. CASE ~ApiResume
  <2>1. hist'.resumed = hist.resumed
    BY <1>2, Fields DEF TaskStep, TaskCleanup, TaskNotify, TaskDeleteJob, AsyncDelete,
       AsyncPause, ApiStep, ApiStop, ApiPause, ApiCancel, ApiDeleteBegin, ApiDeleteEnd,
       CronCreateJob, CronFinished, vars, History
  <2>2. spec.paused => spec'.paused
    BY <1>2, Fields DEF TaskStep, TaskCleanup, TaskNotify, TaskDeleteJob, AsyncDelete,
       AsyncPause, ApiStep, ApiStop, ApiPause, ApiCancel, ApiDeleteBegin, ApiDeleteEnd,
       CronCreateJob, CronFinished, vars, CrawlSpec
  <2> QED BY <2>1, <2>2
<1> QED BY <1>1, <1>2

LEMMA KnowsStep ==
  ASSUME Timely, Timely', RequestKnows, Onward
  PROVE  RequestKnows'
<1>1. CASE Ending
  BY <1>1, EndFields, StartTasksFields, KnowsRequest, Places
<1>2. CASE SyncAtOrgLimit \/ SyncAwaitIndex
  BY <1>2, WaitFields, KnowsRequest, Places
<1>3. CASE SyncAdmitted
  BY <1>3, AdmittedFields, KnowsRequest
<1>4. CASE SyncNoPods \/ SyncRedisError
  <2>1. spec' = spec /\ Goto("paused", sync.st)
    BY <1>4 DEF SyncNoPods, SyncRedisError
  <2>2. hist'.resumed = hist.resumed
    BY <1>4, Fields DEF SyncNoPods, SyncRedisError, History
  <2> QED BY <2>1, <2>2, GotoFields, KnowsRequest, Places
<1>5. ASSUME NEW late \in BOOLEAN, NEW idle \in BOOLEAN, SyncNoCrawler(late, idle)
      PROVE  RequestKnows'
  BY <1>5, NoCrawlerFields, KnowsRequest, Places
<1>6. CASE SyncCrawler \/ SyncPop \/ SyncAddFile \/ SyncDrained
  BY <1>6, FilesFields, KnowsRequest, Places
<1>7. ASSUME NEW cond \in Conditions, NEW failed \in {"failed", "failed_not_logged_in"},
             SyncUpdate(cond, failed)
      PROVE  RequestKnows'
  <2>1. PICK st, ok : UpdateOf(st, update_crawl_state(st, failed), ok)
    BY <1>7, UpdateFacts
  <2>2. /\ ok \in BOOLEAN /\ StartTasks(ok, update_crawl_state(st, failed))
        /\ spec' = spec /\ sync'.pc \in {"answer", "paused"} /\ sync'.pod = sync.pod
        /\ sync'.spec = sync.spec /\ sync'.redis = sync.redis
    BY <2>1 DEF UpdateOf
  <2>3. hist'.resumed = hist.resumed
    BY <2>2, StartTasksFields
  <2> QED BY <2>2, <2>3, KnowsRequest, Places
<1>8. ASSUME NEW expired \in BOOLEAN, SyncPaused(expired)
      PROVE  RequestKnows'
  <2>1. spec' = spec
    BY <1>8 DEF SyncPaused
  <2>2. hist'.resumed = hist.resumed
    BY <1>8, PausedFields, StartTasksFields
  <2> QED BY <1>8, <2>1, <2>2, PausedFields, KnowsRequest, Places
<1>9. ASSUME sync' = IdleSync
      PROVE  RequestKnows'
  BY <1>9, IdleFields, Places DEF RequestKnows, IdleSync
<1>10. CASE \/ AnswerRun \/ AnswerEmpty \/ \E expired \in BOOLEAN : AnswerFinal(expired)
            \/ OperatorRestart \/ AnswerLost
  BY <1>9, <1>10 DEF AnswerRun, AnswerEmpty, AnswerFinal, OperatorRestart, AnswerLost
<1>11. CASE SyncBegin
  BY <1>11, Places DEF SyncBegin, RequestKnows, IdleSync
<1>12. ASSUME sync' = sync, hist'.resumed \/ (~hist.resumed /\ (spec.paused => spec'.paused))
       PROVE  RequestKnows'
  <2>1. Started' = Started
    BY <1>12 DEF Started
  <2> QED BY <1>12, <2>1 DEF RequestKnows
<1>13. CASE TaskStep \/ ApiStep \/ UNCHANGED vars
  BY <1>12, <1>13, OthersSync, PauseLasts
<1>14. CASE (\E p \in Pods : CrawlerStep(p)) \/ RedisStart \/ RedisRestart \/ CrawlerRateLimit
  <2>1. sync' = sync /\ spec' = spec
    BY <1>14 DEF CrawlerStep, PodStart, PodRestart, PodEvict, PodSucceed, PodExit, CrawlerStart,
       CrawlerPage, CrawlerUpload, CrawlerEnd, CrawlerFail, CrawlerPackage, RedisStart,
       RedisRestart, CrawlerRateLimit, operator_and_api
  <2>2. hist'.resumed = hist.resumed
    BY <1>14, Fields DEF CrawlerStep, PodStart, PodRestart, PodEvict, PodSucceed, PodExit,
       CrawlerStart, CrawlerPage, CrawlerUpload, CrawlerEnd, CrawlerFail, CrawlerPackage,
       RedisStart, RedisRestart, CrawlerRateLimit, Fault, History
  <2> QED BY <1>12, <2>1, <2>2
<1>15. CASE SyncStep
  <2>1. \A expired \in (IF "expiry" \in Events THEN BOOLEAN ELSE {FALSE}) : expired \in BOOLEAN
    OBVIOUS
  <2> QED BY <1>1, <1>2, <1>3, <1>4, <1>5, <1>6, <1>7, <1>8, <1>10, <1>11, <1>15, <2>1, Zenon
          DEF SyncStep, Ending
<1> QED BY <1>10, <1>13, <1>14, <1>15 DEF Onward, Next
-----------------------------------------------------------------------------
(***************************************************************************)
(* Paused crawls: the work before the pause.                               *)
(***************************************************************************)

\* A request in flight goes on: the status it works on agrees with the document, and
\* what it counts is what redis says.
LEMMA WorkRequest ==
  ASSUME Timely, Timely', WorkInv, sync.pc # "idle", sync'.pc # "idle", sync'.pod = sync.pod,
         status' = status, pod' = pod, redis'.status = redis.status, redis'.pod = redis.pod,
         redis'.found = redis.found,
         sync'.st.state = db'.state,
         sync'.st.state \in EarlyStates => /\ sync.st.state \in EarlyStates
                                           /\ SameWork(sync.st, sync'.st),
         sync'.pc = "answer" => sync'.answer # "empty" \/ sync'.st.state \in EarlyStates,
         sync'.st.pagesFound \in {sync.st.pagesFound, redis.found},
         \A p \in sync'.st.sizePending : p \in sync.st.sizePending \/ redis.status[p] # None,
         sync'.pc \in {"start"} \cup Looking =>
           sync.pc \in {"start"} \cup Looking /\ SameWork(sync.st, sync'.st)
  PROVE  WorkInv'
<1>1. Current = sync.st /\ Current' = sync'.st
  BY DEF Current
<1>2. StatusIsDocument' /\ EarlyIsEmpty' /\ EmptyIsEarly'
  BY <1>1 DEF WorkInv, StatusIsDocument, EarlyIsEmpty, EmptyIsEarly, SameWork
<1>3. /\ sync.st.pagesFound \in Nat /\ sync'.st.pagesFound \in Nat /\ redis.found \in Nat
      /\ status.pagesFound \in Nat
  BY Fields, MaxPagesAssumption DEF Timely, Inv, TypeOK, Request, CrawlStatus, Redis
<1>4. sync.st.pagesFound <= sync'.st.pagesFound /\ sync'.st.pagesFound <= redis.found
      /\ status.pagesFound <= sync'.st.pagesFound
  BY <1>1, <1>3 DEF WorkInv, PagesGrow
<1>5. PagesGrow'
  BY <1>1, <1>4 DEF PagesGrow
<1>6. PodsKept'
  <2>1. desiredScale' = desiredScale
    BY DEF desiredScale
  <2>2. \A p \in Pods : p \in Nat
    BY NumPodsAssumption DEF Pods
  <2> QED BY <1>1, <1>3, <1>4, <2>1, <2>2 DEF WorkInv, PodsKept
<1>7. RedisKept'
  BY <1>1, Places DEF WorkInv, RedisKept, SameWork
<1>8. InterruptedRuns' /\ SnapshotHolds' /\ PodsShape'
  BY DEF WorkInv, InterruptedRuns, SnapshotHolds, PodsShape
<1>9. PendingReported'
  BY <1>1 DEF WorkInv, PendingReported
<1> QED BY <1>2, <1>5, <1>6, <1>7, <1>8, <1>9 DEF WorkInv

\* A step of others: pods and redis only come up, and crawlers report more.
LEMMA WorkOther ==
  ASSUME Timely, Timely', WorkInv, sync' = sync, status' = status, db'.state = db.state,
         \A p \in Pods : pod'[p] # None <=> pod[p] # None,
         \A p \in Pods : pod'[p] = "pending" => pod[p] = "pending",
         redis.found <= redis'.found, redis'.pod # None => redis.pod # None,
         \A p \in Pods : redis.status[p] # None => redis'.status[p] # None,
         InterruptedRuns'
  PROVE  WorkInv'
<1>1. Current' = Current
  BY DEF Current
<1>2. StatusIsDocument' /\ EarlyIsEmpty' /\ EmptyIsEarly'
  BY <1>1 DEF WorkInv, StatusIsDocument, EarlyIsEmpty, EmptyIsEarly
<1>3. PagesGrow'
  <2>1. Current.pagesFound \in Nat /\ redis.found \in Nat /\ redis'.found \in Nat
    BY MaxPagesAssumption DEF Current, Timely, Inv, TypeOK, Request, CrawlStatus, Redis
  <2> QED BY <1>1, <2>1 DEF WorkInv, PagesGrow
<1>4. PodsKept'
  BY <1>1 DEF WorkInv, PodsKept, desiredScale
<1>5. RedisKept'
  BY <1>1 DEF WorkInv, RedisKept
<1>6. SnapshotHolds'
  BY DEF WorkInv, SnapshotHolds
<1>7. PodsShape'
  BY DEF WorkInv, PodsShape
<1>8. PendingReported'
  <2>1. Current.sizePending \subseteq Pods
    BY DEF Current, Timely, Inv, TypeOK, Request, CrawlStatus
  <2> QED BY <1>1, <2>1 DEF WorkInv, PendingReported
<1> QED BY <1>2, <1>3, <1>4, <1>5, <1>6, <1>7, <1>8 DEF WorkInv

\* A status that is finished belongs to a document that is over.
LEMMA FinishedIsOver ==
  ASSUME Timely', sync'.st.finished
  PROVE  ~Active'
BY DEF Timely, Inv, StatusOK, Active

\* A request, before and after it looks at the pods.
LEMMA WorkParts ==
  ASSUME Timely, Timely', WorkInv, Active',
         \/ SyncAtOrgLimit \/ SyncAwaitIndex \/ SyncAdmitted
         \/ \E late, idle \in BOOLEAN : SyncNoCrawler(late, idle)
         \/ \E expired \in BOOLEAN : SyncPaused(expired)
  PROVE  WorkInv'
<1>0. sync.pc # "idle" => sync.st.state = db.state
  BY DEF WorkInv, StatusIsDocument, Current
<1>a. \A p \in sync.st.sizePending : p \in sync.st.sizePending
  OBVIOUS
<1>1. CASE SyncAtOrgLimit \/ SyncAwaitIndex
  <2>1. sync'.st.pagesFound = sync.st.pagesFound /\ sync'.st.sizePending = sync.st.sizePending
    BY <1>1, WaitFields DEF SameWork
  <2> QED BY <1>0, <1>1, <2>1, WaitFields, WorkRequest, Places
<1>2. CASE SyncAdmitted
  <2>1. sync'.st.pagesFound = sync.st.pagesFound /\ sync'.st.sizePending = sync.st.sizePending
    BY <1>2, AdmittedFields DEF SameWork
  <2>2. sync'.st.state \in EarlyStates => sync.st.state \in EarlyStates
    BY <1>0, <1>2, AdmittedFields DEF EarlyStates
  <2> QED BY <1>0, <1>2, <2>1, <2>2, AdmittedFields, WorkRequest, Places
<1>3. ASSUME NEW late \in BOOLEAN, NEW idle \in BOOLEAN, SyncNoCrawler(late, idle)
      PROVE  WorkInv'
  <2>1. ~sync'.st.finished
    BY FinishedIsOver
  <2>2. /\ sync.pc = "state" /\ sync'.pc = "paused" /\ sync'.pod = sync.pod
        /\ sync'.st.pagesFound = sync.st.pagesFound /\ sync'.st.sizePending = sync.st.sizePending
        /\ sync'.st.state = db'.state /\ sync'.st.state \in {sync.st.state, "waiting_capacity"}
        /\ redis'.status = redis.status /\ redis'.pod = redis.pod /\ redis'.found = redis.found
        /\ UNCHANGED <<status, pod>>
    BY <1>0, <1>3, <2>1, NoCrawlerFields
  <2>3. sync.st.state \in EarlyStates =>
          sync.st.pagesFound = 0 /\ sync.st.sizePending = {}
    BY <2>2 DEF WorkInv, EarlyIsEmpty, Current
  <2>4. Current = sync.st /\ Current' = sync'.st
    BY <2>2 DEF Current
  <2>5. StatusIsDocument' /\ EarlyIsEmpty' /\ EmptyIsEarly'
    BY <2>2, <2>3, <2>4 DEF StatusIsDocument, EarlyIsEmpty, EmptyIsEarly, EarlyStates
  <2>6. PagesGrow' /\ PodsKept' /\ PendingReported'
    BY <2>2, <2>4 DEF WorkInv, PagesGrow, PodsKept, PendingReported, desiredScale
  <2>7. RedisKept'
    BY <2>2, Places DEF RedisKept
  <2>8. InterruptedRuns' /\ SnapshotHolds' /\ PodsShape'
    BY <2>2 DEF WorkInv, InterruptedRuns, SnapshotHolds, PodsShape
  <2> QED BY <2>5, <2>6, <2>7, <2>8 DEF WorkInv
<1>4. ASSUME NEW expired \in BOOLEAN, SyncPaused(expired)
      PROVE  WorkInv'
  <2>1. sync'.st = sync.st /\ db' = db
    BY <1>4, PausedFields, FinishedIsOver
  <2>2. sync.pc = "paused" /\ UNCHANGED <<status, redis, pod>>
    BY <1>4 DEF SyncPaused, cluster
  <2> QED BY <1>0, <1>4, <2>1, <2>2, PausedFields, WorkRequest, Places
<1> QED BY <1>1, <1>2, <1>3, <1>4

\* A request that looks at the pods.
LEMMA WorkLooks ==
  ASSUME Timely, Timely', WorkInv, Active',
         SyncCrawler \/ SyncPop \/ SyncAddFile \/ SyncDrained \/ SyncNoPods \/ SyncRedisError
  PROVE  WorkInv'
<1>0. sync.pc # "idle" => sync.st.state = db.state
  BY DEF WorkInv, StatusIsDocument, Current
<1>1. CASE SyncCrawler \/ SyncPop \/ SyncAddFile \/ SyncDrained
  <2>1. sync'.st.pagesFound = sync.st.pagesFound /\ sync'.st.sizePending = sync.st.sizePending
    BY <1>1, FilesFields DEF SameWork
  <2> QED BY <1>0, <1>1, <2>1, FilesFields, WorkRequest, Places
<1>2. CASE SyncNoPods \/ SyncRedisError
  <2>1. /\ Goto("paused", sync.st) /\ db' = db /\ UNCHANGED <<status, redis, pod>>
        /\ sync.pc \in Looking
    BY <1>2, Places DEF SyncNoPods, SyncRedisError, cluster
  <2>2. SameWork(sync.st, sync.st)
    BY DEF SameWork
  <2> QED BY <1>0, <2>1, <2>2, GotoFields, WorkRequest, Places
<1> QED BY <1>1, <1>2

\* The evaluation of the pods.
LEMMA WorkUpdate ==
  ASSUME Timely, Timely', CompleteInv, WorkInv, Active', NEW cond \in Conditions,
         NEW failed \in {"failed", "failed_not_logged_in"}, SyncUpdate(cond, failed)
  PROVE  WorkInv'
<1>1. PICK st, ok : UpdateOf(st, update_crawl_state(st, failed), ok)
  BY UpdateFacts
<1>2. sync.pc = "update"
  BY DEF SyncUpdate
<1>3. sync.st.state = db.state
  BY <1>2 DEF WorkInv, StatusIsDocument, Current
<1>4. ~sync'.st.finished
  BY FinishedIsOver
<1>5. /\ sync'.st.state = db'.state /\ db'.state = update_crawl_state(st, failed)
      /\ sync'.pc = "paused" /\ sync'.pod = sync.pod
      /\ st.pagesFound = redis.found /\ st.sizePending = volume /\ SameWork(st, sync'.st)
      /\ redis'.status = redis.status /\ redis'.pod = redis.pod /\ redis'.found = redis.found
      /\ UNCHANGED <<status, pod>>
  BY <1>1, <1>3, <1>4 DEF UpdateOf
<1>6. sync'.st.state \notin EarlyStates
  BY <1>5, UpdateCases
<1>7. sync'.st.pagesFound = redis.found /\ \A p \in sync'.st.sizePending : redis.status[p] # None
  BY <1>5 DEF SameWork, CompleteInv, VolumeUsed
<1> QED BY <1>2, <1>5, <1>6, <1>7, WorkRequest, Places

\* The snapshot and the answers.
LEMMA WorkAnswer ==
  ASSUME Timely, Timely', WorkInv, Active',
         \/ SyncBegin \/ AnswerRun \/ AnswerEmpty
         \/ \E expired \in BOOLEAN : AnswerFinal(expired)
  PROVE  WorkInv'
<1>0. \A p \in Pods : p \in Nat
  BY NumPodsAssumption DEF Pods
<1>1. CASE SyncBegin
  <2>1. /\ sync.pc = "idle" /\ sync'.pc = "start" /\ sync'.pod = pod /\ sync'.st = status
        /\ UNCHANGED <<status, db, redis, pod>>
    BY <1>1 DEF SyncBegin, IdleSync, cluster
  <2>2. Current' = Current
    BY <2>1 DEF Current
  <2>3. StatusIsDocument' /\ EarlyIsEmpty' /\ EmptyIsEarly'
    BY <2>1, <2>2 DEF WorkInv, StatusIsDocument, EarlyIsEmpty, EmptyIsEarly
  <2>4. PagesGrow' /\ PodsKept' /\ RedisKept' /\ PendingReported'
    BY <2>1, <2>2 DEF WorkInv, PagesGrow, PodsKept, RedisKept, PendingReported, desiredScale
  <2>5. InterruptedRuns' /\ SnapshotHolds' /\ PodsShape'
    BY <2>1 DEF WorkInv, InterruptedRuns, SnapshotHolds, PodsShape
  <2> QED BY <2>3, <2>4, <2>5 DEF WorkInv
<1>2. CASE AnswerRun
  <2>1. /\ sync.pc = "answer" /\ sync' = IdleSync /\ status' = sync.st /\ db' = db
        /\ redis' = [redis EXCEPT !.pod = IF sync.st.initRedis THEN create(@) ELSE None]
        /\ pod' = [p \in Pods |->
                     IF p < desiredScale /\ p <= sync.st.pagesFound /\ init_crawler(p)
                       THEN create(pod[p]) ELSE None]
    BY <1>2 DEF AnswerRun
  <2>2. Current = sync.st /\ Current' = sync.st /\ sync'.pc = "idle"
    BY <2>1, IdleFields DEF Current
  <2>3. /\ redis'.status = redis.status /\ redis'.found = redis.found
        /\ redis'.pod # None => sync.st.initRedis
    BY <2>1, Fields DEF Redis
  <2>4. StatusIsDocument' /\ EarlyIsEmpty' /\ EmptyIsEarly' /\ PendingReported'
    BY <2>1, <2>2, <2>3
       DEF WorkInv, StatusIsDocument, EarlyIsEmpty, EmptyIsEarly, PendingReported
  <2>5. sync.st.pagesFound \in Nat /\ status.pagesFound \in Nat
    BY Fields, MaxPagesAssumption DEF CrawlStatus
  <2>6. PagesGrow'
    BY <2>1, <2>2, <2>3, <2>5 DEF WorkInv, PagesGrow
  <2>7. \A p \in Pods : pod'[p] # None => p < desiredScale /\ p <= sync.st.pagesFound
    BY <2>1
  <2>8. PodsKept'
    <3>1. desiredScale \in Nat /\ desiredScale' \in Nat /\ desiredScale <= desiredScale'
      <4>1. status.pagesFound <= status'.pagesFound /\ status'.pagesFound \in Nat
        BY <2>1, <2>2, <2>5 DEF WorkInv, PagesGrow
      <4> QED BY <2>5, <4>1, NumPodsAssumption DEF desiredScale, max
    <3> QED BY <1>0, <2>2, <2>7, <3>1 DEF PodsKept
  <2>9. RedisKept' /\ SnapshotHolds'
    BY <2>2, <2>3 DEF RedisKept, SnapshotHolds
  <2>10. InterruptedRuns'
    BY <2>1, <2>3 DEF WorkInv, InterruptedRuns, create
  <2>11. PodsShape'
    <3>1. CASE sync.isPaused
      <4>1. \A p \in Pods : pod'[p] # None => p \in sync.st.sizePending
        BY <2>1, <3>1 DEF init_crawler
      <4> QED BY <2>2, <2>3, <4>1 DEF WorkInv, PendingReported, PodsShape
    <3>2. CASE ~sync.isPaused
      <4>1. \A p \in Pods : pod'[p] # None <=> p < desiredScale /\ p <= sync.st.pagesFound
        BY <2>1, <3>2 DEF init_crawler, create, None
      <4>2. desiredScale \in Nat
        BY <2>5, NumPodsAssumption DEF desiredScale, max
      <4>3. \A p \in Pods, q \in Pods : pod'[p] # None /\ q < p => pod'[q] # None
        BY <1>0, <2>5, <4>1, <4>2
      <4> QED BY <4>3 DEF PodsShape
    <3> QED BY <3>1, <3>2
  <2> QED BY <2>4, <2>6, <2>8, <2>9, <2>10, <2>11 DEF WorkInv
<1>3. CASE AnswerEmpty
  <2>1. /\ sync.pc = "answer" /\ sync.answer = "empty" /\ sync' = IdleSync /\ status' = sync.st
        /\ db' = db /\ redis' = EmptyRedis /\ pod' = [p \in Pods |-> None]
    BY <1>3 DEF AnswerEmpty, DropVolumes
  <2>2. Current = sync.st /\ Current' = sync.st /\ sync'.pc = "idle"
    BY <2>1, IdleFields DEF Current
  <2>3. sync.st.pagesFound = 0 /\ sync.st.sizePending = {}
    BY <2>1, <2>2 DEF WorkInv, EmptyIsEarly, EarlyIsEmpty
  <2>4. redis'.found = 0 /\ redis'.pod = None
        /\ \A p \in Pods : redis'.status[p] = None /\ pod'[p] = None
    BY <2>1, EmptyFields
  <2>5. StatusIsDocument' /\ EarlyIsEmpty' /\ EmptyIsEarly' /\ PendingReported'
    BY <2>1, <2>2, <2>3
       DEF WorkInv, StatusIsDocument, EarlyIsEmpty, EmptyIsEarly, PendingReported
  <2>6. PagesGrow' /\ PodsKept' /\ RedisKept'
    BY <2>1, <2>2, <2>3, <2>4 DEF PagesGrow, PodsKept, RedisKept
  <2>7. InterruptedRuns' /\ SnapshotHolds' /\ PodsShape'
    BY <2>2, <2>4 DEF InterruptedRuns, SnapshotHolds, PodsShape, None
  <2> QED BY <2>5, <2>6, <2>7 DEF WorkInv
<1>4. ASSUME NEW expired \in BOOLEAN, AnswerFinal(expired)
      PROVE  FALSE
  <2>1. sync.st.finished /\ db' = db
    BY <1>4 DEF AnswerFinal, Timely, Inv, FinalAnswer
  <2> QED BY <2>1 DEF Timely, Inv, StatusOK, Active
<1> QED BY <1>1, <1>2, <1>3, <1>4

\* Coroutines and the API only end a crawl.
LEMMA OthersFields ==
  ASSUME Timely, Timely', TaskStep \/ ApiStep \/ UNCHANGED vars
  PROVE  /\ sync' = sync /\ status' = status /\ UNCHANGED <<redis, pod, volume>>
         /\ Active' => db'.state = db.state
<1>1. sync' = sync /\ status' = status /\ UNCHANGED <<redis, pod, volume>>
  BY OthersSync
<1>2. db'.state \in {db.state, None, "canceled"}
  <2>1. canceled_document(db).state \in {db.state, "canceled"}
    BY DEF canceled_document, update_crawl_state_if_allowed
  <2> QED BY <2>1 DEF TaskStep, TaskCleanup, TaskNotify, TaskDeleteJob, AsyncDelete, AsyncPause,
     ApiStep, ApiStop, ApiPause, ApiResume, ApiCancel, ApiDeleteBegin, ApiDeleteEnd,
     CronCreateJob, CronFinished, shutdown_crawl, vars
<1>3. "canceled" \in NON_RUNNING_STATES
  BY DEF NON_RUNNING_STATES, FAILED_STATES
<1>4. Active' => db'.state \notin {None, "canceled"}
  BY <1>3 DEF Active, DocumentOver, DocumentOK, Timely, Inv
<1> QED BY <1>1, <1>2, <1>4

LEMMA WorkOthers ==
  ASSUME Timely, Timely', WorkInv, Active', TaskStep \/ ApiStep \/ UNCHANGED vars
  PROVE  WorkInv'
<1>1. redis.found <= redis.found
  BY Fields, MaxPagesAssumption
<1>2. InterruptedRuns'
  BY OthersFields DEF WorkInv, InterruptedRuns
<1> QED BY <1>1, <1>2, OthersFields, WorkOther

\* A pod changes its phase.
LEMMA PodFields ==
  ASSUME Timely, NEW p \in Pods,
         \/ PodStart(p) \/ PodRestart(p) \/ PodSucceed(p)
         \/ \E code \in FailedExits : PodExit(p, code)
  PROVE  /\ pod[p] \notin {None, "succeeded"} /\ pod'[p] \notin {None, "pending"}
         /\ \A q \in Pods \ {p} : pod'[q] = pod[q]
         /\ \/ pod[p] # "running"
            \/ redis.status[p] \in {None, "running", "done"} \cup Busy
         /\ pod[p] \in {"pending", "running"} \cup FailedExits \cup {"backoff"}
         /\ pod'[p] = "running" \/ pod[p] # "pending"
         /\ UNCHANGED operator_and_api /\ UNCHANGED <<files, redis, volume, hist>>
<1>1. \E ph \in PodPhase \ {None, "pending"} :
        /\ pod' = [pod EXCEPT ![p] = ph]
        /\ ph = "running" \/ pod[p] # "pending"
  BY DEF PodStart, PodRestart, PodSucceed, PodExit, PodPhase, FailedExits, None
<1>2. /\ pod[p] \notin {None, "succeeded"}
      /\ pod[p] # "running" \/ redis.status[p] \in {None, "running", "done"} \cup Busy
      /\ pod[p] \in {"pending", "running"} \cup FailedExits \cup {"backoff"}
      /\ UNCHANGED operator_and_api /\ UNCHANGED <<files, redis, volume, hist>>
  BY DEF PodStart, PodRestart, PodSucceed, PodExit, FailedExits, None
<1> QED BY <1>1, <1>2, Fields

\* A crawler changes what it reports.
LEMMA ReportFields ==
  ASSUME Timely, NEW p \in Pods,
         \/ CrawlerStart(p) \/ CrawlerPage(p) \/ CrawlerUpload(p) \/ CrawlerEnd(p)
         \/ CrawlerFail(p) \/ \E busy \in Busy \cap Events : CrawlerPackage(p, busy)
  PROVE  /\ pod[p] = "running" /\ redis.pod = "up"
         /\ \/ CrawlerStart(p) /\ redis.status[p] \in {None, "interrupted"} /\ ~redis.paused
            \/ redis.status[p] \in {"running"} \cup Busy
         /\ redis'.status[p] # None /\ redis'.pod = redis.pod
         /\ \A q \in Pods \ {p} : redis'.status[q] = redis.status[q]
         /\ redis.found <= redis'.found
         /\ UNCHANGED operator_and_api /\ pod' = pod
<1>a. redis.found \in Nat
  BY Fields, MaxPagesAssumption
<1>b. UNCHANGED operator_and_api /\ pod' = pod /\ at_work(p)
  BY DEF CrawlerStart, CrawlerPage, CrawlerUpload, CrawlerEnd, CrawlerFail, CrawlerPackage
<1>0. /\ redis.found \in Nat /\ UNCHANGED operator_and_api /\ pod' = pod
      /\ pod[p] = "running" /\ redis.pod = "up"
  BY <1>a, <1>b DEF at_work
<1>1. CASE CrawlerStart(p)
  <2>1. /\ redis.status[p] \in {None, "interrupted"} /\ ~redis.paused
        /\ redis' = [redis EXCEPT !.status[p] = "running", !.found = max(@, 1)]
    BY <1>1 DEF CrawlerStart
  <2>2. /\ redis'.status[p] = "running" /\ redis'.pod = redis.pod
        /\ \A q \in Pods \ {p} : redis'.status[q] = redis.status[q]
        /\ redis'.found = max(redis.found, 1)
    BY <2>1, Fields DEF Redis
  <2>3. redis.found <= max(redis.found, 1)
    BY <1>0 DEF max
  <2> QED BY <1>0, <1>1, <2>1, <2>2, <2>3 DEF None
<1>2. CASE CrawlerPage(p)
  <2>1. PICK n \in redis.found .. MaxPages : redis' = [redis EXCEPT !.found = n, !.done = TRUE]
    BY <1>2 DEF CrawlerPage
  <2>2. redis'.status = redis.status /\ redis'.pod = redis.pod /\ redis'.found = n
    BY <2>1, Fields DEF Redis
  <2>3. redis.found <= n
    BY <1>0, MaxPagesAssumption
  <2>4. redis.status[p] = "running"
    BY <1>2 DEF CrawlerPage
  <2> QED BY <1>0, <2>2, <2>3, <2>4 DEF None
<1>3. CASE CrawlerUpload(p)
  <2>1. redis.status[p] \in Busy /\ redis' = [redis EXCEPT !.queue = @ + 1]
    BY <1>3 DEF CrawlerUpload
  <2>2. redis'.status = redis.status /\ redis'.pod = redis.pod /\ redis'.found = redis.found
    BY <2>1, Fields DEF Redis
  <2>3. redis.found <= redis.found
    BY <1>0
  <2> QED BY <1>0, <2>1, <2>2, <2>3 DEF Busy, None
<1>4. CASE CrawlerEnd(p) \/ CrawlerFail(p) \/ \E busy \in Busy \cap Events : CrawlerPackage(p, busy)
  <2>1. /\ redis.status[p] \in {"running"} \cup Busy
        /\ \E v \in {"done", "interrupted", "failed"} \cup Busy :
             redis' = [redis EXCEPT !.status[p] = v]
    BY <1>4 DEF CrawlerEnd, CrawlerFail, CrawlerPackage
  <2>2. redis.found <= redis.found
    BY <1>0
  <2> QED BY <1>0, <2>1, <2>2, CrawlerFields DEF Busy, None
<1> QED BY <1>1, <1>2, <1>3, <1>4

\* The cluster and the crawlers, as long as nothing fails.
LEMMA WorkCluster ==
  ASSUME Timely, Timely', WorkInv, Active',
         \/ \E p \in Pods : CrawlerStep(p) /\ ~PodEvict(p)
         \/ RedisStart \/ CrawlerRateLimit
  PROVE  WorkInv'
<1>0. redis.found <= redis.found
  BY Fields, MaxPagesAssumption
<1>1. ASSUME NEW p \in Pods,
             \/ PodStart(p) \/ PodRestart(p) \/ PodSucceed(p)
             \/ \E code \in FailedExits : PodExit(p, code)
      PROVE  WorkInv'
  <2>1. InterruptedRuns'
    BY <1>1, PodFields DEF WorkInv, InterruptedRuns, FailedExits, Busy, None
  <2> QED BY <1>0, <1>1, <2>1, PodFields, WorkOther DEF operator_and_api
<1>2. ASSUME NEW p \in Pods,
             \/ CrawlerStart(p) \/ CrawlerPage(p) \/ CrawlerUpload(p) \/ CrawlerEnd(p)
             \/ CrawlerFail(p) \/ \E busy \in Busy \cap Events : CrawlerPackage(p, busy)
      PROVE  WorkInv'
  <2>1. InterruptedRuns'
    BY <1>2, ReportFields DEF WorkInv, InterruptedRuns
  <2> QED BY <1>2, <2>1, ReportFields, WorkOther DEF operator_and_api
<1>3. CASE RedisStart \/ CrawlerRateLimit
  <2>1. /\ redis'.status = redis.status /\ redis'.found = redis.found
        /\ redis'.pod # None => redis.pod # None
    BY <1>3, Fields DEF RedisStart, CrawlerRateLimit, Redis, None
  <2>2. sync' = sync /\ status' = status /\ db' = db /\ pod' = pod
    BY <1>3 DEF RedisStart, CrawlerRateLimit, operator_and_api
  <2>3. InterruptedRuns'
    BY <2>1, <2>2 DEF WorkInv, InterruptedRuns
  <2> QED BY <1>0, <2>1, <2>2, <2>3, WorkOther
<1> QED BY <1>1, <1>2, <1>3 DEF CrawlerStep

\* A step without a fault.
LEMMA NoFault ==
  ASSUME Timely, Timely', Onward, hist'.faults = 0
  PROVE  /\ hist.faults = 0
         /\ ~OperatorRestart /\ ~AnswerLost /\ ~RedisRestart /\ \A p \in Pods : ~PodEvict(p)
<1>1. ~OperatorRestart /\ ~AnswerLost /\ ~RedisRestart /\ \A p \in Pods : ~PodEvict(p)
  BY FaultFields DEF OperatorRestart, AnswerLost, RedisRestart, PodEvict
<1>2. hist'.faults = hist.faults
  <2>1. CASE SyncStep
    <3>1. CASE Ending
      BY <3>1, EndFields, StartTasksFields
    <3>2. ASSUME NEW cond \in Conditions, NEW failed \in {"failed", "failed_not_logged_in"},
                 SyncUpdate(cond, failed)
          PROVE  hist'.faults = hist.faults
      BY <3>2, UpdateFacts, StartTasksFields DEF UpdateOf
    <3>3. ASSUME NEW expired \in BOOLEAN, SyncPaused(expired)
          PROVE  hist'.faults = hist.faults
      BY <3>3, PausedFields, StartTasksFields
    <3>4. CASE \/ SyncBegin \/ SyncAtOrgLimit \/ SyncAwaitIndex \/ SyncAdmitted \/ SyncNoPods
               \/ \E late, idle \in BOOLEAN : SyncNoCrawler(late, idle)
               \/ SyncCrawler \/ SyncPop \/ SyncAddFile \/ SyncDrained \/ SyncRedisError
               \/ AnswerRun \/ AnswerEmpty \/ \E expired \in BOOLEAN : AnswerFinal(expired)
      BY <3>4, Fields DEF SyncBegin, SyncAtOrgLimit, SyncAwaitIndex, SyncAdmitted, SyncNoPods,
         SyncNoCrawler, SyncCrawler, SyncPop, SyncAddFile, SyncDrained, SyncRedisError,
         AnswerRun, AnswerEmpty, AnswerFinal, History
    <3>5. \A expired \in (IF "expiry" \in Events THEN BOOLEAN ELSE {FALSE}) : expired \in BOOLEAN
      OBVIOUS
    <3> QED BY <2>1, <3>1, <3>2, <3>3, <3>4, <3>5, Zenon DEF SyncStep, Ending
  <2>2. CASE TaskStep \/ ApiStep \/ UNCHANGED vars
    BY <2>2, Fields DEF TaskStep, TaskCleanup, TaskNotify, TaskDeleteJob, AsyncDelete,
       AsyncPause, ApiStep, ApiStop, ApiPause, ApiResume, ApiCancel, ApiDeleteBegin,
       ApiDeleteEnd, CronCreateJob, CronFinished, vars, History
  <2>3. CASE RedisStart \/ CrawlerRateLimit \/ \E p \in Pods : CrawlerStep(p) /\ ~PodEvict(p)
    BY <2>3, Fields DEF RedisStart, CrawlerRateLimit, CrawlerStep, PodStart, PodRestart,
       PodSucceed, PodExit, CrawlerStart, CrawlerPage, CrawlerUpload, CrawlerEnd, CrawlerFail,
       CrawlerPackage, History
  <2> QED BY <1>1, <2>1, <2>2, <2>3 DEF Onward, Next
<1> QED BY <1>1, <1>2

\* As long as nothing fails every step keeps WorkInv.
LEMMA WorkStep ==
  ASSUME Timely, Timely', CompleteInv, hist.faults = 0 /\ Active => WorkInv, Onward,
         hist'.faults = 0, Active'
  PROVE  Active /\ WorkInv /\ WorkInv'
<1>1. Active /\ WorkInv
  <2>1. Settled
    BY NextInv DEF Timely, Onward
  <2> QED BY <2>1, ActiveBefore, NoFault
<1>2. ~Ending
  BY EndFields, FinishedIsOver
<1>3. CASE SyncStep
  <2>1. \A expired \in (IF "expiry" \in Events THEN BOOLEAN ELSE {FALSE}) : expired \in BOOLEAN
    OBVIOUS
  <2> QED BY <1>1, <1>2, <1>3, <2>1, WorkParts, WorkLooks, WorkUpdate, WorkAnswer, Zenon
          DEF SyncStep, Ending
<1> QED BY <1>1, <1>3, NoFault, WorkOthers, WorkCluster DEF Onward, Next
-----------------------------------------------------------------------------
(***************************************************************************)
(* Paused crawls: the pause.                                               *)
(***************************************************************************)

\* In a paused crawl the interrupted pods are there or have been removed.
LEMMA StayOrLeft ==
  ASSUME Timely, PausedRests
  PROVE  PodsStay \/ PodsLeft
BY Fields DEF PausedRests, PausedPlace, Request

\* A pod that is held makes the operator look at redis.
LEMMA HeldLooks ==
  ASSUME PodsStay, sync.pc # "idle"
  PROVE  crawler_running /\ redis_connected
BY DEF PodsStay, Held, crawler_running, redis_connected, Started

\* A paused crawl has not ended.
LEMMA PausedActive ==
  ASSUME Timely', db'.state \in PAUSED_STATES
  PROVE  Active'
BY Paused, StateFacts DEF Timely, Inv, DocumentOK, DocumentOver, Active

\* What a request keeps when it goes on.
LEMMA RestRequest ==
  ASSUME Timely, Timely', PausedRests, sync.pc # "idle", sync'.pc # "idle", spec' = spec,
         sync'.spec = sync.spec, sync'.pod = sync.pod, sync'.redis = sync.redis, pod' = pod,
         redis'.status = redis.status, redis'.pod = redis.pod,
         PodsStay => redis'.paused /\ (sync.st.initRedis => sync'.st.initRedis),
         \A p \in sync'.st.sizePending : redis.status[p] = "failed"
  PROVE  /\ PausedQuiet' /\ (PodsStay => PodsStay')
         /\ PodsLeft /\ redis'.queue = redis.queue /\ sync'.pc # "add" => PodsLeft'
<1>1. Current = sync.st /\ Current' = sync'.st
  BY DEF Current
<1>2. PausedQuiet'
  BY <1>1 DEF PausedRests, PausedQuiet
<1>3. PodsStay => PodsStay'
  BY <1>1 DEF PodsStay, Held
<1>4. PodsLeft /\ redis'.queue = redis.queue /\ sync'.pc # "add" => PodsLeft'
  BY DEF PodsLeft, Taken
<1> QED BY <1>2, <1>3, <1>4

\* A request, before and after it takes files.
LEMMA RestParts ==
  ASSUME Timely, Timely', WorkInv, PausedRests, db.state \in PAUSED_STATES, db'.state \in PAUSED_STATES,
         \/ SyncAtOrgLimit \/ SyncAwaitIndex \/ SyncAdmitted \/ SyncNoPods \/ SyncRedisError
         \/ \E late, idle \in BOOLEAN : SyncNoCrawler(late, idle)
         \/ \E expired \in BOOLEAN : SyncPaused(expired)
  PROVE  PausedRests'
<1>0. sync.pc # "idle" => /\ sync.st.state = db.state /\ sync.spec.paused
                          /\ \A p \in sync.st.sizePending : redis.status[p] = "failed"
  BY DEF WorkInv, StatusIsDocument, Current, PausedRests, PausedQuiet
<1>1. CASE SyncAtOrgLimit \/ SyncAwaitIndex
  BY <1>0, <1>1, WaitFields, Paused
<1>2. CASE SyncAdmitted
  <2>1. sync'.st.sizePending = sync.st.sizePending /\ sync'.st.initRedis = sync.st.initRedis
    BY <1>2, AdmittedFields DEF SameWork
  <2>2. sync'.st.state = db'.state
    BY <1>0, <1>2, AdmittedFields
  <2>3. sync'.pc = "state" /\ sync'.isPaused /\ sync.pc = "start"
    BY <1>0, <1>2, <2>2, AdmittedFields
  <2>4. PodsStay \/ PodsLeft
    BY StayOrLeft
  <2>5. PodsStay => redis'.paused
    BY <1>2, AdmittedFields DEF PodsStay
  <2>6. PausedQuiet' /\ (PodsStay' \/ PodsLeft')
    BY <1>0, <1>2, <2>1, <2>3, <2>4, <2>5, AdmittedFields, RestRequest
  <2> QED BY <2>3, <2>6 DEF PausedRests, PausedPlace
<1>3. CASE SyncNoPods \/ SyncRedisError
  <2>1. /\ Goto("paused", sync.st) /\ UNCHANGED <<spec, redis, pod>> /\ sync.pc \in Looking
        /\ SyncRedisError => redis.pod # "up"
        /\ SyncNoPods => sync.pod = [p \in Pods |-> None]
    BY <1>3, Places DEF SyncNoPods, SyncRedisError, cluster
  <2>2. ~PodsStay
    BY <1>3, <2>1, Places DEF PodsStay, Held
  <2>3. PodsLeft /\ sync.isPaused
    BY <2>1, <2>2, StayOrLeft, Places DEF PausedRests, PausedPlace
  <2>4. /\ sync'.pc = "paused" /\ sync'.st = sync.st /\ sync'.pod = sync.pod
        /\ sync'.spec = sync.spec /\ sync'.redis = sync.redis /\ sync'.isPaused = sync.isPaused
    BY <2>1, GotoFields
  <2>5. sync.pc # "idle" /\ redis' = redis /\ spec' = spec /\ pod' = pod
    BY <2>1, Places
  <2>6. PausedQuiet' /\ PodsLeft'
    BY <1>0, <2>2, <2>3, <2>4, <2>5, RestRequest
  <2> QED BY <2>3, <2>4, <2>6 DEF PausedRests, PausedPlace
<1>4. ASSUME NEW late \in BOOLEAN, NEW idle \in BOOLEAN, SyncNoCrawler(late, idle)
      PROVE  PausedRests'
  <2>1. ~sync'.st.finished
    BY FinishedIsOver, PausedActive
  <2>2. sync.pc = "state" /\ sync'.pc = "paused"
    BY <1>4, <2>1, NoCrawlerFields
  <2>3. ~PodsStay
    BY <1>4, <2>2, NoCrawlerFields, HeldLooks
  <2>4. PodsLeft /\ sync.isPaused
    BY <2>2, <2>3, StayOrLeft DEF PausedRests, PausedPlace
  <2>5. PausedQuiet' /\ PodsLeft'
    BY <1>0, <1>4, <2>2, <2>3, <2>4, NoCrawlerFields, RestRequest
  <2> QED BY <1>4, <2>2, <2>4, <2>5, NoCrawlerFields DEF PausedRests, PausedPlace
<1>5. ASSUME NEW expired \in BOOLEAN, SyncPaused(expired)
      PROVE  PausedRests'
  <2>1. sync'.st = sync.st
    BY <1>5, PausedFields, FinishedIsOver, PausedActive
  <2>2. sync.pc = "paused" /\ UNCHANGED <<spec, redis, pod>>
    BY <1>5 DEF SyncPaused, cluster
  <2>3. PausedQuiet' /\ (PodsStay => PodsStay') /\ (PodsLeft => PodsLeft')
    BY <1>0, <1>5, <2>1, <2>2, PausedFields, RestRequest DEF PodsStay
  <2>4. Taken => Taken'
    BY <1>5, <2>2, PausedFields DEF Taken
  <2>5. \/ sync.isPaused /\ ((PodsStay /\ Taken) \/ PodsLeft)
        \/ ~sync.isPaused /\ PodsStay
    BY <2>2 DEF PausedRests, PausedPlace
  <2> QED BY <1>5, <2>3, <2>4, <2>5, PausedFields DEF PausedRests, PausedPlace
<1> QED BY <1>1, <1>2, <1>3, <1>4, <1>5

\* A request that takes the files.
LEMMA RestFiles ==
  ASSUME Timely, Timely', WorkInv, PausedRests, SyncCrawler \/ SyncPop \/ SyncAddFile \/ SyncDrained
  PROVE  PausedRests'
<1>1. sync.pc \in {"state", "files", "add"} /\ sync'.pc \in {"files", "add", "update"}
  BY FilesFields
<1>2. sync'.st.sizePending = sync.st.sizePending /\ sync'.st.initRedis = sync.st.initRedis
  BY FilesFields DEF SameWork
<1>3. \A p \in sync.st.sizePending : redis.status[p] = "failed"
  BY <1>1 DEF PausedRests, PausedQuiet, Current
<1>4. sync.isPaused /\ (PodsStay \/ PodsLeft)
  BY <1>1 DEF PausedRests, PausedPlace
<1>5. PodsStay => redis'.paused
  BY FilesFields DEF PodsStay
<1>6. /\ PausedQuiet' /\ (PodsStay => PodsStay')
      /\ PodsLeft /\ redis'.queue = redis.queue /\ sync'.pc # "add" => PodsLeft'
  BY <1>1, <1>2, <1>3, <1>5, FilesFields, RestRequest
<1>7. PodsLeft => redis'.queue = redis.queue /\ sync'.pc # "add"
  <2>1. CASE SyncCrawler \/ SyncDrained
    <3>1. redis' = redis /\ (sync'.pc = "files" \/ sync'.pc = "update")
      BY <2>1, GotoFields DEF SyncCrawler, SyncDrained, cluster
    <3> QED BY <3>1
  <2>2. CASE SyncPop
    BY <2>2, Fields DEF SyncPop, PodsLeft, Taken
  <2>3. CASE SyncAddFile
    BY <2>3 DEF SyncAddFile, PodsLeft, Taken
  <2> QED BY <2>1, <2>2, <2>3
<1>8. sync'.pc = "update" => Taken'
  <2>1. CASE SyncDrained
    BY <2>1 DEF SyncDrained, Taken, cluster
  <2>2. CASE ~SyncDrained
    <3>1. \E st : \E pc \in {"files", "add"} : Goto(pc, st)
      BY <2>2 DEF SyncCrawler, SyncPop, SyncAddFile
    <3> QED BY <3>1, GotoFields
  <2> QED BY <2>1, <2>2
<1> QED BY <1>1, <1>4, <1>6, <1>7, <1>8, FilesFields DEF PausedRests, PausedPlace

\* Every pod that the snapshot shows has reported when as many pods have as it shows.
LEMMA AllHere ==
  ASSUME Timely, WorkInv, sync.pc # "idle", Scale \in Nat,
         Cardinality({p \in Pods : sync.pod[p] # None}) <= Scale,
         \A p \in Pods : redis.status[p] # None <=> p < Scale,
         NEW q \in Pods, pod[q] # None
  PROVE  redis.status[q] # None
<1>1. CASE \A p \in Pods : pod[p] # None => redis.status[p] # None
  BY <1>1
<1>2. CASE \A p \in Pods, r \in Pods : pod[p] # None /\ r < p => pod[r] # None
  <2> DEFINE S == {p \in Pods : sync.pod[p] # None}
  <2>1. q \in Nat /\ q < NumPods
    BY NumPodsAssumption DEF Pods
  <2>2. 0 .. q \subseteq Pods
    BY <2>1, NumPodsAssumption DEF Pods
  <2>3. \A r \in 0 .. q : pod[r] # None
    <3>1. \A r \in 0 .. q : r = q \/ r < q
      BY <2>1
    <3> QED BY <1>2, <2>2, <3>1
  <2>4. 0 .. q \subseteq S
    BY <2>2, <2>3 DEF WorkInv, SnapshotHolds
  <2>5. S \in SUBSET Pods /\ Cardinality(S) <= Scale
    OBVIOUS
  <2> HIDE DEF S
  <2>6. IsFiniteSet(S) /\ Cardinality(S) \in Nat
    BY <2>5, FinitePods
  <2>7. Cardinality(0 .. q) = q + 1
    <3>1. 0 \in Int /\ q \in Int /\ ~(0 > q) /\ q - 0 + 1 = q + 1
      BY <2>1
    <3> QED BY <3>1, FS_Interval
  <2>8. Cardinality(0 .. q) <= Cardinality(S)
    BY <2>4, <2>6, FS_Subset
  <2>9. q < Scale
    BY <2>1, <2>5, <2>6, <2>7, <2>8
  <2> QED BY <2>9
<1> QED BY <1>1, <1>2 DEF WorkInv, PodsShape

\* The evaluation of the pods: the one step that pauses a crawl.
LEMMA RestUpdate ==
  ASSUME Timely, Timely', CompleteInv, WorkInv, RequestKnows, ~hist.resumed,
         db.state \in PAUSED_STATES => PausedRests, db'.state \in PAUSED_STATES,
         NEW cond \in Conditions, NEW failed \in {"failed", "failed_not_logged_in"},
         SyncUpdate(cond, failed)
  PROVE  PausedRests'
<1>1. PICK st, ok : UpdateOf(st, update_crawl_state(st, failed), ok)
  BY UpdateFacts
<1> DEFINE state == update_crawl_state(st, failed)
<1>2. sync.pc = "update" /\ redis.pod = "up"
  BY DEF SyncUpdate
<1>3. sync.st.state = db.state
  BY <1>2 DEF WorkInv, StatusIsDocument, Current
<1>4. ~sync'.st.finished /\ Active'
  BY FinishedIsOver, PausedActive
<1>5. /\ db'.state = state /\ sync'.pc = "paused"
      /\ st.sizePending = volume /\ st.initRedis = sync.st.initRedis /\ SameWork(st, sync'.st)
      /\ sync'.pod = sync.pod /\ sync'.spec = sync.spec /\ sync'.redis = sync.redis
      /\ sync'.isPaused = sync.isPaused
      /\ redis'.status = redis.status /\ redis'.queue = redis.queue /\ redis'.pod = redis.pod
      /\ redis.paused /\ sync.spec.paused => redis'.paused
      /\ state \in PAUSED_STATES => redis'.paused
      /\ spec' = spec /\ pod' = pod
  BY <1>1, <1>3, <1>4 DEF UpdateOf
<1>6. sync'.st.sizePending = volume /\ sync'.st.initRedis = sync.st.initRedis
  BY <1>5 DEF SameWork
<1>7. redis'.paused /\ state \in PAUSED_STATES
  BY <1>5
<1>8. CASE db.state \in PAUSED_STATES
  <2>1. PausedRests
    BY <1>8
  <2>2. \A p \in volume : redis.status[p] = "failed"
    BY <2>1, Fields DEF PausedRests, PausedQuiet, CompleteInv, VolumeUsed
  <2>3. PausedQuiet' /\ (PodsStay => PodsStay') /\ (PodsLeft => PodsLeft')
    BY <1>2, <1>5, <1>6, <1>7, <2>1, <2>2, RestRequest
  <2>4. Taken => Taken'
    BY <1>5 DEF Taken
  <2>5. sync.isPaused /\ ((PodsStay /\ Taken) \/ PodsLeft)
    BY <1>2, <2>1 DEF PausedRests, PausedPlace
  <2> QED BY <1>5, <2>3, <2>4, <2>5 DEF PausedRests, PausedPlace
<1>9. CASE db.state \notin PAUSED_STATES
  <2>1. sync.spec.paused /\ Count("interrupted") + Count("failed") >= Scale
    BY <1>7, UpdateCases
  <2> HIDE DEF state
  <2>2. /\ Scale \in Nat
        /\ Cardinality({p \in Pods : sync.pod[p] # None}) <= Scale
        /\ \A p \in Pods : redis.status[p] # None <=> p < Scale
        /\ \A p \in Pods : redis.status[p] \in {None, "interrupted", "failed"}
    BY <2>1, AllReport DEF CrawlerStatus, None
  <2>3. \A p \in volume : redis.status[p] = "failed"
    BY <2>2, Fields DEF CompleteInv, VolumeUsed
  <2>4. ~sync.isPaused /\ sync.redis = "up" /\ Started # {} /\ spec.paused
    BY <1>2, <1>3, <1>9, <2>1, Places DEF RequestKnows
  <2>5. PICK q \in Pods : sync.pod[q] \notin {None, "pending"}
    BY <2>4 DEF Started
  <2>6. pod[q] # None /\ pod[q] # "pending"
    BY <1>2, <2>5 DEF WorkInv, SnapshotHolds
  <2>7. redis.status[q] \in {"interrupted", "failed"}
    BY <1>2, <2>2, <2>6, AllHere
  <2>8. pod[q] = "running"
    BY <2>6, <2>7 DEF WorkInv, InterruptedRuns
  <2>9. sync.st.initRedis
    BY <1>2, Places DEF WorkInv, RedisKept, Current, None
  <2>10. Current' = sync'.st
    BY <1>5 DEF Current
  <2>11. PodsStay'
    BY <1>2, <1>5, <1>6, <1>7, <2>4, <2>5, <2>7, <2>8, <2>9, <2>10 DEF PodsStay, Held
  <2>12. PausedQuiet'
    BY <1>5, <1>6, <2>1, <2>2, <2>3, <2>4, <2>10 DEF PausedQuiet
  <2> QED BY <1>5, <2>4, <2>11, <2>12 DEF PausedRests, PausedPlace
<1> QED BY <1>8, <1>9

\* The snapshot, and the answer that removes the pods.
LEMMA RestAnswer ==
  ASSUME Timely, Timely', WorkInv, PausedRests,
         \/ SyncBegin \/ AnswerRun \/ AnswerEmpty
         \/ \E expired \in BOOLEAN : AnswerFinal(expired)
  PROVE  PausedRests'
<1>1. CASE SyncBegin
  <2>1. /\ sync.pc = "idle" /\ sync'.pc = "start" /\ sync'.pod = pod /\ sync'.st = status
        /\ sync'.redis = redis.pod /\ sync'.spec = spec
        /\ UNCHANGED <<spec, status, db, redis, pod>>
    BY <1>1 DEF SyncBegin, IdleSync, cluster
  <2>2. Current' = Current
    BY <2>1 DEF Current
  <2>3. PausedQuiet'
    BY <2>1, <2>2 DEF PausedRests, PausedQuiet
  <2>4. PodsStay => PodsStay'
    BY <2>1, <2>2 DEF PodsStay, Held, None
  <2>5. PodsLeft => PodsLeft'
    BY <2>1 DEF PodsLeft, Taken
  <2> QED BY <2>1, <2>3, <2>4, <2>5, StayOrLeft DEF PausedRests, PausedPlace
<1>2. CASE AnswerRun
  <2>1. /\ sync.pc = "answer" /\ sync' = IdleSync /\ status' = sync.st /\ spec' = spec
        /\ redis' = [redis EXCEPT !.pod = IF sync.st.initRedis THEN create(@) ELSE None]
        /\ pod' = [p \in Pods |->
                     IF p < desiredScale /\ p <= sync.st.pagesFound /\ init_crawler(p)
                       THEN create(pod[p]) ELSE None]
    BY <1>2 DEF AnswerRun
  <2>2. Current = sync.st /\ Current' = sync.st /\ sync'.pc = "idle"
    BY <2>1, IdleFields DEF Current
  <2>3. /\ redis'.status = redis.status /\ redis'.queue = redis.queue
        /\ redis'.paused = redis.paused
        /\ redis'.pod = IF sync.st.initRedis THEN create(redis.pod) ELSE None
    BY <2>1, Fields DEF Redis
  <2>4. PausedQuiet'
    BY <2>1, <2>2, <2>3 DEF PausedRests, PausedQuiet
  <2>5. CASE sync.isPaused
    <3>1. Taken
      BY <2>1, <2>5 DEF PausedRests, PausedPlace, PodsLeft
    <3>2. \A p \in Pods : pod'[p] # None => p \in sync.st.sizePending
      BY <2>1, <2>5 DEF init_crawler
    <3>3. PodsLeft'
      BY <2>2, <2>3, <3>1, <3>2 DEF PodsLeft, Taken, PausedRests, PausedQuiet
    <3> QED BY <2>2, <2>4, <3>3 DEF PausedRests, PausedPlace
  <2>6. CASE ~sync.isPaused
    <3>1. PodsStay
      BY <2>1, <2>6 DEF PausedRests, PausedPlace
    <3>2. PICK q \in Pods : Held(q)
      BY <3>1 DEF PodsStay
    <3>3. /\ redis.status[q] \in {"interrupted", "failed"} /\ pod[q] = "running"
          /\ redis.pod = "up" /\ sync.st.initRedis
      BY <2>2, <3>2 DEF Held
    <3>4. q < desiredScale /\ q <= sync.st.pagesFound
      BY <2>2, <3>3 DEF WorkInv, PodsKept, None
    <3>5. pod'[q] = "running"
      BY <2>1, <2>6, <3>3, <3>4 DEF init_crawler, create, None
    <3>6. redis'.pod = "up"
      BY <2>3, <3>3 DEF create, None
    <3>7. PodsStay'
      BY <2>2, <2>3, <3>1, <3>3, <3>5, <3>6 DEF PodsStay, Held
    <3> QED BY <2>2, <2>4, <3>7 DEF PausedRests, PausedPlace
  <2> QED BY <2>5, <2>6
<1>3. CASE AnswerEmpty \/ \E expired \in BOOLEAN : AnswerFinal(expired)
  BY <1>3 DEF AnswerEmpty, AnswerFinal, PausedRests, PausedPlace
<1> QED BY <1>1, <1>2, <1>3

\* A step of others that leaves the pods and redis there if they were.
LEMMA RestOther ==
  ASSUME PausedRests, sync' = sync, status' = status, spec.paused => spec'.paused,
         redis'.status = redis.status, redis'.queue = redis.queue, redis'.paused = redis.paused,
         \A p \in Pods : pod'[p] # None => pod[p] # None,
         \A q \in Pods : Held(q) => pod'[q] = pod[q] /\ redis'.pod = redis.pod
  PROVE  PausedRests'
<1>1. Current' = Current
  BY DEF Current
<1>2. PausedQuiet'
  BY <1>1 DEF PausedRests, PausedQuiet
<1>3. PodsStay => PodsStay'
  BY <1>1 DEF PodsStay, Held
<1>4. (PodsLeft => PodsLeft') /\ (Taken => Taken')
  BY DEF PodsLeft, Taken
<1> QED BY <1>2, <1>3, <1>4 DEF PausedRests, PausedPlace

\* The cluster and the crawlers.
LEMMA RestCluster ==
  ASSUME Timely, Timely', PausedRests,
         \/ \E p \in Pods : CrawlerStep(p) /\ ~PodEvict(p)
         \/ RedisStart \/ CrawlerRateLimit
  PROVE  PausedRests'
<1>1. ASSUME NEW p \in Pods,
             \/ PodStart(p) \/ PodRestart(p) \/ PodSucceed(p)
             \/ \E code \in FailedExits : PodExit(p, code)
      PROVE  PausedRests'
  <2>1. \A q \in Pods : Held(q) => q # p
    BY <1>1, PodFields DEF Held, Busy, None
  <2>2. \A q \in Pods : Held(q) => pod'[q] = pod[q]
    BY <1>1, <2>1, PodFields
  <2>3. \A q \in Pods : pod'[q] # None => pod[q] # None
    BY <1>1, PodFields
  <2>4. sync' = sync /\ status' = status /\ spec' = spec /\ redis' = redis
    BY <1>1, PodFields DEF operator_and_api
  <2> QED BY <2>2, <2>3, <2>4, RestOther
<1>2. ASSUME NEW p \in Pods,
             \/ CrawlerStart(p) \/ CrawlerPage(p) \/ CrawlerUpload(p) \/ CrawlerEnd(p)
             \/ CrawlerFail(p) \/ \E busy \in Busy \cap Events : CrawlerPackage(p, busy)
      PROVE  FALSE
  <2>1. redis.status[p] \in {None, "interrupted", "failed"}
    BY DEF PausedRests, PausedQuiet
  <2>2. redis.status[p] \in {None, "interrupted"} /\ ~redis.paused /\ pod[p] = "running"
    BY <1>2, <2>1, ReportFields DEF Busy, None
  <2>3. PodsLeft
    BY <2>2, StayOrLeft DEF PodsStay
  <2> QED BY <2>2, <2>3 DEF PodsLeft, None
<1>3. CASE RedisStart
  <2>1. /\ redis.pod = "pending" /\ redis' = [redis EXCEPT !.pod = "up"]
        /\ sync' = sync /\ status' = status /\ spec' = spec /\ pod' = pod
    BY <1>3 DEF RedisStart, operator_and_api
  <2>2. /\ redis'.status = redis.status /\ redis'.queue = redis.queue
        /\ redis'.paused = redis.paused
    BY <2>1, Fields DEF Redis
  <2>3. \A q \in Pods : ~Held(q)
    BY <2>1 DEF Held
  <2> QED BY <2>1, <2>2, <2>3, RestOther
<1>4. CASE CrawlerRateLimit
  BY <1>4 DEF CrawlerRateLimit, PausedRests, PausedQuiet, None
<1> QED BY <1>1, <1>2, <1>3, <1>4 DEF CrawlerStep

\* Only the evaluation of the pods pauses a crawl.
LEMMA PausedBefore ==
  ASSUME Timely, Timely', Onward, db'.state \in PAUSED_STATES, db.state \notin PAUSED_STATES
  PROVE  \E cond \in Conditions, failed \in {"failed", "failed_not_logged_in"} :
           SyncUpdate(cond, failed)
<1>1. ~sync'.st.finished /\ Active'
  BY FinishedIsOver, PausedActive
<1>2. ~Ending
  BY <1>1, EndFields
<1>3. ~SyncAtOrgLimit /\ ~SyncAwaitIndex
  BY WaitFields, Paused
<1>4. ~SyncAdmitted
  BY AdmittedFields, Paused DEF EarlyStates
<1>5. \A late, idle \in BOOLEAN : ~SyncNoCrawler(late, idle)
  BY NoCrawlerFields, Paused
<1>6. \A expired \in BOOLEAN : ~SyncPaused(expired)
  BY <1>1, PausedFields
<1>7. ~(SyncCrawler \/ SyncPop \/ SyncAddFile \/ SyncDrained)
  BY FilesFields
<1>8. ~(\/ SyncBegin \/ SyncNoPods \/ SyncRedisError \/ AnswerRun \/ AnswerEmpty
        \/ \E expired \in BOOLEAN : AnswerFinal(expired))
  BY DEF SyncBegin, SyncNoPods, SyncRedisError, AnswerRun, AnswerEmpty, AnswerFinal
<1>9. ~(TaskStep \/ ApiStep \/ UNCHANGED vars)
  BY <1>1, OthersFields
<1>10. ~(\/ \E p \in Pods : CrawlerStep(p)
         \/ RedisStart \/ RedisRestart \/ CrawlerRateLimit \/ OperatorRestart \/ AnswerLost)
  BY DEF CrawlerStep, PodStart, PodRestart, PodEvict, PodSucceed, PodExit, CrawlerStart,
     CrawlerPage, CrawlerUpload, CrawlerEnd, CrawlerFail, CrawlerPackage, RedisStart,
     RedisRestart, CrawlerRateLimit, OperatorRestart, AnswerLost, operator_and_api
<1>11. \A expired \in (IF "expiry" \in Events THEN BOOLEAN ELSE {FALSE}) : expired \in BOOLEAN
  OBVIOUS
<1>12. SyncStep
  BY <1>9, <1>10 DEF Onward, Next
<1> QED BY <1>2, <1>3, <1>4, <1>5, <1>6, <1>7, <1>8, <1>11, <1>12, Zenon DEF SyncStep, Ending

\* A resume is not forgotten.
LEMMA ResumeLasts ==
  ASSUME Timely, Timely', Onward, ~hist'.resumed
  PROVE  ~hist.resumed
<1>1. CASE Ending
  BY <1>1, EndFields, StartTasksFields
<1>2. ASSUME NEW cond \in Conditions, NEW failed \in {"failed", "failed_not_logged_in"},
             SyncUpdate(cond, failed)
      PROVE  ~hist.resumed
  BY <1>2, UpdateFacts, StartTasksFields DEF UpdateOf
<1>3. ASSUME NEW expired \in BOOLEAN, SyncPaused(expired)
      PROVE  ~hist.resumed
  BY <1>3, PausedFields, StartTasksFields
<1>4. CASE \/ SyncBegin \/ SyncAtOrgLimit \/ SyncAwaitIndex \/ SyncAdmitted \/ SyncNoPods
           \/ \E late, idle \in BOOLEAN : SyncNoCrawler(late, idle)
           \/ SyncCrawler \/ SyncPop \/ SyncAddFile \/ SyncDrained \/ SyncRedisError
           \/ AnswerRun \/ AnswerEmpty \/ \E expired \in BOOLEAN : AnswerFinal(expired)
  BY <1>4, Fields DEF SyncBegin, SyncAtOrgLimit, SyncAwaitIndex, SyncAdmitted, SyncNoPods,
     SyncNoCrawler, SyncCrawler, SyncPop, SyncAddFile, SyncDrained, SyncRedisError,
     AnswerRun, AnswerEmpty, AnswerFinal, History
<1>5. CASE TaskStep \/ ApiStep \/ UNCHANGED vars
  BY <1>5, PauseLasts
<1>6. CASE \/ \E p \in Pods : CrawlerStep(p)
           \/ RedisStart \/ RedisRestart \/ CrawlerRateLimit \/ OperatorRestart \/ AnswerLost
  BY <1>6, Fields DEF CrawlerStep, PodStart, PodRestart, PodEvict, PodSucceed, PodExit,
     CrawlerStart, CrawlerPage, CrawlerUpload, CrawlerEnd, CrawlerFail, CrawlerPackage,
     RedisStart, RedisRestart, CrawlerRateLimit, OperatorRestart, AnswerLost, Fault, History
<1>7. \A expired \in (IF "expiry" \in Events THEN BOOLEAN ELSE {FALSE}) : expired \in BOOLEAN
  OBVIOUS
<1>8. CASE SyncStep
  BY <1>1, <1>2, <1>3, <1>4, <1>7, <1>8, Zenon DEF SyncStep, Ending
<1> QED BY <1>5, <1>6, <1>8 DEF Onward, Next

\* Every step keeps PausedInv.
LEMMA PauseStep ==
  ASSUME Timely, Timely', CompleteInv, PausedInv, Onward
  PROVE  PausedInv'
<1>1. RequestKnows'
  BY KnowsStep DEF PausedInv
<1>2. hist'.faults = 0 /\ Active' => Active /\ WorkInv /\ WorkInv'
  BY WorkStep DEF PausedInv
<1>3. ASSUME hist'.faults = 0, ~hist'.resumed, db'.state \in PAUSED_STATES
      PROVE  PausedRests'
  <2>1. hist.faults = 0 /\ ~hist.resumed /\ WorkInv
    BY <1>2, <1>3, NoFault, ResumeLasts, PausedActive
  <2>2. db.state \in PAUSED_STATES => PausedRests
    BY <2>1 DEF PausedInv
  <2>3. ASSUME NEW cond \in Conditions, NEW failed \in {"failed", "failed_not_logged_in"},
               SyncUpdate(cond, failed)
        PROVE  PausedRests'
    BY <1>3, <2>1, <2>2, <2>3, RestUpdate DEF PausedInv
  <2>4. CASE db.state \notin PAUSED_STATES
    BY <1>3, <2>3, <2>4, PausedBefore
  <2>5. CASE db.state \in PAUSED_STATES
    <3>1. PausedRests
      BY <2>2, <2>5
    <3>2. ~Ending
      BY <1>3, EndFields, FinishedIsOver, PausedActive
    <3>3. \A expired \in (IF "expiry" \in Events THEN BOOLEAN ELSE {FALSE}) : expired \in BOOLEAN
      OBVIOUS
    <3>4. CASE SyncStep
      BY <1>3, <2>1, <2>3, <2>5, <3>1, <3>2, <3>3, <3>4, RestParts, RestFiles, RestAnswer, Zenon
         DEF SyncStep, Ending
    <3>5. CASE TaskStep \/ ApiStep \/ UNCHANGED vars
      <4>1. spec.paused => spec'.paused
        BY <1>3, <3>5, PauseLasts
      <4> QED BY <3>1, <3>5, <4>1, OthersSync, RestOther
    <3>6. CASE (\E p \in Pods : CrawlerStep(p) /\ ~PodEvict(p)) \/ RedisStart \/ CrawlerRateLimit
      BY <3>1, <3>6, RestCluster
    <3> QED BY <1>3, <3>4, <3>5, <3>6, NoFault DEF Onward, Next
  <2> QED BY <2>4, <2>5
<1>4. hist'.faults = 0 /\ ~hist'.resumed /\ db'.state \in PAUSED_STATES => PausedRests'
  BY <1>3
<1> QED BY <1>1, <1>2, <1>4, Zenon DEF PausedInv

\* As long as nothing fails the snapshot of a request holds, whatever became of the
\* document.
SnapshotInv == hist.faults = 0 => SnapshotHolds

LEMMA SnapshotStep ==
  ASSUME Inv, Inv', SnapshotInv, [Next]_vars, ~overtaken, ~overtaken'
  PROVE  SnapshotInv'
<1>1. Timely /\ Timely'
  BY DEF Timely
<1>2. CASE ApiAddCrawl
  BY <1>2 DEF ApiAddCrawl, cluster, SnapshotInv, SnapshotHolds
<1>3. ASSUME Onward, hist'.faults = 0
      PROVE  SnapshotHolds'
  <2>1. SnapshotHolds /\ \A p \in Pods : ~PodEvict(p)
    BY <1>1, <1>3, NoFault DEF SnapshotInv
  <2>2. ASSUME sync.pc # "idle", sync'.pod = sync.pod, pod' = pod PROVE SnapshotHolds'
    BY <2>1, <2>2 DEF SnapshotHolds
  <2>3. CASE Ending
    <3>1. sync.pc # "idle" /\ sync'.pod = sync.pod /\ pod' = pod
      BY <1>1, <2>3, EndFields
    <3> QED BY <2>2, <3>1
  <2>4. CASE SyncAtOrgLimit \/ SyncAwaitIndex
    <3>1. sync.pc # "idle" /\ sync'.pod = sync.pod /\ pod' = pod
      BY <1>1, <2>4, WaitFields DEF SyncAtOrgLimit, SyncAwaitIndex, Unfinished, cluster
    <3> QED BY <2>2, <3>1
  <2>5. CASE SyncAdmitted
    <3>1. sync.pc # "idle" /\ sync'.pod = sync.pod /\ pod' = pod
      BY <1>1, <2>5, AdmittedFields DEF SyncAdmitted, Unfinished, cluster
    <3> QED BY <2>2, <3>1
  <2>6. CASE SyncNoPods \/ SyncRedisError
    <3>1. sync.pc # "idle" /\ Goto("paused", sync.st) /\ pod' = pod
      BY <2>6 DEF SyncNoPods, SyncRedisError, cluster
    <3> QED BY <1>1, <2>2, <3>1, GotoFields
  <2>7. ASSUME NEW late \in BOOLEAN, NEW idle \in BOOLEAN, SyncNoCrawler(late, idle)
        PROVE  SnapshotHolds'
    <3>1. sync.pc # "idle" /\ sync'.pod = sync.pod /\ pod' = pod
      BY <1>1, <2>7, NoCrawlerFields
    <3> QED BY <2>2, <3>1
  <2>8. CASE SyncCrawler \/ SyncPop \/ SyncAddFile \/ SyncDrained
    <3>1. sync.pc # "idle" /\ sync'.pod = sync.pod /\ pod' = pod
      BY <1>1, <2>8, FilesFields DEF SyncCrawler, SyncPop, SyncAddFile, SyncDrained, cluster
    <3> QED BY <2>2, <3>1
  <2>9. ASSUME NEW cond \in Conditions, NEW failed \in {"failed", "failed_not_logged_in"},
               SyncUpdate(cond, failed)
        PROVE  SnapshotHolds'
    <3>1. sync'.pod = sync.pod
      BY <1>1, <2>9, UpdateFacts DEF UpdateOf
    <3>2. sync.pc # "idle" /\ pod' = pod
      BY <2>9 DEF SyncUpdate
    <3> QED BY <2>2, <3>1, <3>2
  <2>10. ASSUME NEW expired \in BOOLEAN, SyncPaused(expired)
         PROVE  SnapshotHolds'
    <3>1. sync.pc # "idle" /\ sync'.pod = sync.pod /\ pod' = pod
      BY <1>1, <2>10, PausedFields DEF SyncPaused, cluster
    <3> QED BY <2>2, <3>1
  <2>11. CASE AnswerRun \/ AnswerEmpty \/ \E expired \in BOOLEAN : AnswerFinal(expired)
    BY <2>11, IdleFields DEF AnswerRun, AnswerEmpty, AnswerFinal, SnapshotHolds
  <2>12. CASE SyncBegin
    BY <2>12 DEF SyncBegin, IdleSync, SnapshotHolds, cluster
  <2>13. CASE TaskStep \/ ApiStep \/ UNCHANGED vars
    BY <1>1, <2>1, <2>13, OthersSync DEF SnapshotHolds
  <2>14. ASSUME NEW p \in Pods, CrawlerStep(p)
         PROVE  SnapshotHolds'
    <3>1. sync' = sync
      BY <2>14 DEF CrawlerStep, PodStart, PodRestart, PodEvict, PodSucceed, PodExit, CrawlerStart,
         CrawlerPage, CrawlerUpload, CrawlerEnd, CrawlerFail, CrawlerPackage, operator_and_api
    <3>2. CASE \/ PodStart(p) \/ PodRestart(p) \/ PodSucceed(p)
               \/ \E code \in FailedExits : PodExit(p, code)
      BY <1>1, <2>1, <3>1, <3>2, PodFields DEF SnapshotHolds
    <3>3. CASE \/ CrawlerStart(p) \/ CrawlerPage(p) \/ CrawlerUpload(p) \/ CrawlerEnd(p)
               \/ CrawlerFail(p) \/ \E busy \in Busy \cap Events : CrawlerPackage(p, busy)
      <4>1. pod' = pod
        BY <3>3 DEF CrawlerStart, CrawlerPage, CrawlerUpload, CrawlerEnd, CrawlerFail,
           CrawlerPackage
      <4> QED BY <2>1, <3>1, <4>1 DEF SnapshotHolds
    <3> QED BY <2>1, <2>14, <3>2, <3>3 DEF CrawlerStep
  <2>15. CASE RedisStart \/ CrawlerRateLimit
    <3>1. sync' = sync /\ pod' = pod
      BY <2>15 DEF RedisStart, CrawlerRateLimit, operator_and_api
    <3> QED BY <2>1, <3>1 DEF SnapshotHolds
  <2>16. CASE SyncStep
    <3>1. \A expired \in (IF "expiry" \in Events THEN BOOLEAN ELSE {FALSE}) : expired \in BOOLEAN
      OBVIOUS
    <3> QED BY <2>3, <2>4, <2>5, <2>6, <2>7, <2>8, <2>9, <2>10, <2>11, <2>12, <2>16, <3>1, Zenon
            DEF SyncStep, Ending
  <2> QED BY <1>1, <1>3, <2>13, <2>14, <2>15, <2>16, NoFault DEF Onward, Next
<1> QED BY <1>2, <1>3 DEF Onward, SnapshotInv

LEMMA AddPaused ==
  ASSUME Inv, ApiAddCrawl, ~overtaken', PausedInv, SnapshotInv
  PROVE  PausedInv'
<1>1. /\ not_begun /\ db'.state = "starting"
      /\ UNCHANGED <<spec, status, redis, pod, sync, hist>>
  BY Added
<1>2. /\ status = InitialStatus /\ sync.st = InitialStatus
      /\ \A p \in Pods : pod[p] # None => p = 0
      /\ redis.pod = None /\ redis.found = 0 /\ \A p \in Pods : redis.status[p] = None
  BY <1>1, EmptyFields DEF not_begun
<1>3. InitialStatus.state = "starting" /\ InitialStatus.pagesFound = 0
      /\ InitialStatus.sizePending = {}
  BY DEF InitialStatus
<1>4. Current' = InitialStatus
  BY <1>1, <1>2 DEF Current
<1>5. RequestKnows'
  BY <1>1 DEF PausedInv, RequestKnows, Started
<1>6. StatusIsDocument' /\ EarlyIsEmpty' /\ EmptyIsEarly'
  BY <1>1, <1>2, <1>3, <1>4 DEF StatusIsDocument, EarlyIsEmpty, EmptyIsEarly, EarlyStates
<1>7. PagesGrow' /\ RedisKept' /\ InterruptedRuns' /\ PendingReported'
  BY <1>1, <1>2, <1>3, <1>4 DEF PagesGrow, RedisKept, InterruptedRuns, PendingReported, None
<1>8. PodsKept'
  <2>1. desiredScale' = 1
    BY <1>1, <1>2, <1>3, NumPodsAssumption DEF desiredScale, max
  <2> QED BY <1>1, <1>2, <1>3, <1>4, <2>1 DEF PodsKept
<1>9. PodsShape'
  BY <1>1, <1>2 DEF PodsShape, Pods
<1>10. db'.state \notin PAUSED_STATES
  BY <1>1 DEF PAUSED_STATES, AUTO_PAUSED_STATES
<1>11. hist'.faults = 0 => SnapshotHolds'
  BY <1>1 DEF SnapshotInv, SnapshotHolds
<1> QED BY <1>5, <1>6, <1>7, <1>8, <1>9, <1>10, <1>11 DEF PausedInv, WorkInv

LEMMA InitPaused == Init => PausedInv /\ SnapshotInv
<1> SUFFICES ASSUME Init PROVE PausedInv /\ SnapshotInv
  OBVIOUS
<1>1. /\ spec = [stopping |-> FALSE, paused |-> FALSE] /\ status = InitialStatus
      /\ db.state \in {None, "starting"} /\ redis = EmptyRedis /\ pod = [p \in Pods |-> None]
      /\ sync = IdleSync
  BY DEF Init
<1>2. /\ sync.pc = "idle" /\ sync.spec.paused = FALSE /\ sync.isPaused = FALSE
      /\ \A p \in Pods : pod[p] = None /\ redis.status[p] = None
      /\ redis.pod = None /\ redis.found = 0
  BY <1>1, EmptyFields DEF IdleSync
<1>3. Current = status /\ status.state = "starting" /\ status.pagesFound = 0
      /\ status.sizePending = {}
  BY <1>1, <1>2 DEF Current, InitialStatus
<1>4. RequestKnows
  BY <1>2, Places DEF RequestKnows
<1>5. (Active => StatusIsDocument) /\ EarlyIsEmpty /\ EmptyIsEarly /\ PagesGrow /\ PodsKept /\ RedisKept
  BY <1>1, <1>2, <1>3
     DEF StatusIsDocument, EarlyIsEmpty, EmptyIsEarly, PagesGrow, PodsKept, RedisKept,
         Active, DocumentOver
<1>6. InterruptedRuns /\ SnapshotHolds /\ PodsShape /\ PendingReported
  BY <1>2, <1>3 DEF InterruptedRuns, SnapshotHolds, PodsShape, PendingReported, None
<1>7. db.state \notin PAUSED_STATES
  BY <1>1 DEF PAUSED_STATES, AUTO_PAUSED_STATES, None
<1> QED BY <1>4, <1>5, <1>6, <1>7 DEF PausedInv, WorkInv, SnapshotInv

\* No file is left behind: neither by the end of a crawl, as CompleteSafe says, nor by a
\* pause, because the answer that removes the interrupted pods belongs to a request that
\* found the crawl paused already and took all files after that.
THEOREM FilesSafe == Spec => []NoFileLeftBehind
<1>1. Timely /\ CompleteInv /\ PausedInv => NoFileLeftBehind
  <2> SUFFICES ASSUME Timely, CompleteInv, PausedInv PROVE NoFileLeftBehind
    OBVIOUS
  <2>1. CompleteHasAllFiles
    BY Fields DEF CompleteInv, CompleteRests, VolumeUsed, CompleteHasAllFiles
  <2>2. ASSUME db.state \in PAUSED_STATES, sync.pc = "idle", hist.faults = 0, ~hist.lost,
               ~hist.resumed, \A p \in Pods : pod[p] = None
        PROVE  redis.queue = 0 /\ files.db = files.uploaded
    <3>1. PausedRests /\ Active
      BY <2>2, ActiveStates DEF PausedInv
    <3>2. ~PodsStay
      BY <2>2 DEF PodsStay, Held, None
    <3>3. redis.queue = 0
      BY <3>1, <3>2, StayOrLeft DEF PodsLeft, Taken
    <3>4. files.uploaded = files.db + redis.queue + 0
      BY <2>2, <3>1 DEF CompleteInv, AllCounted, Adding
    <3> QED BY <3>3, <3>4, Fields
  <2>3. PausedHasAllFiles
    BY <2>2 DEF PausedHasAllFiles
  <2> QED BY <2>1, <2>3 DEF NoFileLeftBehind
<1>2. overtaken => NoFileLeftBehind
  BY DEF NoFileLeftBehind, CompleteHasAllFiles, PausedHasAllFiles
<1> DEFINE FilesInv == overtaken \/ (CompleteInv /\ PausedInv /\ SnapshotInv)
<1>3. ASSUME Inv, Inv', FilesInv, [Next]_vars PROVE FilesInv'
  <2>1. SUFFICES ASSUME ~overtaken' PROVE (CompleteInv /\ PausedInv /\ SnapshotInv)'
    OBVIOUS
  <2>2. Timely /\ Timely' /\ CompleteInv /\ PausedInv /\ SnapshotInv
    BY <1>3, <2>1, OvertakenStays DEF Timely
  <2>3. CompleteInv'
    BY <1>3, <2>1, <2>2, CompleteNext
  <2>4. PausedInv'
    BY <1>3, <2>1, <2>2, PauseStep, AddPaused DEF Onward
  <2>5. SnapshotInv'
    BY <1>3, <2>1, <2>2, SnapshotStep DEF Timely
  <2> QED BY <2>3, <2>4, <2>5
<1>4. Init => FilesInv
  BY InitComplete, InitPaused
<1>5. Inv /\ FilesInv => NoFileLeftBehind
  BY <1>1, <1>2 DEF Timely
<1> QED BY <1>3, <1>4, <1>5, Invariance, PTL DEF Spec
=============================================================================
