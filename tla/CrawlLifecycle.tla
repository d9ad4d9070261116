--------------------------- MODULE CrawlLifecycle ---------------------------
(***************************************************************************)
(* What a crawl promises to those who look at it: the state stored in its  *)
(* document, the final states announced by webhooks, and whether its job is*)
(* gone, so that nothing works on it any more.  CrawlJob implements this   *)
(* specification with a job, a database, redis, pods, requests and         *)
(* coroutines between which nothing is atomic.                             *)
(*                                                                         *)
(* A crawl that a user runs has its job before its document.  The document *)
(* may be overtaken: the job got on before it was there.  The end of such a*)
(* crawl may be lost: what is announced need not be what is stored, and the*)
(* job may go while the crawl is shown as active.  It can still be canceled*)
(* or deleted, and its states follow each other as those of other crawls.  *)
(***************************************************************************)
EXTENDS CrawlStates

VARIABLES
  state,       \* the state of the document, None when there is none
  recorded,    \* is the document to be added ("adding"), added in time or overtaken
  announced,   \* final states that webhooks have been sent for
  removed      \* is the job gone for good

crawl == <<state, recorded, announced, removed>>

Init ==
  /\ \/ state = "starting" /\ recorded = "added"
     \/ state = None /\ recorded = "adding"
  /\ announced = {} /\ removed = FALSE

overtaken == recorded = "overtaken"

\* the document is added, in time only if the job is still there
Record ==
  /\ recorded = "adding"
  /\ state' = "starting"
  /\ recorded' \in {"added", "overtaken"}
  /\ removed => recorded' = "overtaken"
  /\ UNCHANGED <<announced, removed>>

\* The states from which the operator sets a state: the allowed_from of its calls
\* of set_state.  A crawl that has left the waiting states at its start never goes
\* back to one of them, and a paused crawl does not wait for capacity.
allowed_from(s) ==
  CASE s = "starting" -> {"waiting_org_limit", "waiting_dedupe_index"}
    [] s = "waiting_org_limit" -> {"starting"}
    [] s = "waiting_dedupe_index" -> {"starting", "waiting_org_limit"}
    [] s = "waiting_capacity" -> RUNNING_AND_STARTING_ONLY
    [] OTHER -> RUNNING_AND_WAITING_STATES

\* the operator or a cancellation sets the state
SetState(s) ==
  /\ state \in allowed_from(s)
  /\ ~removed \/ overtaken
  /\ state' = s
  /\ UNCHANGED <<recorded, announced, removed>>

\* the document is deleted
Delete ==
  /\ recorded # "adding"
  /\ state' = None
  /\ UNCHANGED <<recorded, announced, removed>>

\* the end of the crawl is announced, with the state the document has
Announce(s) ==
  /\ s = state \/ overtaken
  /\ announced' = announced \cup {s}
  /\ UNCHANGED <<state, recorded, removed>>

\* the job of a crawl that is over is removed
Remove ==
  /\ state \in NON_RUNNING_STATES \cup {None} \/ overtaken
  /\ removed' = TRUE
  /\ UNCHANGED <<state, recorded, announced>>

Next ==
  \/ \E s \in ALL_CRAWL_STATES : SetState(s)
  \/ \E s \in NON_RUNNING_STATES : Announce(s)
  \/ Record \/ Delete \/ Remove

Spec == Init /\ [][Next]_crawl
=============================================================================
