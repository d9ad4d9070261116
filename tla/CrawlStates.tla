---------------------------- MODULE CrawlStates ----------------------------
(***************************************************************************)
(* The crawl states of models.py and the stop reasons of                   *)
(* operator/models.py.  A crawl has one such state in its database         *)
(* document and one in the status of its CrawlJob; every other module is   *)
(* written in terms of the sets below.                                     *)
(***************************************************************************)

RUNNING_STATES ==
  {"running", "pending-wait", "generate-wacz", "uploading-wacz", "rate-limited"}

AUTO_PAUSED_STATES ==
  {"paused_storage_quota_reached", "paused_time_quota_reached",
   "paused_org_readonly", "paused_rate_limit_time_reached"}

PAUSED_STATES == {"paused"} \cup AUTO_PAUSED_STATES

WAITING_NOT_PAUSED_STATES ==
  {"starting", "waiting_capacity", "waiting_org_limit", "waiting_dedupe_index"}

WAITING_STATES == PAUSED_STATES \cup WAITING_NOT_PAUSED_STATES

FAILED_STATES ==
  {"canceled", "failed", "failed_not_logged_in",
   "skipped_storage_quota_reached", "skipped_time_quota_reached"}

SUCCESSFUL_STATES ==
  {"complete", "stopped_by_user", "stopped_pause_expired",
   "stopped_storage_quota_reached", "stopped_time_quota_reached",
   "stopped_org_readonly"}

RUNNING_AND_WAITING_STATES == WAITING_STATES \cup RUNNING_STATES

RUNNING_AND_STARTING_ONLY == {"starting"} \cup RUNNING_STATES

NON_RUNNING_STATES == FAILED_STATES \cup SUCCESSFUL_STATES

\* the state of an upload that is being processed is not a state of a crawl
ALL_CRAWL_STATES == RUNNING_AND_WAITING_STATES \cup NON_RUNNING_STATES

\* StopReason; None is the absent reason
None == "none"

StopReason ==
  {"stopped_by_user", "stopped_pause_expired", "time-limit", "size-limit",
   "stopped_storage_quota_reached", "stopped_time_quota_reached",
   "stopped_org_readonly"} \cup PAUSED_STATES
=============================================================================
