----------------------------- MODULE MCCrawlJob -----------------------------
(***************************************************************************)
(* The events that are explored together.                                  *)
(***************************************************************************)
EXTENDS CrawlJob

Setup(set, n) == [events |-> set, maxFiles |-> n]

OnePod ==
  {\* a crawl that is stopped, canceled or deleted, with faults
   Setup({"stop", "cancel", "delete", "cron", "fail", "restart", "lost",
          "uploading-wacz"}, 1),
   \* a crawl that waits or is skipped, with the same
   Setup({"stop", "cancel", "delete", "cron", "quota", "limit", "index", "restart",
          "lost"}, 0),
   \* a job that is skipped, waits, ends or works before its document is added
   Setup({"run", "quota", "limit", "cancel", "delete", "lost"}, 0),
   Setup({"run", "cancel", "fail", "uploading-wacz"}, 1),
   \* a crawl that has to wait after it has started
   Setup({"limit", "index", "uploading-wacz"}, 2),
   \* a crawl that is paused, by the user or for a reason, and resumed
   Setup({"pause", "stop", "resume", "expiry", "uploading-wacz"}, 1),
   Setup({"autopause", "stop", "resume", "uploading-wacz"}, 1),
   \* crawlers that exit with an error, and rate limits
   Setup({"exit", "ratelimit", "generate-wacz"}, 1),
   \* a cluster that fails
   Setup({"redis", "evict", "restart", "lost", "limits", "pending-wait"}, 1)}

TwoPods ==
  {\* crawlers that upload at different times and may fail, with a pause or faults
   Setup({"pause", "fail", "uploading-wacz"}, 2),
   Setup({"fail", "lost", "uploading-wacz"}, 2),
   Setup({"cancel", "restart", "uploading-wacz"}, 1),
   \* a crawl that is stopped while it is paused, resumed or at work
   Setup({"pause", "stop", "uploading-wacz"}, 1),
   Setup({"pause", "resume", "stop", "uploading-wacz"}, 0),
   \* a crawl whose document is added late or never
   Setup({"run", "cancel", "stop", "uploading-wacz"}, 0)}
=============================================================================
