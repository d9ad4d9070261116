--------------------------- MODULE ProfileBrowser ---------------------------
(***************************************************************************)
(* The dialog in which a browser profile is made (profile-browser-         *)
(* dialog.ts), the element that shows the remote browser and keeps it      *)
(* alive (profile-browser.ts), and the remote browsers of the server       *)
(* (profiles.py), as the page of a profile uses them.                      *)
(*                                                                         *)
(* A task of @lit/task (external) that runs again supersedes the run       *)
(* before; one that fails has no value; run() itself never throws.         *)
(* An element that was removed keeps the requests it has made and its      *)
(* listeners, and goes on updating.                                        *)
(***************************************************************************)
EXTENDS Naturals, FiniteSets

CONSTANTS MaxBrowsers,   \* bound on browsers created
          MaxRetries,    \* bound on the requests of a save: 300
          MaxRenders,    \* bound on updates of the page while the dialog is open
          Faults,        \* what may fail: "create", "ping", "navigate", "save"
          Nobody         \* no browser

ASSUME ProfileBrowserAssumption ==
    /\ MaxBrowsers \in Nat \ {0} /\ MaxRetries \in Nat \ {0} /\ MaxRenders \in Nat
    /\ Faults \subseteq {"create", "ping", "navigate", "save"}

Browsers == 1..MaxBrowsers

VARIABLES
    browser,       \* the remote browsers
    committing,    \* how far the server is with committing each one's profile
    committed,     \* the browsers whose profile is stored
    open,          \* the dialog is "closed", "open" or "hiding"
    idTask,        \* browserIdTask: status, value, and the calls not answered
    savedId,       \* #savedBrowserId
    browserStatus, originsLoaded, showConfirmation,
    el,            \* the btrix-profile-browser element of every browser
    deletes,       \* deletions under way: the browser, the call of browserIdTask or 0
    saveTask,      \* saveProfileTask
    toast,         \* what the user was told last
    renders,       \* updates of the page so far
    hasty          \* was an element ever removed while a request of it was in flight?

server == <<browser, committing, committed>>
dialog == <<open, idTask, savedId, browserStatus, originsLoaded, showConfirmation>>
vars == <<server, dialog, el, deletes, saveTask, toast, renders, hasty>>

Alive == {b \in Browsers : browser[b] \in {"starting", "up"}}
NoElement == [mounted |-> FALSE, task |-> "none", origins |-> "none", known |-> FALSE,
              timer |-> FALSE]
Idle == [stage |-> "idle", id |-> Nobody, left |-> 0]
Saving == saveTask.stage \in {"request", "wait", "aborted"}

\* An element has a request in flight, or a timer for its next one.
InFlight(b) == el[b].task \in {"get", "navigate"} \/ el[b].origins = "ping"
Busy(b) == InFlight(b) \/ el[b].task = "poll" \/ el[b].timer

Init ==
    /\ browser = [b \in Browsers |-> "none"]
    /\ committing = [b \in Browsers |-> ""]
    /\ committed = {}
    /\ open = "closed"
    /\ idTask = [status |-> "complete", value |-> Nobody, calls |-> {}, last |-> 0]
    /\ savedId = Nobody
    /\ browserStatus = "initial" /\ originsLoaded = FALSE /\ showConfirmation = FALSE
    /\ el = [b \in Browsers |-> NoElement]
    /\ deletes = {} /\ saveTask = Idle /\ toast = "none" /\ renders = 0 /\ hasty = FALSE

-----------------------------------------------------------------------------
(* The dialog opens, creates a browser, and closes.                          *)

\* disconnectedCallback: the timers are cleared.
Removed(e) == [e EXCEPT !.mounted = FALSE, !.timer = FALSE,
                        !.task = IF @ = "poll" THEN "none" ELSE @]
RemoveAll_leave == [b \in Browsers |-> [el[b] EXCEPT !.mounted = FALSE]]
RemoveAll == [b \in Browsers |-> Removed(el[b])]

\* The answer to a request that is in flight then still arrives (disconnectedCallback does
\* not cancel it), which some properties need not to have happened.
NoteHaste == hasty' = (hasty \/ \E b \in Browsers : el[b].mounted /\ InFlight(b))

\* The task of browserIdTask while open. Nothing is rendered while it is pending.
runIdTask ==
    /\ idTask.last < MaxBrowsers
    /\ idTask' = [idTask EXCEPT !.status = "pending", !.last = @ + 1,
                                !.calls = @ \cup {idTask.last + 1}]
    /\ deletes' = deletes \cup {[id |-> b, call |-> idTask.last + 1] :
                                  b \in {idTask.value} \ {Nobody, savedId}}
    /\ el' = RemoveAll /\ NoteHaste

Open ==
    /\ open = "closed"
    /\ open' = "open"
    /\ runIdTask
    /\ UNCHANGED <<server, savedId, browserStatus, originsLoaded, showConfirmation, saveTask,
                   toast, renders>>

\* The page updates: the dialog's config is a new object, for which the task runs.
Rerender ==
    /\ open # "closed" /\ renders < MaxRenders
    /\ renders' = renders + 1
    /\ runIdTask
    /\ UNCHANGED <<server, open, savedId, browserStatus, originsLoaded, showConfirmation,
                   saveTask, toast>>

\* The server has created the browser of a call; only the last call's answer counts.
\* (A call aborted in time creates nothing.)
BrowserCreated(n) ==
    /\ n \in idTask.calls /\ browser[n] = "none"
    /\ browser' = [browser EXCEPT ![n] = "starting"]
    /\ IF n = idTask.last /\ idTask.status = "pending"
       THEN /\ idTask' = [idTask EXCEPT !.calls = @ \ {n}, !.status = "complete", !.value = n]
            /\ el' = [el EXCEPT ![n] = [NoElement EXCEPT !.mounted = TRUE, !.task = "get"]]
       ELSE /\ idTask' = [idTask EXCEPT !.calls = @ \ {n}]
            /\ UNCHANGED el
    /\ UNCHANGED <<hasty, committing, committed, open, savedId, browserStatus, originsLoaded,
                   showConfirmation, deletes, saveTask, toast, renders>>

Superseded(n) == n # idTask.last \/ idTask.status # "pending"
AbortedInTime(n) ==
    /\ n \in idTask.calls /\ Superseded(n)
    /\ idTask' = [idTask EXCEPT !.calls = @ \ {n}]
    /\ UNCHANGED <<hasty, server, open, savedId, browserStatus, originsLoaded, showConfirmation, el,
                   deletes, saveTask, toast, renders>>

CreateFails(n) ==
    /\ "create" \in Faults /\ n \in idTask.calls /\ ~Superseded(n)
    /\ idTask' = [idTask EXCEPT !.calls = @ \ {n}, !.status = "error", !.value = Nobody]
    /\ UNCHANGED <<hasty, server, open, savedId, browserStatus, originsLoaded, showConfirmation, el,
                   deletes, saveTask, toast, renders>>

Exit ==
    /\ open = "open"
    /\ IF showConfirmation \/ browserStatus # "ready"
       THEN open' = "hiding" /\ UNCHANGED showConfirmation
       ELSE showConfirmation' = TRUE /\ UNCHANGED open
    /\ UNCHANGED <<hasty, server, idTask, savedId, browserStatus, originsLoaded, el, deletes, saveTask,
                   toast, renders>>

\* The cross: what is being saved is aborted, the browser deleted.
CloseButton ==
    /\ open = "open"
    /\ open' = "hiding"
    /\ saveTask' = IF Saving THEN [saveTask EXCEPT !.stage = "aborted"] ELSE saveTask
    /\ deletes' = deletes \cup {[id |-> b, call |-> 0] : b \in {idTask.value} \ {Nobody}}
    /\ UNCHANGED <<hasty, server, idTask, savedId, browserStatus, originsLoaded, showConfirmation, el,
                   toast, renders>>

\* The dialog has hidden: closeBrowser, the page clears open, willUpdate, and
\* browserIdTask runs once more, for no browser.
AfterHide ==
    /\ open = "hiding"
    /\ open' = "closed"
    /\ browserStatus' = "initial" /\ showConfirmation' = FALSE /\ savedId' = Nobody
    /\ idTask' = [idTask EXCEPT !.status = "complete", !.value = Nobody]
    /\ el' = RemoveAll /\ NoteHaste
    /\ UNCHANGED <<server, originsLoaded, deletes, saveTask, toast, renders>>

\* A deletion made by a call of browserIdTask is aborted with it, and may then not
\* reach the server.
DeleteArrives(b) ==
    \E d \in deletes :
        /\ d.id = b
        /\ deletes' = deletes \ {d}
        /\ \/ browser' = [browser EXCEPT ![b] = "gone"]
           \/ d.call # 0 /\ Superseded(d.call) /\ UNCHANGED browser
        /\ UNCHANGED <<hasty, committing, committed, dialog, el, saveTask, toast, renders>>

-----------------------------------------------------------------------------
(* The element: it waits for the browser and then pings it. The dialog       *)
(* listens to its events, also when it has been removed.                     *)

\* The browser task ended without a browser to use: the origins task has none to ping.
Ended(b, task) == el' = [el EXCEPT ![b].task = task]

\* getBrowser is answered: waiting_for_browser, a URL that may not answer yet, or 404.
GetBrowser(b) ==
    /\ el[b].task = "get"
    /\ \/ /\ browser[b] = "gone"
          /\ Ended(b, "error")
          /\ browserStatus' = "error"
       \/ /\ browser[b] \in {"starting", "up"}
          /\ Ended(b, "poll")
          /\ UNCHANGED browserStatus
       \/ /\ browser[b] = "up"
          /\ Ended(b, "navigate")
          /\ UNCHANGED browserStatus
    /\ UNCHANGED <<hasty, server, open, idTask, savedId, originsLoaded, showConfirmation, deletes,
                   saveTask, toast, renders>>

PollTimer(b) ==
    /\ el[b].task = "poll"
    /\ Ended(b, "get")
    /\ UNCHANGED <<hasty, server, dialog, deletes, saveTask, toast, renders>>

\* The browser is up: btrix-browser-load, and originsTask runs.
Navigated(b) ==
    /\ el[b].task = "navigate"
    /\ \/ /\ browser[b] \in {"starting", "up"}
          /\ el' = [el EXCEPT ![b].task = "up", ![b].origins = "ping"]
          /\ browserStatus' = "ready"
       \/ /\ browser[b] = "gone" \/ "navigate" \in Faults
          /\ Ended(b, "error")
          /\ UNCHANGED browserStatus
    /\ UNCHANGED <<hasty, server, open, idTask, savedId, originsLoaded, showConfirmation, deletes,
                   saveTask, toast, renders>>

\* The iframe has loaded.
onIframeLoad(b) ==
    /\ el[b].mounted /\ el[b].task = "up" /\ browser[b] = "up"
    /\ browserStatus' = "ready"
    /\ UNCHANGED <<hasty, server, open, idTask, savedId, originsLoaded, showConfirmation, el, deletes,
                   saveTask, toast, renders>>

\* pingBrowser is answered, with the origins visited, if any yet; pingTask sets the timer.
Ping(b) ==
    /\ el[b].origins = "ping" /\ browser[b] # "gone"
    /\ \E visited \in BOOLEAN :
          /\ el' = [el EXCEPT ![b].origins = "list", ![b].timer = TRUE,
                              ![b].known = @ \/ visited]
          /\ originsLoaded' = (originsLoaded \/ visited)
    /\ UNCHANGED <<hasty, server, open, idTask, savedId, browserStatus, showConfirmation, deletes,
                   saveTask, toast, renders>>

PingTimer(b) ==
    /\ el[b].timer
    /\ el' = [el EXCEPT ![b].timer = FALSE, ![b].origins = "ping"]
    /\ UNCHANGED <<hasty, server, dialog, deletes, saveTask, toast, renders>>

\* A ping fails: the origins task has no value, for which pingTask sets no timer.
PingFails(b) ==
    /\ el[b].origins = "ping" /\ (browser[b] = "gone" \/ "ping" \in Faults)
    /\ el' = [el EXCEPT ![b].origins = "error"]
    /\ browserStatus' = IF browser[b] = "gone" THEN "error" ELSE "initial"
    /\ UNCHANGED <<hasty, server, open, idTask, savedId, originsLoaded, showConfirmation, deletes,
                   saveTask, toast, renders>>

\* "Load New Browser", shown when the browser task failed.
onClickReload(b) ==
    /\ open = "open" /\ el[b].mounted /\ el[b].task = "error" /\ browserStatus # "pending"
    /\ browserStatus' = "pending"
    /\ UNCHANGED <<hasty, server, open, idTask, savedId, originsLoaded, showConfirmation, el, deletes,
                   saveTask, toast, renders>>

-----------------------------------------------------------------------------
(* Saving.                                                                   *)

incomplete == ~originsLoaded \/ browserStatus # "ready"

submit ==
    /\ open = "open" /\ idTask.value # Nobody /\ ~incomplete /\ ~Saving
    /\ saveTask' = [stage |-> "request", id |-> idTask.value, left |-> MaxRetries]
    /\ toast' = "saving"
    /\ UNCHANGED <<hasty, server, dialog, el, deletes, renders>>

\* After saveProfileTask.run(), whatever came of it, the dialog is hidden and the user
\* told that the profile was saved.
afterRun(stored) ==
    /\ saveTask' = [saveTask EXCEPT !.stage = IF stored THEN "done" ELSE "failed"]
    /\ savedId' = IF stored THEN saveTask.id ELSE savedId
    /\ toast' = "success"
    /\ open' = IF open = "open" THEN "hiding" ELSE open

\* The request of saveProfile is answered: the commit is done, and the browser deleted;
\* it has begun or is under way; or there is no such browser, or an error.
SaveAnswered_early ==
    /\ saveTask.stage = "request" /\ browser[saveTask.id] # "gone"
    /\ committing' = [committing EXCEPT ![saveTask.id] = IF @ = "" THEN "started" ELSE @]
    /\ afterRun(TRUE)
    /\ UNCHANGED <<hasty, browser, committed, idTask, browserStatus, originsLoaded, showConfirmation,
                   el, deletes, renders>>

SaveAnswered ==
    /\ saveTask.stage = "request"
    /\ LET b == saveTask.id IN
       \/ /\ browser[b] # "gone" /\ committing[b] = "done"
          /\ browser' = [browser EXCEPT ![b] = "gone"]
          /\ afterRun(TRUE)
          /\ UNCHANGED committing
       \/ /\ browser[b] # "gone" /\ committing[b] # "done"
          /\ committing' = [committing EXCEPT ![b] = IF @ = "" THEN "started" ELSE @]
          /\ IF saveTask.left = 1 THEN afterRun(FALSE)
             ELSE /\ saveTask' = [saveTask EXCEPT !.stage = "wait", !.left = @ - 1]
                  /\ UNCHANGED <<open, savedId, toast>>
          /\ UNCHANGED browser
       \/ /\ browser[b] = "gone" \/ "save" \in Faults
          /\ afterRun(FALSE)
          /\ UNCHANGED <<browser, committing>>
    /\ UNCHANGED <<hasty, committed, idTask, browserStatus, originsLoaded, showConfirmation, el,
                   deletes, renders>>

SaveTimer ==
    /\ saveTask.stage = "wait"
    /\ saveTask' = [saveTask EXCEPT !.stage = "request"]
    /\ UNCHANGED <<hasty, server, dialog, el, deletes, toast, renders>>

\* An aborted run ends all the same; the server may have had its request.
SaveAborted ==
    /\ saveTask.stage = "aborted"
    /\ afterRun(FALSE)
    /\ \/ UNCHANGED committing
       \/ /\ browser[saveTask.id] # "gone" /\ committing[saveTask.id] = ""
          /\ committing' = [committing EXCEPT ![saveTask.id] = "started"]
    /\ UNCHANGED <<hasty, browser, committed, idTask, browserStatus, originsLoaded, showConfirmation,
                   el, deletes, renders>>

-----------------------------------------------------------------------------
(* The server.                                                               *)

BrowserUp(b) ==
    /\ browser[b] = "starting"
    /\ browser' = [browser EXCEPT ![b] = "up"]
    /\ UNCHANGED <<hasty, committing, committed, dialog, el, deletes, saveTask, toast, renders>>

\* A browser nobody has asked about for a while expires. (Asking how far a commit is
\* does not count.)
Expire(b) ==
    /\ b \in Alive /\ ~Busy(b) /\ \A d \in deletes : d.id # b
    /\ browser' = [browser EXCEPT ![b] = "gone"]
    /\ UNCHANGED <<hasty, committing, committed, dialog, el, deletes, saveTask, toast, renders>>

\* do_commit_to_profile: one that fails leaves the browser marked as committing.
Commit(b) ==
    /\ committing[b] = "started"
    /\ committing' = [committing EXCEPT ![b] = "done"]
    /\ committed' = committed \cup {b}
    /\ UNCHANGED <<hasty, browser, dialog, el, deletes, saveTask, toast, renders>>
CommitFails(b) ==
    /\ committing[b] = "started" /\ (browser[b] = "gone" \/ "save" \in Faults)
    /\ committing' = [committing EXCEPT ![b] = "failed"]
    /\ UNCHANGED <<hasty, browser, committed, dialog, el, deletes, saveTask, toast, renders>>

-----------------------------------------------------------------------------
Element(b) ==
    \/ GetBrowser(b) \/ PollTimer(b) \/ Navigated(b)
    \/ Ping(b) \/ PingTimer(b) \/ PingFails(b)
Server(b) ==
    \/ BrowserUp(b) \/ Commit(b) \/ CommitFails(b) \/ DeleteArrives(b)
    \/ BrowserCreated(b) \/ CreateFails(b) \/ AbortedInTime(b)
User == Open \/ Exit \/ CloseButton \/ submit \/ \E b \in Browsers : onClickReload(b)
SaveSteps == SaveAnswered \/ SaveTimer \/ SaveAborted

Next ==
    \/ User \/ Rerender \/ AfterHide \/ SaveSteps
    \/ \E b \in Browsers : Element(b) \/ Server(b) \/ onIframeLoad(b) \/ Expire(b)

\* Requests are answered and timers fire; a browser comes up, and expires when nobody
\* asks about it.
Fairness ==
    /\ \A b \in Browsers : WF_vars(Element(b)) /\ WF_vars(Server(b)) /\ WF_vars(Expire(b))
    /\ WF_vars(SaveSteps) /\ WF_vars(AfterHide)
Spec == Init /\ [][Next]_vars /\ Fairness

-----------------------------------------------------------------------------
\* The values of the tasks, which the answers that come late keep to, and no more
\* retries than SaveProfile makes.
TypeOK ==
    /\ browser \in [Browsers -> {"none", "starting", "up", "gone"}]
    /\ committing \in [Browsers -> {"", "started", "failed", "done"}]
    /\ committed \subseteq Browsers
    /\ open \in {"closed", "open", "hiding"}
    /\ idTask \in [status : {"pending", "complete", "error"}, value : Browsers \cup {Nobody},
                   calls : SUBSET Browsers, last : 0..MaxBrowsers]
    /\ savedId \in Browsers \cup {Nobody}
    /\ browserStatus \in {"initial", "pending", "ready", "error"}
    /\ originsLoaded \in BOOLEAN /\ showConfirmation \in BOOLEAN
    /\ el \in [Browsers -> [mounted : BOOLEAN, known : BOOLEAN, timer : BOOLEAN,
                            task : {"none", "get", "poll", "navigate", "up", "error"},
                            origins : {"none", "ping", "list", "error"}]]
    /\ deletes \subseteq [id : Browsers, call : 0..MaxBrowsers]
    /\ saveTask \in [stage : {"idle", "request", "wait", "aborted", "done", "failed"},
                     id : Browsers \cup {Nobody}, left : 0..MaxRetries]
    /\ toast \in {"none", "saving", "success"}
    /\ renders \in 0..MaxRenders /\ hasty \in BOOLEAN

\* A save that the client takes for done (saveProfile returned, #savedBrowserId set) is one
\* whose profile the server has stored: however the browser expired, was deleted, or the
\* dialog was closed and opened meanwhile.
DoneIsStored == saveTask.stage = "done" => saveTask.id \in committed

\* The dialog keeps at most one browser of the server alive: the one it shows. (The
\* elements of all earlier ones have stopped their timers.)
OneKeptAlive == ~hasty => \A b, c \in Browsers : Busy(b) /\ Busy(c) => b = c

\* A browser that the dialog does not show any more ends ("The embedded browser will exit
\* without saving changes after a few minutes of inactivity").
UnusedEnd ==
    \A b \in Browsers : (b \in Alive /\ idTask.value # b) ~> (b \notin Alive \/ idTask.value = b \/ hasty)

\* A save comes to an end, also when the commit failed and the server goes on answering
\* that it waits for the browser: the requests are counted.
SaveEnds == Saving ~> ~Saving

\* The dialog and the server agree on browsers: which are kept alive, and whose profile
\* is stored (profile-browser-dialog.ts, profiles.py).
BrowsersAgree == TypeOK /\ DoneIsStored /\ OneKeptAlive

\* Nothing the dialog began goes on for ever: browsers it no longer shows end, and so do
\* saves (disconnectedCallback, saveProfile).
AllEnd == UnusedEnd /\ SaveEnds
=============================================================================
