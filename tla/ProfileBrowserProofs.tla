------------------------ MODULE ProfileBrowserProofs ------------------------
(***************************************************************************)
(* The dialog and the server agree on browsers, for any number of          *)
(* browsers, retries and updates of the page: the invariant BrowsersAgree  *)
(* of ProfileBrowser.                                                      *)
(***************************************************************************)
EXTENDS ProfileBrowser, TLAPS

ElementType == [mounted : BOOLEAN, known : BOOLEAN, timer : BOOLEAN,
                task : {"none", "get", "poll", "navigate", "up", "error"},
                origins : {"none", "ping", "list", "error"}]
Delete == [id : Browsers, call : 0..MaxBrowsers]
IdTaskType == [status : {"pending", "complete", "error"}, value : Browsers \cup {Nobody},
               calls : SUBSET Browsers, last : 0..MaxBrowsers]
SaveTaskType == [stage : {"idle", "request", "wait", "aborted", "done", "failed"},
                 id : Browsers \cup {Nobody}, left : 0..MaxRetries]
BrowserType == {"none", "starting", "up", "gone"}
StatusType == {"initial", "pending", "ready", "error"}
OpenType == {"closed", "open", "hiding"}
CommitType == {"", "started", "failed", "done"}
RenderType == 0..MaxRenders

\* TypeOK with a name for the type of each variable, which most steps need not know.
Typed ==
    /\ browser \in [Browsers -> BrowserType] /\ committing \in [Browsers -> CommitType]
    /\ committed \subseteq Browsers /\ open \in OpenType /\ idTask \in IdTaskType
    /\ savedId \in Browsers \cup {Nobody} /\ browserStatus \in StatusType
    /\ originsLoaded \in BOOLEAN /\ showConfirmation \in BOOLEAN
    /\ el \in [Browsers -> ElementType] /\ deletes \subseteq Delete
    /\ saveTask \in SaveTaskType /\ toast \in {"none", "saving", "success"}
    /\ renders \in RenderType /\ hasty \in BOOLEAN

\* A save is of a browser, and has a request left to make.
SaveCounted ==
    /\ saveTask.stage # "idle" => saveTask.id \in Browsers
    /\ saveTask.stage \in {"request", "wait"} => saveTask.left \in 1..MaxRetries

\* The server says that a commit is done once it has stored the profile.
DoneWhenStored == \A b \in Browsers : committing[b] = "done" => b \in committed

\* The element shown is that of the browser the task has created.
OneShown ==
    \A b \in Browsers : el[b].mounted => idTask.status = "complete" /\ idTask.value = b

\* An element that was removed neither waits for an answer nor has a timer, unless it
\* was removed while a request of it was in flight.
RemovedIsIdle == ~hasty => \A b \in Browsers : Busy(b) => el[b].mounted

\* The inductive invariant. OneKeptAlive follows from its last two conjuncts.
BrowsersInv ==
    /\ Typed /\ DoneIsStored
    /\ SaveCounted /\ DoneWhenStored /\ OneShown /\ RemovedIsIdle

LEMMA InitBrowsers == Init => BrowsersInv
<1> SUFFICES ASSUME Init PROVE BrowsersInv
    OBVIOUS
<1>1. 0 \in 0..MaxBrowsers /\ 0 \in 0..MaxRetries /\ 0 \in RenderType
    BY ProfileBrowserAssumption DEF RenderType
<1>2. Typed
    BY <1>1 DEF Init, Typed, NoElement, Idle, ElementType, IdTaskType, SaveTaskType,
        BrowserType, StatusType, OpenType, CommitType, RenderType
<1> QED
    BY <1>2 DEF Init, BrowsersInv, DoneIsStored, SaveCounted, DoneWhenStored, OneShown,
        RemovedIsIdle, Busy, InFlight, NoElement, Idle

-----------------------------------------------------------------------------
(* The task that creates browsers.                                           *)

\* disconnectedCallback leaves nothing of an element but its requests in flight.
LEMMA AllRemoved ==
    ASSUME BrowsersInv, el' = RemoveAll, NoteHaste
    PROVE  /\ el' \in [Browsers -> ElementType] /\ hasty' \in BOOLEAN
           /\ \A b \in Browsers : ~el'[b].mounted
           /\ RemovedIsIdle'
<1> USE DEF BrowsersInv
<1>1. \A b \in Browsers : el[b] \in ElementType
    BY DEF Typed, ElementType
<1>2. \A b \in Browsers : /\ Removed(el[b]) \in ElementType
                          /\ Removed(el[b]).mounted = FALSE /\ Removed(el[b]).timer = FALSE
                          /\ Removed(el[b]).origins = el[b].origins
                          /\ Removed(el[b]).task = IF el[b].task = "poll" THEN "none"
                                                   ELSE el[b].task
    BY <1>1 DEF Removed, ElementType
<1>3. /\ el' \in [Browsers -> ElementType]
      /\ \A b \in Browsers : el'[b] = Removed(el[b])
    BY <1>2 DEF RemoveAll
<1>4. hasty' \in BOOLEAN
    BY DEF NoteHaste, Typed
<1>5. ASSUME ~hasty', NEW b \in Browsers, Busy(b)' PROVE FALSE
  <2>1. el'[b].task \in {"get", "navigate"} \/ el'[b].origins = "ping"
    BY <1>2, <1>3, <1>5 DEF Busy, InFlight
  <2>2. InFlight(b)
    BY <1>2, <1>3, <2>1 DEF InFlight
  <2> QED BY <1>5, <2>2 DEF NoteHaste, RemovedIsIdle, Busy
<1> QED BY <1>2, <1>3, <1>4, <1>5 DEF RemovedIsIdle

\* browserIdTask runs, when the dialog opens and when the page updates.
LEMMA RunStep ==
    ASSUME BrowsersInv, runIdTask, open' \in OpenType,
           renders' \in RenderType,
           UNCHANGED <<server, savedId, browserStatus, originsLoaded, showConfirmation, saveTask,
                       toast>>
    PROVE  BrowsersInv'
<1> USE DEF BrowsersInv
<1>1. /\ el' \in [Browsers -> ElementType] /\ hasty' \in BOOLEAN
      /\ \A b \in Browsers : ~el'[b].mounted
      /\ RemovedIsIdle'
    BY AllRemoved DEF runIdTask
<1>2. idTask.last + 1 \in Browsers /\ idTask.last + 1 \in 0..MaxBrowsers
    BY ProfileBrowserAssumption DEF runIdTask, Typed, Browsers, IdTaskType
<1>3. idTask' \in IdTaskType
    BY <1>2 DEF runIdTask, Typed, IdTaskType
<1>4. deletes' \subseteq Delete
  <2>1. \A b \in {idTask.value} \ {Nobody, savedId} :
           [id |-> b, call |-> idTask.last + 1] \in Delete
    BY <1>2 DEF Typed, Delete, IdTaskType
  <2> QED BY <2>1 DEF runIdTask, Typed
<1>5. Typed'
    BY <1>1, <1>3, <1>4 DEF Typed, server
<1> QED BY <1>1, <1>5 DEF DoneIsStored, SaveCounted, DoneWhenStored, OneShown, server

\* An answer to a call of browserIdTask, or the end of the dialog, for which the task has
\* no browser.
LEMMA AnswerStep ==
    ASSUME BrowsersInv, NEW n \in Browsers,
           BrowserCreated(n) \/ AbortedInTime(n) \/ CreateFails(n)
    PROVE  BrowsersInv'
<1> USE DEF BrowsersInv
<1>1. /\ idTask' \in IdTaskType
      /\ browser' \in [Browsers -> BrowserType]
  <2>1. CASE BrowserCreated(n)
    <3>1. browser' = [browser EXCEPT ![n] = "starting"]
        BY <2>1 DEF BrowserCreated
    <3>2. \/ idTask' = [idTask EXCEPT !.calls = @ \ {n}, !.status = "complete", !.value = n]
          \/ idTask' = [idTask EXCEPT !.calls = @ \ {n}]
        BY <2>1 DEF BrowserCreated
    <3>3. idTask' \in IdTaskType
        BY <3>2 DEF Typed, IdTaskType
    <3> QED BY <3>1, <3>3 DEF Typed, BrowserType
  <2>2. CASE AbortedInTime(n)
    BY <2>2 DEF AbortedInTime, Typed, server, IdTaskType
  <2>3. CASE CreateFails(n)
    BY <2>3 DEF CreateFails, Typed, server, IdTaskType
  <2> QED BY <2>1, <2>2, <2>3
<1>2. UNCHANGED <<hasty, committing, committed, open, savedId, browserStatus, originsLoaded,
                  showConfirmation, deletes, saveTask, toast, renders>>
    BY DEF BrowserCreated, AbortedInTime, CreateFails, server
<1>3. \/ el' = el /\ idTask'.status = idTask.status /\ idTask'.value = idTask.value
      \/ el' = el /\ idTask.status = "pending"
      \/ /\ el' = [el EXCEPT ![n] = [NoElement EXCEPT !.mounted = TRUE, !.task = "get"]]
         /\ idTask.status = "pending" /\ idTask'.status = "complete" /\ idTask'.value = n
    BY DEF BrowserCreated, AbortedInTime, CreateFails, Superseded, Typed, IdTaskType
<1>4. CASE el' = el
  <2>1. Typed'
    BY <1>1, <1>2, <1>4 DEF Typed
  <2>2. OneShown'
    BY <1>3, <1>4 DEF OneShown, Typed
  <2> QED BY <1>2, <1>4, <2>1, <2>2 DEF DoneIsStored, SaveCounted, DoneWhenStored,
            RemovedIsIdle, Busy, InFlight
<1>5. CASE /\ el' = [el EXCEPT ![n] = [NoElement EXCEPT !.mounted = TRUE, !.task = "get"]]
           /\ idTask.status = "pending" /\ idTask'.status = "complete" /\ idTask'.value = n
  <2>1. /\ el' \in [Browsers -> ElementType] /\ el'[n].mounted
        /\ \A b \in Browsers : b # n => el'[b] = el[b]
    BY <1>5 DEF Typed, ElementType, NoElement
  <2>2. Typed'
    BY <1>1, <1>2, <2>1 DEF Typed
  <2>3. OneShown' /\ RemovedIsIdle'
    BY <1>2, <1>5, <2>1 DEF OneShown, RemovedIsIdle, Busy, InFlight
  <2> QED BY <1>2, <2>2, <2>3 DEF DoneIsStored, SaveCounted, DoneWhenStored
<1> QED BY <1>3, <1>4, <1>5

LEMMA AfterHideStep ==
    ASSUME BrowsersInv, AfterHide
    PROVE  BrowsersInv'
<1> USE DEF BrowsersInv
<1>1. /\ el' \in [Browsers -> ElementType] /\ hasty' \in BOOLEAN
      /\ \A b \in Browsers : ~el'[b].mounted
      /\ RemovedIsIdle'
    BY AllRemoved DEF AfterHide
<1>2. Typed'
    BY <1>1 DEF AfterHide, Typed, server, IdTaskType, StatusType, OpenType
<1> QED BY <1>1, <1>2 DEF AfterHide, DoneIsStored, SaveCounted, DoneWhenStored, OneShown, server

-----------------------------------------------------------------------------
(* The element.                                                              *)

\* An element that waits for something goes on, in whichever way.
LEMMA ElementGoesOn ==
    ASSUME BrowsersInv, NEW b \in Browsers, Busy(b), NEW e \in ElementType,
           e.mounted = el[b].mounted, el' = [el EXCEPT ![b] = e],
           browserStatus' \in StatusType,
           originsLoaded' \in BOOLEAN,
           UNCHANGED <<hasty, server, open, idTask, savedId, showConfirmation, deletes,
                       saveTask, toast, renders>>
    PROVE  BrowsersInv'
<1> USE DEF BrowsersInv
<1>1. /\ el' \in [Browsers -> ElementType] /\ el'[b].mounted = el[b].mounted
      /\ \A c \in Browsers : c # b => el'[c] = el[c]
    BY DEF Typed, ElementType
<1>2. Typed'
    BY <1>1 DEF Typed, server
<1>3. OneShown' /\ RemovedIsIdle'
    BY <1>1 DEF OneShown, RemovedIsIdle, Busy, InFlight
<1> QED BY <1>2, <1>3 DEF DoneIsStored, SaveCounted, DoneWhenStored, server

LEMMA ElementStep ==
    ASSUME BrowsersInv, NEW b \in Browsers, Element(b)
    PROVE  BrowsersInv'
<1>1. el[b] \in ElementType /\ browserStatus \in StatusType
      /\ originsLoaded \in BOOLEAN
    BY DEF BrowsersInv, Typed, ElementType
<1>2. CASE GetBrowser(b)
  <2>1. PICK task \in {"error", "poll", "navigate"} : el' = [el EXCEPT ![b].task = task]
    BY <1>2 DEF GetBrowser, Ended
  <2> DEFINE e == [el[b] EXCEPT !.task = task]
  <2>2. e \in ElementType /\ e.mounted = el[b].mounted /\ el' = [el EXCEPT ![b] = e]
    BY <1>1, <2>1 DEF ElementType
  <2>3. Busy(b) /\ browserStatus' \in StatusType
    BY <1>1, <1>2 DEF GetBrowser, Busy, InFlight, StatusType
  <2> QED BY <1>1, <1>2, <2>2, <2>3, ElementGoesOn DEF GetBrowser
<1>3. CASE PollTimer(b)
  <2> DEFINE e == [el[b] EXCEPT !.task = "get"]
  <2>1. e \in ElementType /\ e.mounted = el[b].mounted /\ el' = [el EXCEPT ![b] = e]
    BY <1>1, <1>3 DEF PollTimer, Ended, ElementType
  <2> QED BY <1>1, <1>3, <2>1, ElementGoesOn DEF PollTimer, Busy, dialog
<1>4. CASE Navigated(b)
  <2>1. PICK task \in {"error", "up"}, origins \in {el[b].origins, "ping"} :
           el' = [el EXCEPT ![b].task = task, ![b].origins = origins]
    <3>1. CASE el' = [el EXCEPT ![b].task = "up", ![b].origins = "ping"]
        BY <3>1
    <3>2. CASE Ended(b, "error")
      <4>1. el' = [el EXCEPT ![b].task = "error", ![b].origins = el[b].origins]
        BY <1>1, <3>2 DEF Ended, ElementType, BrowsersInv, Typed
      <4> QED BY <4>1
    <3> QED BY <1>4, <3>1, <3>2 DEF Navigated
  <2> DEFINE e == [el[b] EXCEPT !.task = task, !.origins = origins]
  <2>2. e \in ElementType /\ e.mounted = el[b].mounted /\ el' = [el EXCEPT ![b] = e]
    BY <1>1, <2>1 DEF ElementType
  <2>3. Busy(b) /\ browserStatus' \in StatusType
    BY <1>1, <1>4 DEF Navigated, Busy, InFlight, StatusType
  <2> QED BY <1>1, <1>4, <2>2, <2>3, ElementGoesOn DEF Navigated
<1>5. CASE Ping(b)
  <2>1. PICK visited \in BOOLEAN :
          /\ el' = [el EXCEPT ![b].origins = "list", ![b].timer = TRUE, ![b].known = @ \/ visited]
          /\ originsLoaded' = (originsLoaded \/ visited)
    BY <1>5 DEF Ping
  <2>2. originsLoaded' \in BOOLEAN /\ (el[b].known \/ visited) \in BOOLEAN
    BY <1>1, <2>1
  <2> DEFINE e == [el[b] EXCEPT !.origins = "list", !.timer = TRUE, !.known = el[b].known \/ visited]
  <2>3. e \in ElementType /\ e.mounted = el[b].mounted /\ el' = [el EXCEPT ![b] = e]
    BY <1>1, <2>1, <2>2 DEF ElementType
  <2> QED BY <1>1, <1>5, <2>2, <2>3, ElementGoesOn DEF Ping, Busy, InFlight
<1>6. CASE PingTimer(b)
  <2> DEFINE e == [el[b] EXCEPT !.timer = FALSE, !.origins = "ping"]
  <2>1. e \in ElementType /\ e.mounted = el[b].mounted /\ el' = [el EXCEPT ![b] = e]
    BY <1>1, <1>6 DEF PingTimer, ElementType
  <2> QED BY <1>1, <1>6, <2>1, ElementGoesOn DEF PingTimer, Busy, dialog
<1>7. CASE PingFails(b)
  <2> DEFINE e == [el[b] EXCEPT !.origins = "error"]
  <2>1. e \in ElementType /\ e.mounted = el[b].mounted /\ el' = [el EXCEPT ![b] = e]
    BY <1>1, <1>7 DEF PingFails, ElementType
  <2>2. browserStatus' \in StatusType
    BY <1>7 DEF PingFails, StatusType
  <2> QED BY <1>1, <1>7, <2>1, <2>2, ElementGoesOn DEF PingFails, Busy, InFlight
<1> QED BY <1>2, <1>3, <1>4, <1>5, <1>6, <1>7 DEF Element

-----------------------------------------------------------------------------
(* The dialog, saving, and the server.                                       *)

\* Clicks change what the dialog shows, begin and abort a save, and ask for deletions.
LEMMA UserStep ==
    ASSUME BrowsersInv,
           Exit \/ CloseButton \/ submit
             \/ \E b \in Browsers : onClickReload(b) \/ onIframeLoad(b)
    PROVE  BrowsersInv'
<1> USE DEF BrowsersInv
<1>1. CASE Exit \/ \E b \in Browsers : onClickReload(b) \/ onIframeLoad(b)
  <2>1. /\ UNCHANGED <<hasty, server, idTask, savedId, originsLoaded, el, deletes, saveTask,
                       toast, renders>>
        /\ open' \in OpenType /\ showConfirmation' \in BOOLEAN
        /\ browserStatus' \in StatusType
    BY <1>1 DEF Exit, onClickReload, onIframeLoad, Typed, OpenType, StatusType
  <2> QED BY <2>1 DEF Typed, DoneIsStored, SaveCounted, DoneWhenStored, OneShown,
        RemovedIsIdle, Busy, InFlight, server
<1>2. CASE CloseButton
  <2>1. deletes' \subseteq Delete
    <3>1. 0 \in 0..MaxBrowsers
        BY ProfileBrowserAssumption
    <3>2. \A b \in {idTask.value} \ {Nobody} : [id |-> b, call |-> 0] \in Delete
        BY <3>1 DEF Typed, Delete, IdTaskType
    <3> QED BY <1>2, <3>2 DEF CloseButton, Typed
  <2>2. /\ saveTask' \in SaveTaskType
        /\ saveTask'.stage \in {saveTask.stage, "aborted"}
        /\ saveTask'.id = saveTask.id /\ saveTask'.left = saveTask.left
        /\ saveTask.stage = "idle" => saveTask'.stage = "idle"
    BY <1>2 DEF CloseButton, Saving, Typed, SaveTaskType
  <2>3. Typed'
    BY <1>2, <2>1, <2>2 DEF CloseButton, Typed, server, OpenType
  <2> QED BY <1>2, <2>2, <2>3 DEF CloseButton, DoneIsStored, SaveCounted, DoneWhenStored,
        OneShown, RemovedIsIdle, Busy, InFlight, server
<1>3. CASE submit
  <2>1. idTask.value \in Browsers
    BY <1>3 DEF submit, Typed, IdTaskType
  <2>2. MaxRetries \in 1..MaxRetries /\ MaxRetries \in 0..MaxRetries
    BY ProfileBrowserAssumption
  <2>3. Typed'
    BY <1>3, <2>1, <2>2 DEF submit, Typed, server, dialog, SaveTaskType
  <2> QED BY <1>3, <2>1, <2>2, <2>3 DEF submit, DoneIsStored, SaveCounted, DoneWhenStored,
        OneShown, RemovedIsIdle, Busy, InFlight, server, dialog
<1> QED BY <1>1, <1>2, <1>3

\* saveProfileTask: it takes a save for done when the server says that the commit is.
LEMMA SaveStep ==
    ASSUME BrowsersInv, SaveSteps
    PROVE  BrowsersInv'
<1> USE DEF BrowsersInv
<1>1. /\ saveTask.stage \in {"request", "wait", "aborted"} /\ saveTask.id \in Browsers
      /\ UNCHANGED <<hasty, committed, idTask, browserStatus, originsLoaded, showConfirmation,
                     el, deletes, renders>>
    BY DEF SaveSteps, SaveAnswered, SaveTimer, SaveAborted, SaveCounted, server, dialog
<1>2. /\ browser' \in [Browsers -> BrowserType]
      /\ committing' \in [Browsers -> CommitType]
      /\ \A b \in Browsers : committing'[b] = "done" => committing[b] = "done"
    BY <1>1 DEF SaveSteps, SaveAnswered, SaveTimer, SaveAborted, Typed, server, BrowserType, CommitType
<1>3. ASSUME NEW stored \in BOOLEAN, afterRun(stored),
             stored => committing[saveTask.id] = "done"
      PROVE  BrowsersInv'
  <2>1. /\ saveTask' \in SaveTaskType
        /\ saveTask'.stage = (IF stored THEN "done" ELSE "failed") /\ saveTask'.id = saveTask.id
        /\ savedId' \in Browsers \cup {Nobody} /\ toast' = "success"
        /\ open' \in OpenType
    BY <1>1, <1>3 DEF afterRun, Typed, SaveTaskType, OpenType
  <2>2. Typed'
    BY <1>1, <1>2, <2>1 DEF Typed
  <2>3. DoneIsStored'
    BY <1>1, <1>3, <2>1 DEF DoneIsStored, DoneWhenStored
  <2> QED BY <1>1, <1>2, <2>1, <2>2, <2>3 DEF SaveCounted, DoneWhenStored, OneShown,
            RemovedIsIdle, Busy, InFlight
<1>4. ASSUME NEW left \in 1..MaxRetries, NEW stage \in {"wait", "request"},
             saveTask' = [saveTask EXCEPT !.stage = stage, !.left = left],
             UNCHANGED <<open, savedId, toast>>
      PROVE  BrowsersInv'
  <2>1. /\ saveTask' \in SaveTaskType
        /\ saveTask'.stage = stage /\ saveTask'.id = saveTask.id /\ saveTask'.left = left
    <3>1. left \in 0..MaxRetries
        BY ProfileBrowserAssumption
    <3> QED BY <1>4, <3>1 DEF Typed, SaveTaskType
  <2>2. Typed'
    BY <1>1, <1>2, <1>4, <2>1 DEF Typed
  <2> QED BY <1>1, <1>2, <2>1, <2>2 DEF DoneIsStored, SaveCounted, DoneWhenStored, OneShown,
            RemovedIsIdle, Busy, InFlight
<1>5. CASE SaveAnswered
  <2>1. CASE afterRun(TRUE) /\ committing[saveTask.id] = "done"
    BY <1>3, <2>1
  <2>2. CASE afterRun(FALSE)
    BY <1>3, <2>2
  <2>3. CASE /\ saveTask.left # 1 /\ UNCHANGED <<open, savedId, toast>>
             /\ saveTask' = [saveTask EXCEPT !.stage = "wait", !.left = @ - 1]
    <3>1. saveTask.left - 1 \in 1..MaxRetries
      <4>1. saveTask.left \in 1..MaxRetries
        BY <1>5 DEF SaveAnswered, SaveCounted
      <4> QED BY <2>3, <4>1, ProfileBrowserAssumption
    <3> QED BY <1>4, <2>3, <3>1
  <2> QED BY <1>5, <2>1, <2>2, <2>3 DEF SaveAnswered
<1>6. CASE SaveTimer
  <2>1. saveTask.left \in 1..MaxRetries
    BY <1>6 DEF SaveTimer, SaveCounted
  <2>2. saveTask' = [saveTask EXCEPT !.stage = "request", !.left = saveTask.left]
    BY <1>6 DEF SaveTimer, Typed, SaveTaskType
  <2> QED BY <1>4, <1>6, <2>1, <2>2 DEF SaveTimer, dialog
<1>7. CASE SaveAborted
    BY <1>3, <1>7 DEF SaveAborted
<1> QED BY <1>5, <1>6, <1>7 DEF SaveSteps

\* The server: browsers come up, expire and are deleted, and their profiles are stored.
LEMMA ServerStep ==
    ASSUME BrowsersInv, NEW b \in Browsers,
           BrowserUp(b) \/ Expire(b) \/ DeleteArrives(b) \/ Commit(b) \/ CommitFails(b)
    PROVE  BrowsersInv'
<1> USE DEF BrowsersInv
<1>1. /\ UNCHANGED <<hasty, open, idTask, savedId, browserStatus, originsLoaded,
                     showConfirmation, el, saveTask, toast, renders>>
      /\ deletes' \subseteq deletes
      /\ browser' \in [Browsers -> BrowserType]
    BY DEF BrowserUp, Expire, DeleteArrives, Commit, CommitFails, dialog, Typed, BrowserType
<1>2. /\ committing' \in [Browsers -> CommitType]
      /\ committed \subseteq committed' /\ committed' \subseteq Browsers
      /\ DoneWhenStored'
    BY DEF BrowserUp, Expire, DeleteArrives, Commit, CommitFails, DoneWhenStored, Typed, CommitType
<1>3. Typed'
    BY <1>1, <1>2 DEF Typed
<1> QED BY <1>1, <1>2, <1>3 DEF DoneIsStored, SaveCounted, OneShown, RemovedIsIdle, Busy,
        InFlight

-----------------------------------------------------------------------------

LEMMA BrowsersStep == BrowsersInv /\ [Next]_vars => BrowsersInv'
<1> SUFFICES ASSUME BrowsersInv, [Next]_vars PROVE BrowsersInv'
    OBVIOUS
<1>1. CASE UNCHANGED vars
    BY <1>1 DEF vars, server, dialog, BrowsersInv, Typed, DoneIsStored, SaveCounted,
        DoneWhenStored, OneShown, RemovedIsIdle, Busy, InFlight
<1>2. CASE Open
    BY <1>2, RunStep DEF Open, BrowsersInv, Typed, OpenType
<1>3. CASE Rerender
  <2>1. renders' \in RenderType
    BY <1>3, ProfileBrowserAssumption DEF Rerender, BrowsersInv, Typed, RenderType
  <2> QED BY <1>3, <2>1, RunStep DEF Rerender, BrowsersInv, Typed
<1>4. CASE User
    BY <1>2, <1>4, UserStep DEF User
<1>5. ASSUME NEW b \in Browsers, Element(b) \/ Server(b) \/ onIframeLoad(b) \/ Expire(b)
      PROVE  BrowsersInv'
    BY <1>5, ElementStep, ServerStep, AnswerStep, UserStep DEF Server
<1> QED
    BY <1>1, <1>3, <1>4, <1>5, AfterHideStep, SaveStep DEF Next

\* The dialog and the server agree on browsers, however many there are: a save that is
\* taken for done is stored, and at most one browser is kept alive, unless an element was
\* removed while a request of it was in flight.
THEOREM BrowsersAgreeSafe == Spec => []BrowsersAgree
<1>1. Spec => []BrowsersInv
    BY InitBrowsers, BrowsersStep, PTL DEF Spec
<1>2. BrowsersInv => BrowsersAgree
  <2>1. Typed => TypeOK
    BY DEF Typed, TypeOK, BrowserType, CommitType, OpenType, IdTaskType, StatusType,
        ElementType, Delete, SaveTaskType, RenderType
  <2> QED BY <2>1 DEF BrowsersInv, BrowsersAgree, OneKeptAlive, OneShown, RemovedIsIdle
<1> QED BY <1>1, <1>2, PTL
=============================================================================
