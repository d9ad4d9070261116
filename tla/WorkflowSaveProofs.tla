------------------------- MODULE WorkflowSaveProofs -------------------------
(***************************************************************************)
(* Saving a workflow, for any number of submissions, edits, crawls and     *)
(* lapses: the invariants OneOfEach and SavedAsAsked of WorkflowSave, and  *)
(* its action property EditsKept.                                          *)
(***************************************************************************)
EXTENDS WorkflowSave, TLAPS

Form == [edit : 0..MaxEdits, scope : Scopes, coll : {"none", "new", "made"},
         file : {"none", "old", "chosen"}, stored : BOOLEAN, withFile : BOOLEAN]
Page == [given : BOOLEAN, scope : Scopes, defaults : {"old", "new"}, org : BOOLEAN, guide : BOOLEAN]
Req == [edit : 0..MaxEdits, file : {"none", "old", "new"}, runNow : BOOLEAN,
        updateRunning : BOOLEAN]
Sub == [pc : Started \cup {"idle", "done", "dead"}, run : BOOLEAN, req : Req,
        answer : {"none", "error", "running", "saved", "started"}]
Status == [pc : {"off", "fetching", "waiting"},
           value : {"unknown", "none", "running"} \cup FinalStates]
Server == [workflows : Nat, edit : 0..MaxEdits, file : {"none", "old", "new"},
           isCrawlRunning : BOOLEAN, lastCrawlState : {"none"} \cup FinalStates]
Crawls == [manual : Nat, cron : {"idle", "insert", "running"}, scheduled : Nat, ended : Nat,
           last : {"none"} \cup FinalStates]
Polls == {"unknown", "yes", "no"}

\* The values of all variables, of which TypeOK names those that the code could get wrong.
\* An editor of a new workflow has no status element, and there is no schedule; a file is
\* chosen by an edit.
Types ==
    /\ form \in Form /\ mounted \in BOOLEAN /\ isSubmitting \in BOOLEAN
    /\ saveAndRun \in BOOLEAN /\ isCrawlRunning \in Polls /\ updatingScopeType \in BOOLEAN
    /\ subs \in [Ids -> Sub] /\ status \in Status /\ server \in Server /\ crawls \in Crawls
    /\ lapses \subseteq Lapses
    /\ Editing => server.workflows = 1
    /\ ~Editing => status.pc = "off" /\ isCrawlRunning = "no" /\ crawls.cron = "idle"
    /\ form.edit = 0 => form.file # "chosen"

\* The initial workflow is the one the page makes, of the org's defaults that were there
\* as it was opened until the org comes that was asked for.
InitialIsPages ==
    /\ page \in Page /\ initialWorkflow = Initial(page)
    /\ ~page.org => page.defaults = "old"

\* A call whose workflow is stored and whose answer, if it is on its way, says so.
Saved(i) == \/ subs[i].pc \in {"check", "start", "insert"}
            \/ subs[i].pc = "reply" /\ subs[i].answer \in {"saved", "started"}

\* One call at a time, which isSubmitting tells of once the form was found valid; when the
\* page was left with what the call has saved, there is none.
OneCall ==
    Without({"again"}) =>
       /\ \A i, j \in Ids : subs[i].pc \in Started /\ subs[j].pc \in Started => i = j
       /\ \A i \in Ids : subs[i].pc \in Started \ {"valid"} => isSubmitting
       /\ told \in {"saved", "started"} =>
             ~mounted /\ \A i \in Ids : subs[i].pc \notin Started

\* A new workflow is stored by a call that goes on, or that has left the page.
StoredByCall ==
    ~Editing /\ Without({"again", "answer"}) =>
       /\ mounted /\ (\A i \in Ids : ~Saved(i)) => server.workflows = 0
       /\ \A i \in Ids : subs[i].pc \in Started /\ ~Saved(i) => server.workflows = 0

\* A crawl about to be added, by request or by schedule, has a workflow without one, and is
\* the only one to be added.
Adding(i) == subs[i].pc \in {"start", "insert"}
StartsFree ==
    Without({"again", "schedule"}) =>
       /\ \A i \in Ids : Adding(i) \/ (subs[i].pc = "check" /\ ~Editing) =>
             Active + 1 <= server.workflows
       /\ crawls.cron = "insert" =>
             Active + 1 <= server.workflows /\ \A i \in Ids : ~Adding(i)

\* saveAndRun is the flag of the call that goes on, until its request is sent.
FlagIsCalls ==
    Without({"again"}) =>
       \A i \in Ids : subs[i].pc \in {"valid", "coll", "upload"} => saveAndRun = subs[i].run

\* The form stays as it is from its validation on: the request has what it shows.
FormStays ==
    Without({"again", "edit", "defaults"}) =>
       /\ \A i \in Ids : subs[i].pc = "sent" => subs[i].req.edit = form.edit
       /\ \A i \in Ids : Saved(i) => server.edit = form.edit
       /\ told \in {"saved", "started"} => server.edit = form.edit

\* The file of a workflow of URLs is there until it is sent.
FileStays ==
    /\ Without({"upload", "edit"}) /\ Editing /\ WithFile =>
         \A i \in Ids :
            /\ subs[i].pc \in {"coll", "upload"} => form.file # "none"
            /\ subs[i].pc = "sent" => subs[i].req.file # "none"
    /\ \A i \in Ids : Without({"edit", "defaults"}) /\ subs[i].pc = "upload" => form.file = "chosen"

\* The inductive invariant: each conjunct excepts the lapses of the property it serves.
SaveInv ==
    /\ Types /\ OneCall /\ StoredByCall /\ StartsFree /\ FlagIsCalls /\ FormStays /\ FileStays
    /\ InitialIsPages /\ OneWorkflow /\ OneCrawl /\ RunAsAsked /\ NeverEmpty

-----------------------------------------------------------------------------
(* Calls, their requests and the lapses.                                     *)

\* A call that is set, and the others.
LEMMA SetSub ==
    ASSUME Types, NEW i \in Ids, NEW s \in Sub, subs' = [subs EXCEPT ![i] = s]
    PROVE  /\ subs' \in [Ids -> Sub] /\ subs'[i] = s
           /\ \A j \in Ids : j # i => subs'[j] = subs[j]
BY DEF Types

\* What did not happen by the next step has not happened before.
LEMMA WithoutBefore ==
    ASSUME lapses \subseteq lapses', NEW S, Without(S)'
    PROVE  Without(S)
BY DEF Without

LEMMA IdleType == Idle \in Sub
<1>1. 0 \in 0..MaxEdits
    BY WorkflowSaveAssumption
<1>2. NoRequest \in Req
    BY <1>1 DEF NoRequest, Req
<1> QED BY <1>2 DEF Idle, Sub, Started

LEMMA RequestType ==
    ASSUME Types, NEW file \in {"none", "old", "new"}
    PROVE  /\ Request(file) \in Req
           /\ Request(file).edit = form.edit /\ Request(file).file = file
           /\ (Request(file).runNow \/ Request(file).updateRunning) = saveAndRun
<1>1. Request(file) \in Req /\ Request(file).edit = form.edit /\ Request(file).file = file
    BY DEF Types, Request, Req, Form, Editing
<1>2. (Request(file).runNow \/ Request(file).updateRunning) = saveAndRun
    BY DEF Types, Request, Polls, Form, Editing
<1> QED BY <1>1, <1>2

\* A call uploads the file that was chosen, or sends the form as it is.
LEMMA SendsOrUploads ==
    ASSUME Types, NEW s \in Sub
    PROVE  /\ SendOrUpload(s) \in Sub
           /\ SendOrUpload(s).run = s.run
           /\ form.file = "chosen" => SendOrUpload(s).pc = "upload"
           /\ form.file # "chosen" => /\ SendOrUpload(s).pc = "sent"
                                      /\ SendOrUpload(s).req = Request(form.file)
<1>1. CASE form.file = "chosen"
    BY <1>1 DEF SendOrUpload, Sub, Started
<1>2. CASE form.file # "chosen"
  <2>1. form.file \in {"none", "old"}
    BY <1>2 DEF Types, Form
  <2>2. Request(form.file) \in Req
    BY <2>1, RequestType
  <2> QED BY <1>2, <2>2 DEF SendOrUpload, Sub, Started
<1> QED BY <1>1, <1>2

\* A call sends its request: the flag of the call is still the editor's, so that the
\* request runs what was asked for, and has what the form shows.
LEMMA SentAsAsked ==
    ASSUME SaveInv, NEW i \in Ids, subs[i].pc \in {"valid", "coll", "upload"},
           Without({"again"}), NEW file \in {"none", "old", "new"}
    PROVE  (Request(file).runNow \/ Request(file).updateRunning) = subs[i].run
BY RequestType DEF SaveInv, FlagIsCalls

\* The crawls that are running.
LEMMA ActiveType ==
    ASSUME SaveInv
    PROVE  Active \in Nat
BY DEF SaveInv, Types, Crawls, Active

-----------------------------------------------------------------------------
(* The form.                                                                 *)

\* The lapses noted by LapseIf.
LEMMA LapseNoted ==
    ASSUME Types, NEW condition, NEW what \in Lapses, LapseIf(condition, what)
    PROVE  /\ lapses \subseteq lapses' /\ lapses' \subseteq Lapses
           /\ condition => what \in lapses'
BY DEF Types, LapseIf, Lapse

\* The form becomes another, by an edit or by a page that renders: no call goes on that
\* it could concern, unless that was a lapse.
LEMMA FormStep ==
    ASSUME SaveInv, mounted, form' \in Form, form'.edit = 0 => form'.file # "chosen",
           Editing' = Editing, WithFile' = WithFile, InitialIsPages', updatingScopeType' \in BOOLEAN,
           lapses \subseteq lapses', lapses' \subseteq Lapses,
           Editing /\ Submitting => "edit" \in lapses',
           Submitting /\ Without({"edit", "defaults"})' =>
              form'.edit = form.edit /\ (form.file = "chosen" => form'.file = "chosen"),
           UNCHANGED <<mounted, isSubmitting, saveAndRun, isCrawlRunning, subs, status, server,
                       crawls, told>>
    PROVE  SaveInv'
<1> USE DEF SaveInv
<1>1. Types'
    BY DEF Types
<1>2. OneCall' /\ StoredByCall' /\ StartsFree' /\ FlagIsCalls'
    BY WithoutBefore DEF OneCall, StoredByCall, Saved, StartsFree, Adding, Active, FlagIsCalls
<1>3. OneWorkflow' /\ OneCrawl' /\ RunAsAsked' /\ NeverEmpty'
    BY WithoutBefore DEF OneWorkflow, OneCrawl, Active, RunAsAsked, NeverEmpty
<1>4. \A i \in Ids : subs[i].pc \in Started => Submitting
    BY DEF Submitting
<1>5. FormStays'
  <2> SUFFICES ASSUME Without({"again", "edit", "defaults"})' PROVE FormStays'
    BY DEF FormStays
  <2>1. told \notin {"saved", "started"}
    BY WithoutBefore DEF OneCall, Without
  <2>2. Submitting => form'.edit = form.edit
    BY DEF Without
  <2>3. \A i \in Ids : Saved(i) \/ subs[i].pc = "sent" => Submitting
    BY <1>4 DEF Saved, Started
  <2> QED BY <2>1, <2>2, <2>3, WithoutBefore DEF FormStays, Saved
<1>6. FileStays'
  <2>1. \A i \in Ids : subs[i].pc \in {"coll", "upload", "sent"} => Submitting
    BY <1>4 DEF Started
  <2>2. Without({"upload", "edit"})' /\ Editing /\ WithFile =>
           \A i \in Ids : subs[i].pc \notin {"coll", "upload", "sent"}
    BY <2>1 DEF Without
  <2>3. \A i \in Ids : Without({"edit", "defaults"})' /\ subs[i].pc = "upload" =>
           form'.file = "chosen"
    BY <2>1, WithoutBefore DEF FileStays
  <2> QED BY <2>2, <2>3 DEF FileStays
<1> QED BY <1>1, <1>2, <1>3, <1>5, <1>6

\* An edit, of any part of the form.
LEMMA CanEditNoted ==
    ASSUME SaveInv, CanEdit
    PROVE  /\ mounted /\ form.edit + 1 \in 0..MaxEdits /\ form.edit + 1 # 0
           /\ lapses \subseteq lapses' /\ lapses' \subseteq Lapses
           /\ Submitting => "edit" \in lapses'
<1>1. form.edit \in 0..MaxEdits /\ form.edit < MaxEdits /\ mounted
    BY DEF SaveInv, Types, Form, CanEdit
<1>2. form.edit + 1 \in 0..MaxEdits /\ form.edit + 1 # 0
    BY <1>1, WorkflowSaveAssumption
<1>3. /\ lapses \subseteq lapses' /\ lapses' \subseteq Lapses
      /\ Submitting => "edit" \in lapses'
    BY LapseNoted DEF CanEdit, SaveInv, Lapses
<1> QED BY <1>1, <1>2, <1>3

LEMMA EditStep ==
    ASSUME SaveInv, NEW new \in Form, Edit(new),
           new.edit = form.edit, new.stored = form.stored, new.withFile = form.withFile
    PROVE  SaveInv' /\ form'.edit = form.edit + 1
<1>1. /\ CanEdit /\ form' = [new EXCEPT !.edit = form.edit + 1]
      /\ UNCHANGED <<mounted, isSubmitting, saveAndRun, isCrawlRunning, page, initialWorkflow,
                     updatingScopeType, subs, status, server, crawls, told>>
    BY DEF Edit, initial
<1>2. /\ form' \in Form /\ form'.edit = form.edit + 1
      /\ Editing' = Editing /\ WithFile' = WithFile
    BY <1>1, CanEditNoted DEF Form, Editing, WithFile
<1>3. InitialIsPages' /\ updatingScopeType' \in BOOLEAN
    BY <1>1 DEF SaveInv, InitialIsPages, Types
<1>4. "edit" \in lapses' => ~Without({"edit", "defaults"})'
    BY DEF Without
<1>5. SaveInv'
    BY <1>1, <1>2, <1>3, <1>4, CanEditNoted, FormStep
<1> QED BY <1>2, <1>5

\* The steps of the form.
LEMMA InputStep ==
    ASSUME SaveInv, ChangeInput \/ ChooseFile \/ RemoveFile \/ NameCollection
    PROVE  SaveInv' /\ form'.edit = form.edit + 1
<1> USE DEF SaveInv, Types
<1>1. CASE ChangeInput BY <1>1, EditStep DEF ChangeInput
<1>2. CASE ChooseFile
    BY <1>2, EditStep DEF ChooseFile, Form
<1>3. CASE RemoveFile
    BY <1>3, EditStep DEF RemoveFile, Form
<1>4. CASE NameCollection
    BY <1>4, EditStep DEF NameCollection, Form
<1> QED BY <1>1, <1>2, <1>3, <1>4

\* The page renders: what it makes is the editor's initial workflow, and the form is the
\* one it was to be, or a new one if that workflow is another.
LEMMA RenderStep ==
    ASSUME SaveInv, NEW p \in Page, NEW new \in Form, NEW flag \in BOOLEAN, ~p.org => p.defaults = "old",
           new.edit = 0 => new.file # "chosen",
           new.stored = form.stored, new.withFile = form.withFile, ~Editing, willUpdate(p, new, flag)
    PROVE  /\ InitialIsPages' /\ updatingScopeType' \in BOOLEAN
           /\ form' \in Form /\ (form'.edit = 0 => form'.file # "chosen")
           /\ Editing' = Editing /\ WithFile' = WithFile
           /\ form'.edit \in {new.edit, 0}
           /\ flag \/ Initial(p) = initialWorkflow => form' = new
           /\ UNCHANGED <<mounted, isSubmitting, saveAndRun, isCrawlRunning, subs, status, server,
                          crawls, told>>
<1>1. /\ page' = p /\ initialWorkflow' = Initial(p)
      /\ UNCHANGED <<mounted, isSubmitting, saveAndRun, isCrawlRunning, subs, status, server,
                     crawls, told>>
    BY DEF willUpdate
<1>2. updatingScopeType' \in BOOLEAN
    BY DEF willUpdate
<1>3. form' = new \/ form' = InitialForm(Editing, WithFile)
    BY DEF willUpdate
<1>4. flag \/ Initial(p) = initialWorkflow => form' = new
    BY DEF willUpdate, hasChanged
<1>5. /\ InitialForm(Editing, WithFile) \in Form
      /\ InitialForm(Editing, WithFile).edit = 0 /\ InitialForm(Editing, WithFile).file # "chosen"
      /\ InitialForm(Editing, WithFile).stored = form.stored
      /\ InitialForm(Editing, WithFile).withFile = form.withFile
  <2>1. form.stored \in BOOLEAN /\ form.withFile \in BOOLEAN /\ 0 \in 0..MaxEdits
    BY WorkflowSaveAssumption DEF SaveInv, Types, Form
  <2> QED BY <2>1 DEF InitialForm, Form, Editing, WithFile, Scopes
<1>6. InitialIsPages'
    BY <1>1 DEF InitialIsPages
<1>7. form' \in Form /\ (form'.edit = 0 => form'.file # "chosen") /\ form'.edit \in {new.edit, 0}
      /\ form'.stored = form.stored /\ form'.withFile = form.withFile
    BY <1>3, <1>5
<1> QED BY <1>1, <1>2, <1>4, <1>6, <1>7 DEF Editing, WithFile

\* A change of scope makes the page render: the editor knows that it was the cause.
LEMMA ScopeStep ==
    ASSUME SaveInv, changeScopeType
    PROVE  SaveInv' /\ form'.edit = form.edit + 1
<1>1. PICK value \in Scopes :
        /\ ~Editing /\ CanEdit
        /\ willUpdate([page EXCEPT !.scope = value],
                      [form EXCEPT !.scope = value, !.edit = @ + 1], TRUE)
    BY DEF changeScopeType
<1> DEFINE p == [page EXCEPT !.scope = value]
           new == [form EXCEPT !.scope = value, !.edit = @ + 1]
<1>2. p \in Page /\ (~p.org => p.defaults = "old")
    BY DEF SaveInv, InitialIsPages, Page
<1>3. /\ new \in Form /\ new.edit = form.edit + 1 /\ new.file = form.file
      /\ new.stored = form.stored /\ new.withFile = form.withFile
    BY <1>1, CanEditNoted DEF SaveInv, Types, Form
<1>4. new.edit # 0
    BY <1>1, <1>3, CanEditNoted
<1> HIDE DEF p, new
<1>5. /\ InitialIsPages' /\ updatingScopeType' \in BOOLEAN
      /\ Editing' = Editing /\ WithFile' = WithFile /\ form' = new
      /\ UNCHANGED <<mounted, isSubmitting, saveAndRun, isCrawlRunning, subs, status, server,
                     crawls, told>>
    BY <1>1, <1>2, <1>3, <1>4, RenderStep DEF p, new
<1>6. "edit" \in lapses' => ~Without({"edit", "defaults"})'
    BY DEF Without
<1>7. SaveInv'
    BY <1>1, <1>3, <1>4, <1>5, <1>6, CanEditNoted, FormStep
<1> QED BY <1>3, <1>5, <1>7

\* The user guide is opened: what the page makes is what it made before.
LEMMA GuideStep ==
    ASSUME SaveInv, OpenGuide
    PROVE  SaveInv' /\ form' = form
<1> DEFINE p == [page EXCEPT !.guide = ~@]
<1>1. p \in Page /\ (~p.org => p.defaults = "old") /\ Initial(p) = Initial(page)
    BY DEF SaveInv, InitialIsPages, Page, Initial
<1>2. /\ ~Editing /\ mounted /\ lapses' = lapses /\ lapses \subseteq Lapses
      /\ form \in Form /\ (form.edit = 0 => form.file # "chosen") /\ updatingScopeType \in BOOLEAN
      /\ willUpdate(p, form, updatingScopeType) /\ initialWorkflow = Initial(p)
    BY <1>1 DEF OpenGuide, SaveInv, Types, InitialIsPages
<1> HIDE DEF p
<1>3. /\ InitialIsPages' /\ updatingScopeType' \in BOOLEAN
      /\ Editing' = Editing /\ WithFile' = WithFile /\ form' = form
      /\ UNCHANGED <<mounted, isSubmitting, saveAndRun, isCrawlRunning, subs, status, server,
                     crawls, told>>
    BY <1>1, <1>2, RenderStep
<1>4. SaveInv'
    BY <1>2, <1>3, FormStep
<1> QED BY <1>3, <1>4

\* The org comes: other defaults make another initial workflow, which is a lapse once
\* something was entered.
LEMMA OrgStep ==
    ASSUME SaveInv, updateOrg
    PROVE  SaveInv' /\ (form'.edit < form.edit => "defaults" \in lapses')
<1>1. PICK defaults \in {"old", "new"} :
        /\ LapseIf(defaults = "new" /\ form.edit > 0, "defaults")
        /\ willUpdate([page EXCEPT !.org = TRUE, !.defaults = defaults], form, updatingScopeType)
    BY DEF updateOrg
<1> DEFINE p == [page EXCEPT !.org = TRUE, !.defaults = defaults]
<1>2. /\ p \in Page /\ p.org /\ (defaults = "old" => Initial(p) = initialWorkflow)
    BY DEF updateOrg, SaveInv, InitialIsPages, Page, Initial
<1>3. /\ ~Editing /\ mounted /\ form \in Form /\ (form.edit = 0 => form.file # "chosen")
      /\ updatingScopeType \in BOOLEAN
    BY DEF updateOrg, SaveInv, Types
<1>4. /\ lapses \subseteq lapses' /\ lapses' \subseteq Lapses
      /\ defaults = "new" /\ form.edit > 0 => "defaults" \in lapses'
    BY <1>1, LapseNoted DEF SaveInv, Lapses
<1> HIDE DEF p
<1>5. /\ InitialIsPages' /\ updatingScopeType' \in BOOLEAN
      /\ form' \in Form /\ (form'.edit = 0 => form'.file # "chosen")
      /\ Editing' = Editing /\ WithFile' = WithFile /\ form'.edit \in {form.edit, 0}
      /\ defaults = "old" => form' = form
      /\ UNCHANGED <<mounted, isSubmitting, saveAndRun, isCrawlRunning, subs, status, server,
                     crawls, told>>
  <2>1. willUpdate(p, form, updatingScopeType) /\ form.stored = form.stored
    BY <1>1 DEF p
  <2> QED BY <1>2, <1>3, <2>1, RenderStep
<1>6. form.edit = 0 \/ form.edit > 0
    BY <1>3 DEF Form
<1>7. Submitting /\ Without({"edit", "defaults"})' =>
         form'.edit = form.edit /\ (form.file = "chosen" => form'.file = "chosen")
    BY <1>3, <1>4, <1>5, <1>6 DEF Without
<1>8. SaveInv'
    BY <1>3, <1>4, <1>5, <1>7, FormStep
<1>9. form'.edit < form.edit => "defaults" \in lapses'
    BY <1>3, <1>4, <1>5, <1>6 DEF Form
<1> QED BY <1>8, <1>9

-----------------------------------------------------------------------------
(* onSubmit.                                                                 *)

\* A call begins: unless it is a lapse, there is no other.
LEMMA BeginStep ==
    ASSUME SaveInv, NEW run \in BOOLEAN, mounted, Begin(run), saveAndRun' = run,
           lapses \subseteq lapses', lapses' \subseteq Lapses,
           Submitting /\ Without({"again"}) => "again" \in lapses',
           UNCHANGED <<form, mounted, isSubmitting, isCrawlRunning, page, initialWorkflow, updatingScopeType,
                       status, server, crawls, told>>
    PROVE  SaveInv'
<1> USE DEF SaveInv
<1>1. PICK i \in Ids : /\ subs[i].pc = "idle"
                       /\ subs' = [subs EXCEPT ![i] = [Idle EXCEPT !.pc = "valid", !.run = run]]
    BY DEF Begin
<1> DEFINE s == [Idle EXCEPT !.pc = "valid", !.run = run]
<1>2. s \in Sub /\ s.pc = "valid" /\ s.run = run
  <2>1. Idle \in Sub
    BY IdleType
  <2> QED BY <2>1 DEF Sub, Started
<1> HIDE DEF s
<1>3. /\ subs' \in [Ids -> Sub] /\ subs'[i].pc = "valid" /\ subs'[i].run = run
      /\ \A j \in Ids : j # i => subs'[j] = subs[j]
    BY <1>1, <1>2, SetSub DEF s
<1>4. Editing' = Editing /\ WithFile' = WithFile
    BY DEF Editing, WithFile
<1>5. Without({"again"})' => \A j \in Ids : subs[j].pc \notin Started
    BY WithoutBefore DEF Without, Submitting
<1>6. \A j \in Ids : Saved(j)' => Saved(j)
    BY <1>3 DEF Saved
<1>7. \A j \in Ids : Saved(j) => Saved(j)' /\ j # i
    BY <1>1, <1>3 DEF Saved
<1>8. Types'
    BY <1>3, <1>4 DEF Types
<1>9. OneCall'
    BY <1>3, <1>5, WithoutBefore DEF OneCall, Without, Started
<1>10. StoredByCall'
  <2> SUFFICES ASSUME ~Editing, Without({"again", "answer"})'
               PROVE  server.workflows = 0
    BY <1>4 DEF StoredByCall
  <2>1. \A j \in Ids : ~Saved(j)
    BY <1>5 DEF Saved, Started, Without
  <2> QED BY <2>1, WithoutBefore DEF StoredByCall
<1>11. StartsFree' /\ FlagIsCalls'
    BY <1>3, <1>4, <1>5, WithoutBefore DEF StartsFree, Adding, Active, FlagIsCalls, Without, Started
<1>12. FormStays' /\ FileStays'
    BY <1>3, <1>4, <1>6, WithoutBefore DEF FormStays, FileStays
<1>13. InitialIsPages' /\ OneWorkflow' /\ OneCrawl' /\ RunAsAsked' /\ NeverEmpty'
    BY <1>3, <1>4, WithoutBefore DEF InitialIsPages, OneWorkflow, OneCrawl, Active, RunAsAsked,
        NeverEmpty
<1> QED BY <1>8, <1>9, <1>10, <1>11, <1>12, <1>13

LEMMA SubmitStep ==
    ASSUME SaveInv, NEW run \in BOOLEAN, ClickSubmit(run) \/ onKeyDown(run)
    PROVE  SaveInv'
<1>1. CASE ClickSubmit(run)
  <2>1. /\ lapses \subseteq lapses' /\ lapses' \subseteq Lapses
        /\ (\E i \in Ids : subs[i].pc = "valid") => "again" \in lapses'
    BY <1>1, LapseNoted DEF ClickSubmit, SaveInv, Lapses
  <2>2. Submitting /\ Without({"again"}) => "again" \in lapses'
    BY <1>1, <2>1 DEF ClickSubmit, Submitting, SaveInv, OneCall
  <2> QED BY <1>1, <2>1, <2>2, BeginStep DEF ClickSubmit, initial
<1>2. CASE onKeyDown(run)
  <2>1. /\ lapses \subseteq lapses' /\ lapses' \subseteq Lapses
        /\ Submitting \/ isSubmitting => "again" \in lapses'
    BY <1>2, LapseNoted DEF onKeyDown, SaveInv, Lapses
  <2> QED BY <1>2, <2>1, BeginStep DEF onKeyDown, initial
<1> QED BY <1>1, <1>2


\* checkFormValidity, createCollection: the call ends, or goes on to what comes next.
LEMMA ValidatedStep ==
    ASSUME SaveInv, NEW i \in Ids, Validated(i)
    PROVE  SaveInv'
<1> USE DEF SaveInv
<1>1. /\ subs[i].pc = "valid" /\ subs[i] \in Sub
      /\ UNCHANGED <<form, mounted, saveAndRun, isCrawlRunning, page, initialWorkflow, updatingScopeType,
                     status, server, crawls, told, lapses>>
      /\ Editing' = Editing /\ WithFile' = WithFile
    BY DEF Validated, initial, Types, Editing, WithFile
<1>2. CASE subs' = [subs EXCEPT ![i].pc = "done"] /\ UNCHANGED isSubmitting
  <2>1. /\ subs' \in [Ids -> Sub] /\ subs'[i].pc = "done"
        /\ \A j \in Ids : j # i => subs'[j] = subs[j]
    BY <1>1, <1>2 DEF Types, Sub
  <2>2. Types'
    BY <1>1, <1>2, <2>1 DEF Types
  <2>3. OneCall' /\ StoredByCall' /\ StartsFree' /\ FlagIsCalls' /\ InitialIsPages'
    BY <1>1, <1>2, <2>1 DEF OneCall, StoredByCall, Saved, StartsFree, Adding, Active,
        FlagIsCalls, InitialIsPages, Without, Started
  <2>4. FormStays' /\ FileStays' /\ OneWorkflow' /\ OneCrawl' /\ RunAsAsked' /\ NeverEmpty'
    BY <1>1, <2>1 DEF FormStays, FileStays, Saved, OneWorkflow, OneCrawl, Active, RunAsAsked,
        NeverEmpty, Without
  <2> QED BY <2>2, <2>3, <2>4
<1>3. CASE /\ ~(WithFile /\ form.file = "none")
           /\ subs' = [subs EXCEPT ![i] = IF form.coll = "new" THEN [@ EXCEPT !.pc = "coll"]
                                          ELSE SendOrUpload(@)]
           /\ isSubmitting' = TRUE
  <2> DEFINE s == IF form.coll = "new" THEN [subs[i] EXCEPT !.pc = "coll"]
                                       ELSE SendOrUpload(subs[i])
  <2>1. /\ s \in Sub /\ s.run = subs[i].run /\ s.pc \in {"coll", "upload", "sent"}
        /\ s.pc = "upload" => form.file = "chosen"
        /\ s.pc = "sent" => form.file # "chosen" /\ s.req = Request(form.file)
    BY <1>1, SendsOrUploads DEF Sub, Started
  <2> HIDE DEF s
  <2>2. /\ subs' \in [Ids -> Sub] /\ subs'[i] = s
        /\ \A j \in Ids : j # i => subs'[j] = subs[j]
    BY <1>3, <2>1, SetSub DEF s
  <2>3. s.pc = "sent" => /\ s.req.edit = form.edit /\ s.req.file = form.file
                         /\ Without({"again"}) => (s.req.runNow \/ s.req.updateRunning) = s.run
    BY <1>1, <2>1, RequestType, SentAsAsked DEF Types, Form
  <2>4. Types'
    BY <1>1, <1>3, <2>2 DEF Types
  <2>5. OneCall' /\ StoredByCall' /\ StartsFree' /\ FlagIsCalls' /\ InitialIsPages'
    BY <1>1, <1>3, <2>1, <2>2 DEF OneCall, StoredByCall, Saved, StartsFree, Adding, Active,
        FlagIsCalls, InitialIsPages, Without, Started
  <2>6. FormStays' /\ FileStays' /\ OneWorkflow' /\ OneCrawl' /\ RunAsAsked' /\ NeverEmpty'
    BY <1>1, <1>3, <2>1, <2>2, <2>3 DEF FormStays, FileStays, Saved, OneWorkflow, OneCrawl,
        Active, RunAsAsked, NeverEmpty, Without
  <2> QED BY <2>4, <2>5, <2>6
<1> QED BY <1>2, <1>3 DEF Validated

LEMMA CollectionStep ==
    ASSUME SaveInv, NEW i \in Ids, CollectionCreated(i) \/ CollectionFails(i)
    PROVE  SaveInv'
<1> USE DEF SaveInv
<1>1. CASE CollectionCreated(i)
  <2>1. /\ subs[i].pc = "coll" /\ subs[i] \in Sub
        /\ UNCHANGED <<mounted, isSubmitting, saveAndRun, isCrawlRunning, page, initialWorkflow,
                       updatingScopeType, status, server, crawls, told, lapses>>
        /\ form' = [form EXCEPT !.coll = "made"] /\ form' \in Form
        /\ Editing' = Editing /\ WithFile' = WithFile
        /\ form'.edit = form.edit /\ form'.file = form.file
    BY <1>1 DEF CollectionCreated, initial, Types, Form, Editing, WithFile
  <2> DEFINE s == SendOrUpload(subs[i])
  <2>2. /\ s \in Sub /\ s.run = subs[i].run /\ s.pc \in {"upload", "sent"}
        /\ s.pc = "upload" => form.file = "chosen"
        /\ s.pc = "sent" => form.file # "chosen" /\ s.req = Request(form.file)
    BY <2>1, SendsOrUploads
  <2>3. subs' = [subs EXCEPT ![i] = s]
    BY <1>1 DEF CollectionCreated
  <2> HIDE DEF s
  <2>4. /\ subs' \in [Ids -> Sub] /\ subs'[i] = s
        /\ \A j \in Ids : j # i => subs'[j] = subs[j]
    BY <2>2, <2>3, SetSub
  <2>5. s.pc = "sent" => /\ s.req.edit = form.edit /\ s.req.file = form.file
                         /\ Without({"again"}) => (s.req.runNow \/ s.req.updateRunning) = s.run
    BY <2>1, <2>2, RequestType, SentAsAsked DEF Types, Form
  <2>6. Types'
    BY <2>1, <2>4 DEF Types
  <2>7. OneCall' /\ StoredByCall' /\ StartsFree' /\ FlagIsCalls' /\ InitialIsPages'
    BY <2>1, <2>2, <2>4 DEF OneCall, StoredByCall, Saved, StartsFree, Adding, Active,
        FlagIsCalls, InitialIsPages, Without, Started
  <2>8. FormStays' /\ FileStays' /\ OneWorkflow' /\ OneCrawl' /\ RunAsAsked' /\ NeverEmpty'
    BY <2>1, <2>2, <2>4, <2>5 DEF FormStays, FileStays, Saved, OneWorkflow, OneCrawl,
        Active, RunAsAsked, NeverEmpty, Without
  <2> QED BY <2>6, <2>7, <2>8
<1>2. CASE CollectionFails(i)
  <2>1. /\ UNCHANGED <<form, mounted, isSubmitting, saveAndRun, isCrawlRunning,
                       page, initialWorkflow, updatingScopeType, status, server, crawls, told>>
        /\ lapses \subseteq lapses' /\ lapses' \subseteq Lapses
        /\ Editing' = Editing /\ WithFile' = WithFile
    BY <1>2 DEF CollectionFails, Lapse, Lapses, Types, editor, initial, Editing, WithFile
  <2>2. /\ subs' \in [Ids -> Sub] /\ subs'[i].pc = "dead"
        /\ \A j \in Ids : j # i => subs'[j] = subs[j]
    BY <1>2 DEF CollectionFails, Types, Sub
  <2>3. Types'
    BY <2>1, <2>2 DEF Types
  <2>4. OneCall' /\ StoredByCall' /\ StartsFree' /\ FlagIsCalls' /\ InitialIsPages'
    BY <1>2, <2>1, <2>2, WithoutBefore DEF CollectionFails, OneCall, StoredByCall, Saved,
        StartsFree, Adding, Active, FlagIsCalls, InitialIsPages, Started
  <2>5. FormStays' /\ FileStays' /\ OneWorkflow' /\ OneCrawl' /\ RunAsAsked' /\ NeverEmpty'
    BY <2>1, <2>2, WithoutBefore DEF FormStays, FileStays, Saved, OneWorkflow, OneCrawl,
        Active, RunAsAsked, NeverEmpty
  <2> QED BY <2>3, <2>4, <2>5
<1> QED BY <1>1, <1>2

\* uploadSeedFile: one that fails is a lapse, and the workflow is sent without its file.
LEMMA UploadStep ==
    ASSUME SaveInv, NEW i \in Ids, Uploaded(i) \/ UploadFails(i)
    PROVE  SaveInv'
<1> USE DEF SaveInv
<1>1. PICK file \in {"none", "new"} :
        /\ subs[i].pc = "upload"
        /\ subs' = [subs EXCEPT ![i].pc = "sent", ![i].req = Request(file)]
        /\ lapses \subseteq lapses' /\ lapses' \subseteq Lapses
        /\ file = "none" => "upload" \in lapses'
        /\ told' \in {told, "upload failed"}
        /\ UNCHANGED <<form, mounted, isSubmitting, saveAndRun, isCrawlRunning,
                       page, initialWorkflow, updatingScopeType, status, server, crawls>>
        /\ Editing' = Editing /\ WithFile' = WithFile
    BY DEF Uploaded, UploadFails, Lapse, Lapses, Types, editor, initial, Editing, WithFile
<1>2. /\ Request(file) \in Req /\ Request(file).edit = form.edit /\ Request(file).file = file
      /\ Without({"again"}) => (Request(file).runNow \/ Request(file).updateRunning) = subs[i].run
    BY <1>1, RequestType, SentAsAsked
<1>3. /\ subs' \in [Ids -> Sub]
      /\ subs'[i].pc = "sent" /\ subs'[i].req = Request(file) /\ subs'[i].run = subs[i].run
      /\ \A j \in Ids : j # i => subs'[j] = subs[j]
    BY <1>1, <1>2 DEF Types, Sub, Started
<1>4. Types'
    BY <1>1, <1>3 DEF Types
<1>5. OneCall' /\ StoredByCall' /\ StartsFree' /\ FlagIsCalls' /\ InitialIsPages'
  <2>1. FlagIsCalls' /\ InitialIsPages'
    BY <1>1, <1>3, WithoutBefore DEF FlagIsCalls, InitialIsPages
  <2>2. \A j \in Ids : subs'[j].pc \in Started => subs[j].pc \in Started
    BY <1>1, <1>3 DEF Started
  <2>3. OneCall'
    <3> SUFFICES ASSUME Without({"again"})' PROVE OneCall'
        BY DEF OneCall
    <3>1. subs[i].pc \in Started \ {"valid"}
        BY <1>1 DEF Started
    <3>2. /\ isSubmitting
          /\ \A j, k \in Ids : subs[j].pc \in Started /\ subs[k].pc \in Started => j = k
          /\ told \notin {"saved", "started"}
        BY <1>1, <3>1, WithoutBefore DEF OneCall
    <3> QED BY <1>1, <2>2, <3>2 DEF OneCall
  <2>4. \A j \in Ids : Saved(j)' => Saved(j) /\ j # i
    BY <1>1, <1>3 DEF Saved
  <2>5. \A j \in Ids : Saved(j) => Saved(j)'
    BY <1>1, <1>3 DEF Saved
  <2>6. StoredByCall'
    BY <1>1, <1>3, <2>2, <2>4, <2>5, WithoutBefore DEF StoredByCall, Started
  <2>7. StartsFree'
    BY <1>1, <1>3, WithoutBefore DEF StartsFree, Adding, Active
  <2> QED BY <2>1, <2>3, <2>6, <2>7
<1>6. FormStays'
  <2>1. /\ \A j \in Ids : Saved(j)' => Saved(j)
        /\ told' \in {"saved", "started"} => told' = told
        /\ \A j \in Ids : subs'[j].pc = "sent" =>
              subs'[j].req.edit = form.edit \/ (subs[j].pc = "sent" /\ subs'[j] = subs[j])
    BY <1>1, <1>2, <1>3 DEF Saved
  <2> QED BY <1>1, <2>1, WithoutBefore DEF FormStays
<1>7. RunAsAsked'
  <2> SUFFICES ASSUME NEW j \in Ids, Without({"again"})',
                      subs'[j].pc \in {"sent", "check", "start", "insert", "reply"}
               PROVE  (subs'[j].req.runNow \/ subs'[j].req.updateRunning) = subs'[j].run
    BY DEF RunAsAsked
  <2>1. Without({"again"})
    BY <1>1, WithoutBefore
  <2>2. CASE j = i
    BY <1>2, <1>3, <2>1, <2>2
  <2>3. CASE j # i
    BY <1>3, <2>1, <2>3 DEF RunAsAsked
  <2> QED BY <2>2, <2>3
<1>8. OneWorkflow' /\ OneCrawl' /\ NeverEmpty'
    BY <1>1, WithoutBefore DEF OneWorkflow, OneCrawl, Active, NeverEmpty
<1>9. FileStays'
  <2>1. Without({"upload", "edit"})' => file = "new"
    BY <1>1 DEF Without
  <2> QED BY <1>1, <1>2, <1>3, <2>1, WithoutBefore DEF FileStays
<1> QED BY <1>4, <1>5, <1>6, <1>7, <1>8, <1>9

-----------------------------------------------------------------------------
(* The server.                                                               *)

\* add_crawl_config, update_crawl_config: a workflow is stored, the first of a new one
\* unless the form was submitted again or an answer was lost.
LEMMA ServerSavesStep ==
    ASSUME SaveInv, NEW i \in Ids, ServerSaves(i)
    PROVE  SaveInv'
<1> USE DEF SaveInv
<1> DEFINE req == subs[i].req
<1>1. /\ subs[i].pc = "sent" /\ subs[i] \in Sub /\ req \in Req
      /\ UNCHANGED <<form, mounted, isSubmitting, saveAndRun, isCrawlRunning,
                     page, initialWorkflow, updatingScopeType, status, crawls, told, lapses>>
      /\ Editing' = Editing /\ WithFile' = WithFile
    BY DEF ServerSaves, Types, Sub, editor, initial, Editing, WithFile
<1>2. CASE Answered(i, "error") /\ UNCHANGED server
  <2>1. /\ subs' \in [Ids -> Sub] /\ subs'[i].pc = "reply" /\ subs'[i].answer = "error"
        /\ subs'[i].req = req /\ subs'[i].run = subs[i].run
        /\ \A j \in Ids : j # i => subs'[j] = subs[j]
    BY <1>1, <1>2 DEF Answered, Types, Sub, Started
  <2>2. Types'
    BY <1>1, <1>2, <2>1 DEF Types
  <2>3. OneCall' /\ StoredByCall' /\ StartsFree' /\ FlagIsCalls' /\ InitialIsPages'
    BY <1>1, <1>2, <2>1 DEF OneCall, StoredByCall, Saved, StartsFree, Adding, Active,
        FlagIsCalls, InitialIsPages, Without, Started
  <2>4. FormStays' /\ FileStays' /\ OneWorkflow' /\ OneCrawl' /\ RunAsAsked' /\ NeverEmpty'
    BY <1>1, <1>2, <2>1 DEF FormStays, FileStays, Saved, OneWorkflow, OneCrawl, Active, RunAsAsked,
        NeverEmpty, Without
  <2> QED BY <2>2, <2>3, <2>4
<1>3. CASE /\ ~Refuses(req)
           /\ server' = [server EXCEPT !.workflows = IF Editing THEN @ ELSE @ + 1,
                                       !.edit = req.edit, !.file = req.file]
           /\ IF req.runNow THEN subs' = [subs EXCEPT ![i].pc = "check"] ELSE Answered(i, "saved")
  <2>1. /\ subs' \in [Ids -> Sub] /\ Saved(i)' /\ subs'[i].pc \in {"check", "reply"}
        /\ subs'[i].req = req /\ subs'[i].run = subs[i].run
        /\ \A j \in Ids : j # i => subs'[j] = subs[j]
    BY <1>1, <1>3 DEF Answered, Types, Sub, Started, Saved
  <2>2. /\ server'.edit = req.edit /\ server'.file = req.file
        /\ server'.workflows = IF Editing THEN server.workflows ELSE server.workflows + 1
        /\ server.workflows \in Nat /\ Active \in Nat /\ Active' = Active
    BY <1>1, <1>3, ActiveType DEF Types, Server, Active
  <2>3. server' \in Server
    <3> DEFINE w == IF Editing THEN server.workflows ELSE server.workflows + 1
    <3>1. w \in Nat /\ req.edit \in 0..MaxEdits /\ req.file \in {"none", "old", "new"}
        BY <1>1, <2>2 DEF Req
    <3>2. server' = [server EXCEPT !.workflows = w, !.edit = req.edit, !.file = req.file]
        BY <1>3
    <3> HIDE DEF w, req
    <3> QED BY <3>1, <3>2 DEF Types, Server
  <2>4. \A j \in Ids : Saved(j) => j # i /\ Saved(j)'
    BY <1>1, <2>1 DEF Saved
  <2>5. \A j \in Ids : Without({"again"}) /\ j # i => subs'[j].pc \notin Started
    BY <1>1, <2>1 DEF OneCall, Started
  <2>6. Types'
    BY <1>1, <2>1, <2>2, <2>3 DEF Types
  <2>7. OneCall' /\ FlagIsCalls' /\ InitialIsPages' /\ RunAsAsked'
    BY <1>1, <2>1 DEF OneCall, FlagIsCalls, InitialIsPages, RunAsAsked, Without, Started
  <2>8. StoredByCall' /\ OneWorkflow'
    BY <1>1, <2>1, <2>2, <2>5 DEF StoredByCall, OneWorkflow, Without, Saved, Started, Types
  <2>9. StartsFree' /\ OneCrawl'
    BY <1>1, <2>1, <2>2, <2>5 DEF StartsFree, Adding, OneCrawl, Without, Started, Types
  <2>10. FormStays'
    BY <1>1, <2>1, <2>2, <2>5 DEF FormStays, Saved, Without, Started
  <2>11. FileStays' /\ NeverEmpty'
    BY <1>1, <1>3, <2>1, <2>2 DEF FileStays, NeverEmpty, Refuses, Without
  <2> QED BY <2>6, <2>7, <2>8, <2>9, <2>10, <2>11
<1> QED BY <1>2, <1>3 DEF ServerSaves

\* run_now_internal: no crawl is started where there was one that the server looked for,
\* unless a schedule has started it since; a run that is refused has its workflow stored.
LEMMA ServerChecksStep ==
    ASSUME SaveInv, NEW i \in Ids, ServerChecks(i) \/ RunRefused(i)
    PROVE  SaveInv'
<1> USE DEF SaveInv
<1>1. /\ subs[i].pc \in {"check", "start"} /\ subs[i] \in Sub
      /\ UNCHANGED <<form, mounted, isSubmitting, saveAndRun, isCrawlRunning, page,
                     initialWorkflow, updatingScopeType, status, server, crawls, told>>
      /\ Editing' = Editing /\ WithFile' = WithFile /\ Active' = Active
    BY DEF ServerChecks, RunRefused, Types, editor, initial, Editing, WithFile, Active
<1>2. /\ lapses \subseteq lapses' /\ lapses' \subseteq Lapses
      /\ subs'[i].pc = "start" =>
            /\ subs[i].pc = "check" /\ ~(Editing /\ Active = 1)
            /\ crawls.cron = "insert" => "schedule" \in lapses'
  <2>1. CASE ServerChecks(i) /\ Editing /\ Active = 1
    BY <2>1 DEF ServerChecks, Answered, Types, Sub
  <2>2. CASE ServerChecks(i) /\ ~(Editing /\ Active = 1)
    <3>1. LapseIf(crawls.cron = "insert", "schedule") /\ subs[i].pc = "check"
        BY <2>2 DEF ServerChecks
    <3> QED BY <2>2, <3>1, LapseNoted DEF Lapses
  <2>3. CASE RunRefused(i)
    BY <2>3 DEF RunRefused, Answered, Types, Sub
  <2> QED BY <2>1, <2>2, <2>3
<1>3. /\ subs' \in [Ids -> Sub] /\ subs'[i].req = subs[i].req /\ subs'[i].run = subs[i].run
      /\ subs'[i].pc \in {"start", "reply"}
      /\ ~Editing => Saved(i)'
      /\ \A j \in Ids : j # i => subs'[j] = subs[j]
  <2>1. CASE subs' = [subs EXCEPT ![i].pc = "start"]
    BY <1>1, <2>1 DEF Types, Sub, Started, Saved
  <2>2. ASSUME NEW a \in {"running", "error", "saved"}, Answered(i, a), ~Editing => a = "saved"
        PROVE  /\ subs' \in [Ids -> Sub] /\ subs'[i].req = subs[i].req
               /\ subs'[i].run = subs[i].run /\ subs'[i].pc = "reply" /\ subs'[i].answer = a
               /\ \A j \in Ids : j # i => subs'[j] = subs[j]
    BY <1>1, <2>2 DEF Answered, Types, Sub, Started
  <2>3. CASE \E a \in {"running", "error", "saved"} : Answered(i, a) /\ (~Editing => a = "saved")
    BY <2>2, <2>3 DEF Saved
  <2> QED BY <2>1, <2>3 DEF ServerChecks, RunRefused
<1>4. \A j \in Ids : j # i => Saved(j)' = Saved(j)
    BY <1>3 DEF Saved
<1>5. Types'
    BY <1>1, <1>2, <1>3 DEF Types
<1>6. OneCall' /\ FlagIsCalls' /\ InitialIsPages' /\ RunAsAsked'
    BY <1>1, <1>2, <1>3, WithoutBefore DEF OneCall, FlagIsCalls, InitialIsPages, RunAsAsked, Started
<1>7. StoredByCall' /\ OneWorkflow'
    BY <1>1, <1>2, <1>3, <1>4, WithoutBefore DEF StoredByCall, OneWorkflow, Saved
<1>8. FormStays'
  <2>1. Saved(i)
    BY <1>1 DEF Saved
  <2> QED BY <1>1, <1>2, <1>3, <1>4, <2>1, WithoutBefore DEF FormStays
<1>9. FileStays' /\ NeverEmpty' /\ OneCrawl'
    BY <1>1, <1>2, <1>3, WithoutBefore DEF FileStays, NeverEmpty, OneCrawl
<1>10. StartsFree'
  <2> SUFFICES ASSUME Without({"again", "schedule"})' PROVE StartsFree'
    BY DEF StartsFree
  <2>1. /\ Without({"again", "schedule"}) /\ Active \in Nat /\ Active <= server.workflows
        /\ Editing => server.workflows = 1
    BY <1>2, WithoutBefore, ActiveType DEF OneCrawl, Types
  <2>2. subs'[i].pc = "start" => Active + 1 <= server.workflows /\ crawls.cron # "insert"
    <3>1. subs'[i].pc = "start" => "schedule" \notin lapses' /\ crawls.cron # "insert"
        BY <1>2 DEF Without
    <3> QED BY <1>2, <2>1, <3>1 DEF StartsFree
  <2>3. subs'[i].pc # "start" => ~Adding(i)' /\ subs'[i].pc # "check"
    BY <1>3 DEF Adding
  <2>4. \A j \in Ids : j # i => Adding(j)' = Adding(j)
    BY <1>3 DEF Adding
  <2>5. crawls.cron = "insert" => \A j \in Ids : ~Adding(j)'
    BY <2>1, <2>2, <2>3, <2>4, <1>3 DEF StartsFree
  <2> QED BY <1>1, <1>3, <2>1, <2>2, <2>3, <2>4, <2>5 DEF StartsFree
<1> QED BY <1>5, <1>6, <1>7, <1>8, <1>9, <1>10

\* The crawl of a run is added in two steps: it is noted in the workflow, then inserted.
LEMMA ServerRunsStep ==
    ASSUME SaveInv, NEW i \in Ids, ServerStarts(i) \/ ServerInserts(i)
    PROVE  SaveInv'
<1> USE DEF SaveInv
<1>1. /\ Adding(i) /\ Saved(i) /\ subs[i] \in Sub
      /\ UNCHANGED <<form, mounted, isSubmitting, saveAndRun, isCrawlRunning, page,
                     initialWorkflow, updatingScopeType, status, told, lapses>>
      /\ Editing' = Editing /\ WithFile' = WithFile
    BY DEF ServerStarts, ServerInserts, Adding, Saved, Types, editor, initial, Editing, WithFile
<1>2. /\ subs' \in [Ids -> Sub] /\ subs'[i].req = subs[i].req /\ subs'[i].run = subs[i].run
      /\ Saved(i)' /\ subs'[i].pc \in {"insert", "reply"}
      /\ \A j \in Ids : j # i => subs'[j] = subs[j]
    BY <1>1 DEF ServerStarts, ServerInserts, Answered, Types, Sub, Started, Saved
<1>3. /\ server' \in Server /\ crawls' \in Crawls /\ crawls'.cron = crawls.cron
      /\ server'.workflows = server.workflows /\ server'.edit = server.edit
      /\ server'.file = server.file /\ server.workflows \in Nat /\ Active \in Nat
      /\ \/ subs'[i].pc = "insert" /\ Active' = Active
         \/ subs'[i].pc = "reply" /\ Active' = Active + 1
  <2>1. Active \in Nat
    BY ActiveType
  <2>2. CASE ServerStarts(i)
    BY <1>1, <2>1, <2>2 DEF ServerStarts, Types, Server, Crawls, Active, Sub
  <2>3. CASE ServerInserts(i)
    <3>1. /\ crawls' = [crawls EXCEPT !.manual = crawls.manual + 1] /\ server' = server
          /\ subs'[i].pc = "reply"
        BY <1>1, <2>3 DEF ServerInserts, Answered, Types, Sub
    <3>2. /\ crawls' \in Crawls /\ crawls'.cron = crawls.cron
          /\ crawls'.manual = crawls.manual + 1 /\ crawls.manual \in Nat
        BY <3>1 DEF Types, Crawls
    <3>3. Active' = Active + 1
        BY <3>2 DEF Active
    <3> QED BY <2>1, <3>1, <3>2, <3>3 DEF Types, Server
  <2> QED BY <2>2, <2>3
<1>4. \A j \in Ids : j # i => Saved(j)' = Saved(j) /\ Adding(j)' = Adding(j)
    BY <1>2 DEF Saved, Adding
<1>5. Types'
    BY <1>1, <1>2, <1>3 DEF Types
<1>6. OneCall' /\ FlagIsCalls' /\ InitialIsPages' /\ RunAsAsked'
    BY <1>1, <1>2 DEF OneCall, FlagIsCalls, InitialIsPages, RunAsAsked, Adding, Without, Started
<1>7. StoredByCall' /\ OneWorkflow'
    BY <1>1, <1>2, <1>3, <1>4 DEF StoredByCall, OneWorkflow, Without
<1>8. FormStays' /\ FileStays' /\ NeverEmpty'
    BY <1>1, <1>2, <1>3, <1>4 DEF FormStays, FileStays, NeverEmpty, Without
<1>9. StartsFree' /\ OneCrawl'
  <2> SUFFICES ASSUME Without({"again", "schedule"}) PROVE StartsFree' /\ OneCrawl'
    BY <1>1 DEF StartsFree, OneCrawl, Without
  <2>1. Active + 1 <= server.workflows /\ crawls.cron # "insert"
    BY <1>1 DEF StartsFree
  <2>2. \A j \in Ids : j # i => subs'[j].pc \notin Started
    BY <1>1, <1>2 DEF OneCall, Adding, Started, Without
  <2>3. OneCrawl'
    BY <1>1, <1>3, <2>1 DEF OneCrawl
  <2>4. \A j \in Ids : Adding(j)' \/ subs'[j].pc = "check" => j = i /\ subs'[i].pc = "insert"
    BY <1>2, <2>2 DEF Adding, Started
  <2>5. subs'[i].pc = "insert" => Active' + 1 <= server'.workflows
    BY <1>3, <2>1
  <2> QED BY <1>3, <2>1, <2>3, <2>4, <2>5 DEF StartsFree
<1> QED BY <1>5, <1>6, <1>7, <1>8, <1>9

\* A request that fails has stored nothing; an answer that is lost is a lapse.
LEMMA SaveFailsStep ==
    ASSUME SaveInv, NEW i \in Ids, SaveFails(i)
    PROVE  SaveInv'
<1> USE DEF SaveInv
<1>1. /\ subs[i].pc \in {"sent", "reply"} /\ subs[i] \in Sub
      /\ lapses \subseteq lapses' /\ lapses' \subseteq Lapses
      /\ subs[i].pc = "reply" => "answer" \in lapses'
      /\ UNCHANGED <<form, mounted, isSubmitting, saveAndRun, isCrawlRunning,
                     page, initialWorkflow, updatingScopeType, status, server, crawls, told>>
      /\ Editing' = Editing /\ WithFile' = WithFile
    BY DEF SaveFails, Lapse, Lapses, Types, editor, initial, Editing, WithFile
<1>2. /\ subs' \in [Ids -> Sub] /\ subs'[i].pc = "reply" /\ subs'[i].answer = "error"
      /\ subs'[i].req = subs[i].req /\ subs'[i].run = subs[i].run
      /\ \A j \in Ids : j # i => subs'[j] = subs[j]
    BY <1>1 DEF SaveFails, Answered, Types, Sub, Started
<1>3. Types'
    BY <1>1, <1>2 DEF Types
<1>4. OneCall' /\ StartsFree' /\ FlagIsCalls' /\ InitialIsPages'
    BY <1>1, <1>2, WithoutBefore DEF OneCall, StartsFree, Adding, Active, FlagIsCalls, InitialIsPages, Started
<1>5. StoredByCall'
    BY <1>1, <1>2, WithoutBefore DEF StoredByCall, Saved, Without, Started
<1>6. FormStays' /\ FileStays' /\ OneWorkflow' /\ OneCrawl' /\ RunAsAsked' /\ NeverEmpty'
    BY <1>1, <1>2, WithoutBefore DEF FormStays, FileStays, Saved, OneWorkflow, OneCrawl,
        Active, RunAsAsked, NeverEmpty
<1> QED BY <1>3, <1>4, <1>5, <1>6

\* The answer: with a workflow that was saved the page is left, and no call goes on.
LEMMA ReplyStep ==
    ASSUME SaveInv, NEW i \in Ids, Reply(i)
    PROVE  SaveInv'
<1> USE DEF SaveInv
<1>1. /\ subs[i].pc = "reply" /\ isSubmitting' = FALSE /\ told' = subs[i].answer
      /\ mounted' = (mounted /\ subs[i].answer \notin {"saved", "started"})
      /\ UNCHANGED <<form, saveAndRun, isCrawlRunning, page, initialWorkflow, updatingScopeType, status,
                     server, crawls, lapses>>
      /\ Editing' = Editing /\ WithFile' = WithFile
    BY DEF Reply, initial, Editing, WithFile
<1>2. /\ subs' \in [Ids -> Sub] /\ subs'[i].pc = "done"
      /\ \A j \in Ids : j # i => subs'[j] = subs[j]
    BY DEF Reply, Types, Sub
<1>3. \A j \in Ids : Without({"again"}) => subs'[j].pc \notin Started
    BY <1>1, <1>2 DEF OneCall, Started
<1>4. Types'
  <2>1. mounted' \in BOOLEAN
    BY <1>1 DEF Types
  <2> QED BY <1>1, <1>2, <2>1 DEF Types
<1>5. OneCall' /\ StartsFree' /\ FlagIsCalls' /\ InitialIsPages' /\ OneWorkflow' /\ OneCrawl'
    BY <1>1, <1>2, <1>3 DEF OneCall, StartsFree, Adding, Active, FlagIsCalls, InitialIsPages, OneWorkflow,
        OneCrawl, Without, Started
<1>6. StoredByCall'
  <2>1. ~Editing /\ Without({"again", "answer"}) /\ mounted' => server.workflows = 0
    BY <1>1 DEF StoredByCall, Saved, Started
  <2> QED BY <1>1, <1>2, <1>3, <2>1 DEF StoredByCall, Saved, Without, Started
<1>7. FormStays'
    BY <1>1, <1>2, <1>3 DEF FormStays, Saved, Without, Started
<1>8. FileStays' /\ RunAsAsked' /\ NeverEmpty'
    BY <1>1, <1>2 DEF FileStays, RunAsAsked, NeverEmpty, Without
<1> QED BY <1>4, <1>5, <1>6, <1>7, <1>8

-----------------------------------------------------------------------------
(* Crawls of the workflow, the poll of its status, and the page.             *)

\* A step of the crawls: fewer run than before, or a schedule's is about to be added (which
\* is a lapse beside another), or it is added.
LEMMA CrawlStep ==
    ASSUME SaveInv, crawls' \in Crawls, server' \in Server,
           server'.workflows = server.workflows, server'.edit = server.edit,
           server'.file = server.file, ~Editing => crawls'.cron = "idle",
           lapses \subseteq lapses', lapses' \subseteq Lapses,
           \/ Active' <= Active /\ (crawls'.cron = "insert" => crawls.cron = "insert")
           \/ /\ Active' = Active /\ Editing
              /\ Active > 0 \/ (\E i \in Ids : Adding(i)) => "schedule" \in lapses'
           \/ /\ Active' = Active + 1 /\ Editing
              /\ crawls.cron = "insert" /\ crawls'.cron = "running",
           UNCHANGED <<form, mounted, isSubmitting, saveAndRun, isCrawlRunning, page,
                       initialWorkflow, updatingScopeType, subs, status, told>>
    PROVE  SaveInv'
<1> USE DEF SaveInv
<1>1. Editing' = Editing /\ WithFile' = WithFile
    BY DEF Editing, WithFile
<1>2. Types'
    BY <1>1 DEF Types
<1>3. OneCall' /\ StoredByCall' /\ FlagIsCalls' /\ InitialIsPages' /\ OneWorkflow'
    BY <1>1, WithoutBefore DEF OneCall, StoredByCall, Saved, FlagIsCalls, InitialIsPages, OneWorkflow
<1>4. FormStays' /\ FileStays' /\ RunAsAsked' /\ NeverEmpty'
    BY <1>1, WithoutBefore DEF FormStays, FileStays, Saved, RunAsAsked, NeverEmpty
<1>5. /\ Active \in Nat /\ Active' \in Nat /\ server.workflows \in Nat
      /\ Editing => server.workflows = 1
  <2>1. Active' \in Nat
    BY DEF Crawls, Active
  <2> QED BY <2>1, ActiveType DEF Types, Server
<1>6. StartsFree' /\ OneCrawl'
  <2> SUFFICES ASSUME Without({"again", "schedule"})' PROVE StartsFree' /\ OneCrawl'
    BY DEF StartsFree, OneCrawl
  <2>1. /\ Without({"again", "schedule"}) /\ Active <= server.workflows
        /\ \A i \in Ids : Adding(i)' = Adding(i)
    BY WithoutBefore DEF OneCrawl, Adding
  <2>2. CASE Active' <= Active /\ (crawls'.cron = "insert" => crawls.cron = "insert")
    <3>1. Active' <= server'.workflows
          /\ (Active + 1 <= server.workflows => Active' + 1 <= server'.workflows)
        BY <1>5, <2>1, <2>2
    <3> QED BY <1>1, <2>1, <2>2, <3>1 DEF StartsFree, OneCrawl
  <2>3. CASE /\ Active' = Active /\ Editing
             /\ Active > 0 \/ (\E i \in Ids : Adding(i)) => "schedule" \in lapses'
    <3>1. Active = 0 /\ \A i \in Ids : ~Adding(i)
        BY <1>5, <2>3 DEF Without
    <3> QED BY <1>1, <1>5, <2>1, <2>3, <3>1 DEF StartsFree, OneCrawl
  <2>4. CASE /\ Active' = Active + 1 /\ Editing
             /\ crawls.cron = "insert" /\ crawls'.cron = "running"
    <3>1. Active + 1 <= server.workflows /\ \A i \in Ids : ~Adding(i)
        BY <2>1, <2>4 DEF StartsFree
    <3> QED BY <1>1, <2>1, <2>4, <3>1 DEF StartsFree, OneCrawl
  <2> QED BY <2>2, <2>3, <2>4
<1> QED BY <1>2, <1>3, <1>4, <1>6

LEMMA ScheduleStep ==
    ASSUME SaveInv, ScheduledCrawl \/ ScheduleInserts
    PROVE  SaveInv'
<1>0. crawls \in Crawls /\ server \in Server /\ lapses \subseteq Lapses
      /\ (~Editing => crawls.cron = "idle")
    BY DEF SaveInv, Types
<1>1. CASE ScheduledCrawl
  <2>1. /\ Editing /\ crawls.cron = "idle"
        /\ crawls' = [crawls EXCEPT !.cron = "insert", !.scheduled = crawls.scheduled + 1]
        /\ server' = [server EXCEPT !.isCrawlRunning = TRUE]
        /\ UNCHANGED <<form, mounted, isSubmitting, saveAndRun, isCrawlRunning, page,
                       initialWorkflow, updatingScopeType, subs, status, told>>
    BY <1>1 DEF ScheduledCrawl, editor, initial
  <2>2. /\ lapses \subseteq lapses' /\ lapses' \subseteq Lapses
        /\ Active > 0 \/ (\E i \in Ids : Adding(i)) => "schedule" \in lapses'
    BY <1>0, <1>1, LapseNoted DEF ScheduledCrawl, Lapses, Adding, SaveInv
  <2>3. crawls' \in Crawls /\ crawls'.manual = crawls.manual /\ crawls'.cron = "insert"
    <3> DEFINE n == crawls.scheduled + 1
    <3>1. n \in Nat /\ crawls' = [crawls EXCEPT !.cron = "insert", !.scheduled = n]
        BY <1>0, <2>1 DEF Crawls
    <3> HIDE DEF n
    <3> QED BY <1>0, <3>1 DEF Crawls
  <2>4. Active' = Active
    BY <2>1, <2>3 DEF Active
  <2>5. /\ server' \in Server /\ server'.workflows = server.workflows
        /\ server'.edit = server.edit /\ server'.file = server.file
    BY <1>0, <2>1 DEF Server
  <2> QED BY <2>1, <2>2, <2>3, <2>4, <2>5, CrawlStep
<1>2. CASE ScheduleInserts
  <2>1. /\ crawls.cron = "insert" /\ crawls' = [crawls EXCEPT !.cron = "running"]
        /\ UNCHANGED <<form, mounted, isSubmitting, saveAndRun, isCrawlRunning, page,
                       initialWorkflow, updatingScopeType, subs, status, server, told, lapses>>
    BY <1>2 DEF ScheduleInserts, editor, initial
  <2>2. /\ crawls' \in Crawls /\ Active' = Active + 1 /\ crawls'.cron = "running" /\ Editing
    BY <1>0, <2>1 DEF Crawls, Active
  <2> QED BY <1>0, <2>1, <2>2, CrawlStep
<1> QED BY <1>1, <1>2

LEMMA EndStep ==
    ASSUME SaveInv, CrawlEnds \/ stats_recompute_last
    PROVE  SaveInv'
<1>0. crawls \in Crawls /\ server \in Server /\ lapses \subseteq Lapses
      /\ (~Editing => crawls.cron = "idle")
    BY DEF SaveInv, Types
<1>1. UNCHANGED <<form, mounted, isSubmitting, saveAndRun, isCrawlRunning, page,
                  initialWorkflow, updatingScopeType, subs, status, told, lapses>>
    BY DEF CrawlEnds, stats_recompute_last, editor, initial
<1>2. CASE CrawlEnds
  <2>1. server' = server
    BY <1>2 DEF CrawlEnds
  <2>2. PICK state \in FinalStates :
          \/ /\ crawls.manual > 0
             /\ crawls' = [crawls EXCEPT !.manual = @ - 1, !.ended = @ + 1, !.last = state]
          \/ /\ crawls.cron = "running"
             /\ crawls' = [crawls EXCEPT !.cron = "idle", !.ended = @ + 1, !.last = state]
    BY <1>2 DEF CrawlEnds
  <2>3. /\ crawls.manual \in Nat /\ crawls.ended + 1 \in Nat
        /\ crawls.manual > 0 => crawls.manual - 1 \in Nat
    BY <1>0 DEF Crawls
  <2>4. /\ crawls' \in Crawls /\ crawls'.cron \in {crawls.cron, "idle"}
        /\ \/ crawls'.manual = crawls.manual - 1 /\ crawls'.cron = crawls.cron
           \/ crawls'.manual = crawls.manual /\ crawls'.cron = "idle"
    BY <1>0, <2>2, <2>3 DEF Crawls
  <2>5. Active' <= Active
    BY <2>3, <2>4 DEF Active
  <2> QED BY <1>0, <1>1, <2>1, <2>4, <2>5, CrawlStep
<1>3. CASE stats_recompute_last
  <2>1. /\ crawls' = [crawls EXCEPT !.ended = @ - 1] /\ crawls.ended > 0
        /\ \/ server' = server
           \/ server' = [server EXCEPT !.isCrawlRunning = FALSE, !.lastCrawlState = crawls.last]
    BY <1>3 DEF stats_recompute_last
  <2>2. /\ crawls' \in Crawls /\ crawls'.cron = crawls.cron /\ Active' = Active /\ Active \in Nat
    BY <1>0, <2>1 DEF Crawls, Active
  <2>3. /\ server' \in Server /\ server'.workflows = server.workflows
        /\ server'.edit = server.edit /\ server'.file = server.file
    BY <1>0, <2>1 DEF Crawls, Server
  <2> QED BY <1>0, <1>1, <2>2, <2>3, CrawlStep
<1> QED BY <1>2, <1>3

LEMMA PollStep ==
    ASSUME SaveInv, workflowTask \/ workflowTaskFails \/ pollTask \/ onReset
    PROVE  SaveInv'
<1> USE DEF SaveInv
<1>1. /\ lapses \subseteq lapses' /\ lapses' \subseteq Lapses
      /\ status' \in Status
      /\ isCrawlRunning' \in Polls
      /\ ~Editing => status'.pc = "off" /\ isCrawlRunning' = isCrawlRunning
      /\ mounted' \in BOOLEAN /\ (mounted' => mounted)
      /\ UNCHANGED <<form, isSubmitting, saveAndRun, page, initialWorkflow, updatingScopeType, subs,
                     server, crawls, told>>
  <2>1. CASE workflowTask
    <3>1. Answer.isCrawlRunning \in Polls /\ Answer.lastCrawlState \in {"none", "running"} \cup FinalStates
        BY DEF Answer, YesNo, Types, Server, Polls
    <3>2. status' \in Status /\ isCrawlRunning' \in Polls
        BY <2>1, <3>1 DEF workflowTask, Types, Status
    <3>3. Editing /\ lapses \subseteq lapses' /\ lapses' \subseteq Lapses
        BY <2>1 DEF workflowTask, Types, Lapses
    <3> QED BY <2>1, <3>2, <3>3 DEF workflowTask, Types, initial
  <2>2. CASE workflowTaskFails
    BY <2>2 DEF workflowTaskFails, Types, Status, Polls, editor, initial
  <2>3. CASE pollTask
    BY <2>3 DEF pollTask, Types, Status, editor, initial
  <2>4. CASE onReset
    BY <2>4 DEF onReset, Types, initial
  <2> QED BY <2>1, <2>2, <2>3, <2>4
<1>2. Editing' = Editing /\ WithFile' = WithFile
    BY <1>1 DEF Editing, WithFile
<1>3. Types'
    BY <1>1, <1>2 DEF Types
<1>4. OneCall' /\ StoredByCall' /\ StartsFree' /\ FlagIsCalls' /\ InitialIsPages'
    BY <1>1, <1>2, WithoutBefore DEF OneCall, StoredByCall, Saved, StartsFree, Adding, Active,
        FlagIsCalls, InitialIsPages
<1>5. FormStays' /\ FileStays' /\ OneWorkflow' /\ OneCrawl' /\ RunAsAsked' /\ NeverEmpty'
    BY <1>1, <1>2, WithoutBefore DEF FormStays, FileStays, Saved, OneWorkflow, OneCrawl,
        Active, RunAsAsked, NeverEmpty
<1> QED BY <1>3, <1>4, <1>5

-----------------------------------------------------------------------------

LEMMA InitSave == Init => SaveInv
<1> SUFFICES ASSUME Init PROVE SaveInv
    OBVIOUS
<1>0. 0 \in 0..MaxEdits
    BY WorkflowSaveAssumption
<1>1. PICK stored \in BOOLEAN, withFile \in BOOLEAN : form = InitialForm(stored, withFile)
    BY DEF Init
<1>2. /\ form \in Form /\ form.file \in {"none", "old"}
      /\ Editing /\ WithFile => form.file = "old"
    BY <1>0, <1>1 DEF InitialForm, Form, Editing, WithFile, Scopes
<1>3. subs \in [Ids -> Sub] /\ \A i \in Ids : subs[i].pc = "idle"
    BY IdleType DEF Init, Idle
<1>4. /\ server \in Server /\ crawls \in Crawls /\ server.file = form.file /\ server.edit = 0
      /\ server.workflows = (IF Editing THEN 1 ELSE 0)
      /\ crawls.manual = 0 /\ crawls.cron = "idle"
  <2>1. PICK state \in {"none"} \cup FinalStates :
          /\ server = [workflows |-> IF Editing THEN 1 ELSE 0, edit |-> 0, file |-> form.file,
                       isCrawlRunning |-> FALSE, lastCrawlState |-> state]
          /\ crawls = [manual |-> 0, cron |-> "idle", scheduled |-> 0, ended |-> 0, last |-> state]
    BY DEF Init
  <2> QED BY <1>0, <1>2, <2>1 DEF Server, Crawls
<1>5. Active = 0
    BY <1>4 DEF Active
<1>6. Types
  <2>1. status \in Status /\ isCrawlRunning \in Polls
    BY DEF Init, Status, Polls
  <2>2. lapses = {} /\ updatingScopeType = FALSE /\ mounted /\ ~isSubmitting /\ ~saveAndRun
    BY DEF Init
  <2>3. ~Editing => status.pc = "off" /\ isCrawlRunning = "no"
    BY DEF Init
  <2> QED BY <1>2, <1>3, <1>4, <2>1, <2>2, <2>3 DEF Init, Types
<1>7. InitialIsPages
  <2>1. PICK given \in BOOLEAN :
          page = [given |-> given, scope |-> "page", defaults |-> "old", org |-> FALSE, guide |-> FALSE]
    BY DEF Init, Editing
  <2> QED BY <2>1 DEF Init, InitialIsPages, Page, Scopes
<1>8. OneCall /\ StoredByCall /\ StartsFree /\ FlagIsCalls /\ FormStays /\ FileStays
    BY <1>2, <1>3, <1>4, <1>5 DEF Init, OneCall, StoredByCall, Saved, StartsFree, Adding,
        FlagIsCalls, FormStays, FileStays, Started
<1>9. OneWorkflow /\ OneCrawl /\ RunAsAsked /\ NeverEmpty
    BY <1>2, <1>3, <1>4, <1>5 DEF OneWorkflow, OneCrawl, Active, RunAsAsked, NeverEmpty
<1> QED BY <1>6, <1>7, <1>8, <1>9 DEF SaveInv

LEMMA CallStep ==
    ASSUME SaveInv, NEW i \in Ids, Call(i) \/ SaveFails(i) \/ RunRefused(i)
    PROVE  SaveInv'
BY ValidatedStep, CollectionStep, UploadStep, ServerSavesStep, ServerChecksStep,
    ServerRunsStep, SaveFailsStep, ReplyStep DEF Call

LEMMA SaveStep == SaveInv /\ [Next]_vars => SaveInv'
<1> SUFFICES ASSUME SaveInv, [Next]_vars PROVE SaveInv'
    OBVIOUS
<1>1. CASE UNCHANGED vars
    BY <1>1 DEF vars, editor, initial, SaveInv, Types, OneCall, StoredByCall, Saved, StartsFree,
        Adding, Active, FlagIsCalls, FormStays, FileStays, InitialIsPages, OneWorkflow, OneCrawl,
        RunAsAsked, NeverEmpty, Without, Editing, WithFile
<1> QED
    BY <1>1, CallStep, InputStep, ScopeStep, GuideStep, OrgStep, SubmitStep, ScheduleStep,
        EndStep, PollStep DEF Next

LEMMA SaveInvariant == Spec => []SaveInv
BY InitSave, SaveStep, PTL DEF Spec

\* The buttons are disabled by a call that waits: one call sets the mark and the same takes
\* it away, or leaves it as its collection could not be created.
LEMMA DisabledStep ==
    ASSUME SaveInv, DisabledBySubmit, [Next]_vars
    PROVE  DisabledBySubmit'
<1> DEFINE Waits(s) == s.pc \in Started \ {"valid"}
<1>1. subs \in [Ids -> Sub]
    BY DEF SaveInv, Types
<1>2. CASE UNCHANGED <<subs, isSubmitting>> /\ lapses \subseteq lapses'
    BY <1>2 DEF DisabledBySubmit, Without
<1>3. ASSUME NEW run \in BOOLEAN, ClickSubmit(run) \/ onKeyDown(run)
      PROVE  DisabledBySubmit'
  <2>1. isSubmitting' = isSubmitting /\ lapses \subseteq lapses'
    BY <1>3 DEF ClickSubmit, onKeyDown, LapseIf, Lapse
  <2>2. PICK i \in Ids : subs[i].pc = "idle" /\ \A j \in Ids \ {i} : subs'[j] = subs[j]
    BY <1>1, <1>3 DEF ClickSubmit, onKeyDown, Begin
  <2> QED BY <2>1, <2>2 DEF DisabledBySubmit, Without, Started
<1>4. ASSUME NEW i \in Ids, Validated(i) \/ Reply(i)
      PROVE  DisabledBySubmit'
  <2>1. CASE isSubmitting'
    <3>1. Validated(i)
      BY <1>4, <2>1 DEF Reply
    <3>2. /\ subs[i].pc = "valid" /\ lapses' = lapses
          /\ \A j \in Ids \ {i} : subs'[j] = subs[j]
      BY <1>1, <3>1 DEF Validated
    <3>3. CASE WithFile /\ form.file = "none"
      BY <2>1, <3>1, <3>2, <3>3 DEF Validated, DisabledBySubmit, Without
    <3>4. CASE ~(WithFile /\ form.file = "none")
      <4>1. subs'[i] = IF form.coll = "new" THEN [subs[i] EXCEPT !.pc = "coll"] ELSE SendOrUpload(subs[i])
        BY <1>1, <3>1, <3>4 DEF Validated
      <4>2. subs[i] \in Sub
        BY <1>1
      <4>3. subs'[i].pc \in {"coll", "upload", "sent"}
        BY <4>1, <4>2 DEF SendOrUpload, Sub
      <4> QED BY <4>3 DEF DisabledBySubmit, Started
    <3> QED BY <3>3, <3>4
  <2> QED BY <2>1 DEF DisabledBySubmit
<1>5. ASSUME NEW i \in Ids,
             \/ CollectionCreated(i) \/ Uploaded(i) \/ UploadFails(i) \/ ServerSaves(i) \/ ServerChecks(i)
             \/ ServerStarts(i) \/ ServerInserts(i) \/ SaveFails(i) \/ RunRefused(i)
      PROVE  DisabledBySubmit'
  <2>1. isSubmitting' = isSubmitting /\ lapses \subseteq lapses'
    BY <1>5 DEF CollectionCreated, Uploaded, UploadFails, ServerSaves, ServerChecks, ServerStarts,
        ServerInserts, SaveFails, RunRefused, LapseIf, Lapse, editor
  <2>2. subs[i] \in Sub
    BY <1>1
  <2>3. Waits(subs'[i]) /\ \A j \in Ids \ {i} : subs'[j] = subs[j]
    <3>1. CASE CollectionCreated(i)
      BY <1>1, <2>2, <3>1 DEF CollectionCreated, SendOrUpload, Sub, Started
    <3>2. CASE Uploaded(i) \/ UploadFails(i)
      BY <1>1, <2>2, <3>2 DEF Uploaded, UploadFails, Sub, Started
    <3>3. CASE ServerSaves(i)
      BY <1>1, <2>2, <3>3 DEF ServerSaves, Answered, Sub, Started
    <3>4. CASE ServerChecks(i) \/ ServerStarts(i) \/ ServerInserts(i)
      BY <1>1, <2>2, <3>4 DEF ServerChecks, ServerStarts, ServerInserts, Answered, Sub, Started
    <3>5. CASE SaveFails(i) \/ RunRefused(i)
      BY <1>1, <2>2, <3>5 DEF SaveFails, RunRefused, Answered, Sub, Started
    <3> QED BY <1>5, <3>1, <3>2, <3>3, <3>4, <3>5
  <2> QED BY <2>1, <2>3 DEF DisabledBySubmit, Without
<1>6. ASSUME NEW i \in Ids, CollectionFails(i)
      PROVE  DisabledBySubmit'
    BY <1>6 DEF CollectionFails, Lapse, DisabledBySubmit, Without
<1>7. ASSUME \/ ChangeInput \/ ChooseFile \/ RemoveFile \/ NameCollection
             \/ changeScopeType \/ OpenGuide \/ updateOrg
      PROVE  UNCHANGED <<subs, isSubmitting>> /\ lapses \subseteq lapses'
    BY <1>7 DEF ChangeInput, ChooseFile, RemoveFile, NameCollection, Edit, CanEdit, changeScopeType,
        OpenGuide, updateOrg, willUpdate, LapseIf, Lapse
<1>8. ASSUME \/ onReset \/ ScheduledCrawl \/ ScheduleInserts \/ CrawlEnds \/ stats_recompute_last
             \/ workflowTask \/ workflowTaskFails \/ pollTask \/ UNCHANGED vars
      PROVE  UNCHANGED <<subs, isSubmitting>> /\ lapses \subseteq lapses'
    BY <1>8 DEF onReset, ScheduledCrawl, ScheduleInserts, CrawlEnds, stats_recompute_last, workflowTask,
        workflowTaskFails, pollTask, LapseIf, Lapse, editor, vars
<1> QED BY <1>2, <1>3, <1>4, <1>5, <1>6, <1>7, <1>8 DEF Next, Call

\* One editor makes one workflow, which has one crawl at a time, and is usable after that, for any
\* number of submissions, edits, scheduled crawls and lapses (onSubmit, run_now_internal).
THEOREM OneOfEachSafe == Spec => []OneOfEach
<1>1. Init => DisabledBySubmit
    BY DEF Init, DisabledBySubmit
<1>2. SaveInv /\ DisabledBySubmit => OneOfEach
    BY DEF SaveInv, OneOfEach, TypeOK, Types, Form, Server, Status, Polls, FileStays
<1>3. SaveInv /\ DisabledBySubmit /\ [Next]_vars => DisabledBySubmit'
    BY DisabledStep
<1> QED BY <1>1, <1>2, <1>3, SaveInvariant, PTL DEF Spec

\* What is stored and started is what the user saved and asked for, for any number of
\* submissions, edits, scheduled crawls and lapses (onSubmit).
THEOREM SavedAsAskedSafe == Spec => []SavedAsAsked
<1>1. SaveInv => SavedAsAsked
    BY DEF SaveInv, SavedAsAsked, EditsSaved, FormStays
<1> QED BY <1>1, SaveInvariant, PTL

\* Whatever makes the page of new workflows render, a change of scope, the user guide or
\* the org that comes, what was entered is kept, unless the org comes with other defaults
\* after that (willUpdate): for any number of submissions, edits, crawls and lapses.
THEOREM EditsKeptSafe == Spec => EditsKept
<1>1. ASSUME SaveInv, [Next]_vars, form' # form
      PROVE  form'.edit < form.edit => "defaults" \in lapses'
  <2>1. form.edit \in Nat /\ ~(form.edit + 1 < form.edit) /\ ~(form.edit < form.edit)
    BY <1>1, WorkflowSaveAssumption DEF SaveInv, Types, Form
  <2>2. CASE ChangeInput \/ ChooseFile \/ RemoveFile \/ NameCollection
    BY <1>1, <2>1, <2>2, InputStep
  <2>3. CASE changeScopeType
    BY <1>1, <2>1, <2>3, ScopeStep
  <2>4. CASE OpenGuide
    BY <1>1, <2>4, GuideStep
  <2>5. CASE updateOrg
    BY <1>1, <2>5, OrgStep
  <2>6. CASE \E i \in Ids : CollectionCreated(i)
    BY <1>1, <2>1, <2>6 DEF CollectionCreated, SaveInv, Types, Form
  <2> QED
    BY <1>1, <2>2, <2>3, <2>4, <2>5, <2>6 DEF Next, Call, ClickSubmit, onKeyDown, Validated,
        CollectionFails, Uploaded, UploadFails, ServerSaves, ServerChecks, ServerStarts,
        ServerInserts, Reply, SaveFails, RunRefused, onReset, ScheduledCrawl, ScheduleInserts,
        CrawlEnds, stats_recompute_last, workflowTask, workflowTaskFails, pollTask, editor, vars
<1>2. SaveInv /\ [Next]_vars => [form'.edit < form.edit => "defaults" \in lapses']_vars
  <2>1. ASSUME SaveInv, form' = form PROVE ~(form'.edit < form.edit)
    BY <2>1, WorkflowSaveAssumption DEF SaveInv, Types, Form
  <2> QED BY <1>1, <2>1
<1> QED BY <1>2, SaveInvariant, PTL DEF Spec, EditsKept
=============================================================================
