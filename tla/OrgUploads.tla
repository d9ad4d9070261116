----------------------------- MODULE OrgUploads -----------------------------
(***************************************************************************)
(* Uploads of archived items in the web application: the request with its  *)
(* progress (controllers/api.ts), the uploads the org's page keeps while   *)
(* the user goes on (OrgUploadsContextController), the form that starts    *)
(* one (file-uploader.ts) and the alert that shows them, with its dialog   *)
(* for canceling (org-uploads-dialog.ts).                                  *)
(*                                                                         *)
(* Listeners of the context are called when it is set, promises settle in  *)
(* the turn of the event that settles them, and the page updates before    *)
(* the next event: each of these is part of the action that causes it.     *)
(*                                                                         *)
(* ArchivedItemsProofs extends this module and CollectionItems, so the     *)
(* names that every module has (Init, Next) are longer here.               *)
(***************************************************************************)
EXTENDS Naturals, FiniteSets

CONSTANTS UploadIds,   \* the uploads the user may make
          Undefined    \* undefined

ASSUME UploadsAssumption == IsFiniteSet(UploadIds)

VARIABLES
    reliable,        \* no request fails, or is refused by the server (never changes)
    xhr,             \* every upload's XMLHttpRequest
    item,            \* the uploads the server has made an item of
    uploadRequests,  \* #uploadRequests: the uploads whose request is kept
    context,         \* what is known of every upload, None if nothing
    form,            \* the upload form is open
    open,            \* the alert is to be open
    hiding,          \* the alert is being hidden, sl-after-hide is to come
    cancelIds        \* the uploads the dialog asks about

uploadVars == <<reliable, xhr, item, uploadRequests, context, form, open, hiding, cancelIds>>

InFlight == {"uploading", "processing"}
OrgUpload == [named : BOOLEAN, loaded : {"part", "all", Undefined},
              canceled : BOOLEAN, itemId : BOOLEAN]

-----------------------------------------------------------------------------
(* uploadsByStatus, and what follows a change of the context.                *)

all(c) == {u \in UploadIds : c[u] # Undefined}
canceled(c) == {u \in all(c) : c[u].canceled}
uploaded(c) == {u \in all(c) \ canceled(c) : c[u].itemId}
inProgress(c) == all(c) \ (canceled(c) \cup uploaded(c))

\* setUpload merges into what is there; an entry that was removed comes back with
\* the fields given only.
Entry(u) == IF context[u] # Undefined THEN context[u]
            ELSE [named |-> FALSE, loaded |-> Undefined, canceled |-> FALSE, itemId |-> FALSE]

\* The context becomes c: the alert opens or closes with it, and the dialog no
\* longer asks about uploads that were removed or canceled.
setContext(c) ==
    /\ context' = c
    /\ open' = (all(c) # {})
    /\ hiding' = (hiding \/ (open /\ all(c) = {}))
    /\ cancelIds' = {u \in cancelIds : u \in all(c) \ canceled(c)}

setProgress(u, loaded) ==
    setContext([context EXCEPT ![u] =
        [Entry(u) EXCEPT !.named = TRUE, !.loaded = loaded]])

UploadsInit ==
    /\ reliable \in BOOLEAN
    /\ xhr = [u \in UploadIds |-> "unsent"]
    /\ item = {}
    /\ uploadRequests = {}
    /\ context = [u \in UploadIds |-> Undefined]
    /\ form = FALSE
    /\ open = FALSE
    /\ hiding = FALSE
    /\ cancelIds = {}

-----------------------------------------------------------------------------
(* The form.                                                                 *)

\* Dialogs are modal: while one asks, the other and the alert are out of reach.
OpenForm ==
    /\ ~form
    /\ cancelIds = {}
    /\ form' = TRUE
    /\ UNCHANGED <<reliable, xhr, item, uploadRequests, context, open, hiding, cancelIds>>

CloseForm ==
    /\ form
    /\ form' = FALSE
    /\ UNCHANGED <<reliable, xhr, item, uploadRequests, context, open, hiding, cancelIds>>

\* The request is sent, and its loadstart event, in the same turn, sets the context.
onUpload(u) ==
    /\ xhr' = [xhr EXCEPT ![u] = "uploading"]
    /\ uploadRequests' = uploadRequests \cup {u}
    /\ setProgress(u, "part")

\* The form is submitted with a new id; it closes once the context has the upload.
onSubmit(u) ==
    /\ form
    /\ xhr[u] = "unsent"
    /\ onUpload(u)
    /\ form' = FALSE
    /\ UNCHANGED <<reliable, item>>

-----------------------------------------------------------------------------
(* The request.                                                              *)

onUploadProgress(u) ==
    /\ xhr[u] = "uploading"
    /\ \E done \in BOOLEAN :
          /\ xhr' = [xhr EXCEPT ![u] = IF done THEN "processing" ELSE @]
          /\ setProgress(u, IF done THEN "all" ELSE "part")
    /\ UNCHANGED <<reliable, item, uploadRequests, form>>

ServerStores(u) ==
    /\ xhr[u] = "processing"
    /\ item' = item \cup {u}
    /\ UNCHANGED <<reliable, xhr, uploadRequests, context, form, open, hiding, cancelIds>>

uploadComplete_unset(u) ==
    /\ xhr[u] = "processing"
    /\ u \in item
    /\ xhr' = [xhr EXCEPT ![u] = "done"]
    /\ uploadRequests' = uploadRequests \ {u}
    /\ UNCHANGED <<reliable, item, context, form, open, hiding, cancelIds>>

\* Status 200: the item's id is kept.
uploadComplete(u) ==
    /\ xhr[u] = "processing"
    /\ u \in item
    /\ xhr' = [xhr EXCEPT ![u] = "done"]
    /\ setContext([context EXCEPT ![u] = [Entry(u) EXCEPT !.itemId = TRUE]])
    /\ uploadRequests' = uploadRequests \ {u}
    /\ UNCHANGED <<reliable, item, form>>

\* A network error, a timeout or a status of 401 and more rejects the promise: a
\* toast is shown and the request forgotten, the context stays.
uploadFails(u) ==
    /\ ~reliable
    /\ xhr[u] \in InFlight
    /\ xhr' = [xhr EXCEPT ![u] = "done"]
    /\ uploadRequests' = uploadRequests \ {u}
    /\ UNCHANGED <<reliable, item, context, form, open, hiding, cancelIds>>

\* A status between 201 and 400 settles nothing.
uploadRefused(u) ==
    /\ ~reliable
    /\ xhr[u] = "processing"
    /\ u \notin item
    /\ xhr' = [xhr EXCEPT ![u] = "done"]
    /\ UNCHANGED <<reliable, item, uploadRequests, context, form, open, hiding, cancelIds>>

-----------------------------------------------------------------------------
(* The alert and its dialog.                                                 *)

askCancel(ids) ==
    /\ ids # {}
    /\ cancelIds' = ids
    /\ UNCHANGED <<reliable, xhr, item, uploadRequests, context, form, open, hiding>>

\* The cross beside an upload whose file is being sent.
CancelOne(u) ==
    /\ open
    /\ ~form
    /\ cancelIds = {}
    /\ u \in all(context)
    /\ ~context[u].canceled
    /\ context[u].loaded = "part"
    /\ askCancel({u})

\* The alert's own cross: asks about the uploads in progress, if any.
CloseAlert ==
    /\ open
    /\ ~form
    /\ cancelIds = {}
    /\ \/ /\ inProgress(context) # {}
          /\ askCancel(inProgress(context))
       \/ /\ inProgress(context) = {}
          /\ open' = FALSE
          /\ hiding' = TRUE
          /\ UNCHANGED <<reliable, xhr, item, uploadRequests, context, form, cancelIds>>

ContinueUpload ==
    /\ cancelIds # {}
    /\ cancelIds' = {}
    /\ UNCHANGED <<reliable, xhr, item, uploadRequests, context, form, open, hiding>>

onCancel_marks ==
    /\ cancelIds # {}
    /\ setContext([u \in UploadIds |->
           IF u \in cancelIds THEN [Entry(u) EXCEPT !.canceled = TRUE] ELSE context[u]])
    /\ UNCHANGED <<reliable, xhr, item, uploadRequests, form>>

\* Aborting a request that is under way rejects its promise, which marks the upload
\* canceled; without a request, or when it is done, nothing happens.
onCancel ==
    /\ cancelIds # {}
    /\ LET aborted == {u \in cancelIds \cap uploadRequests : xhr[u] \in InFlight}
       IN /\ xhr' = [u \in UploadIds |-> IF u \in aborted THEN "done" ELSE xhr[u]]
          /\ uploadRequests' = uploadRequests \ aborted
          /\ IF aborted = {} THEN UNCHANGED <<context, open, hiding, cancelIds>>
             ELSE setContext([u \in UploadIds |->
                      IF u \in aborted THEN [Entry(u) EXCEPT !.canceled = TRUE]
                                       ELSE context[u]])
    /\ UNCHANGED <<reliable, item, form>>

\* The cross of a canceled upload and the link of an uploaded one.
removeOrHide(u) ==
    /\ open
    /\ ~form
    /\ cancelIds = {}
    /\ u \in canceled(context) \cup uploaded(context)
    /\ IF Cardinality(all(context)) > 1
       THEN setContext([context EXCEPT ![u] = Undefined])
       ELSE /\ open' = FALSE
            /\ hiding' = TRUE
            /\ UNCHANGED <<context, cancelIds>>
    /\ UNCHANGED <<reliable, xhr, item, uploadRequests, form>>

\* When all uploads are canceled the alert hides by itself.
AutoHide ==
    /\ open
    /\ ~hiding
    /\ canceled(context) = all(context)
    /\ hiding' = TRUE
    /\ UNCHANGED <<reliable, xhr, item, uploadRequests, context, form, open, cancelIds>>

\* sl-after-hide: the uploads there are by now are removed.
AfterHide ==
    /\ hiding
    /\ hiding' = FALSE
    /\ context' = [u \in UploadIds |-> Undefined]
    /\ open' = FALSE
    /\ cancelIds' = {}
    /\ UNCHANGED <<reliable, xhr, item, uploadRequests, form>>

UploadsNext ==
    \/ OpenForm \/ CloseForm \/ CloseAlert \/ ContinueUpload \/ onCancel
    \/ AutoHide \/ AfterHide
    \/ \E u \in UploadIds :
          \/ onSubmit(u) \/ onUploadProgress(u) \/ ServerStores(u) \/ uploadComplete(u)
          \/ uploadFails(u) \/ uploadRefused(u) \/ CancelOne(u) \/ removeOrHide(u)

\* The network and the server go on; the user need do nothing.
Fairness ==
    /\ WF_uploadVars(AfterHide) /\ WF_uploadVars(AutoHide)
    /\ \A u \in UploadIds :
          /\ WF_uploadVars(onUploadProgress(u) /\ xhr'[u] = "processing")
          /\ WF_uploadVars(ServerStores(u))
          /\ WF_uploadVars(uploadComplete(u))

UploadsSpec == UploadsInit /\ [][UploadsNext]_uploadVars /\ Fairness

-----------------------------------------------------------------------------
(* Properties.                                                               *)

\* The values of the requests and of the list that shows them.
UploadsTypeOK ==
    /\ reliable \in BOOLEAN
    /\ xhr \in [UploadIds -> {"unsent", "done"} \cup InFlight]
    /\ item \subseteq UploadIds
    /\ uploadRequests \subseteq UploadIds
    /\ context \in [UploadIds -> OrgUpload \cup {Undefined}]
    /\ form \in BOOLEAN /\ open \in BOOLEAN /\ hiding \in BOOLEAN
    /\ cancelIds \subseteq UploadIds

\* After onUpload's success callback an upload shown with an item is one the server has
\* an item of, and is not also shown as canceled, whichever of cancel and answer comes
\* first.
UploadedIsStored ==
    \A u \in all(context) : context[u].itemId => u \in item /\ ~context[u].canceled

\* A request under way can be aborted by onCancel: #uploadRequests has it as long as it
\* goes on.
InFlightKept == \A u \in UploadIds : xhr[u] \in InFlight => u \in uploadRequests

\* The dialog for canceling asks only about uploads that are shown and that were not
\* canceled, and never stays open when the alert is gone.
AsksAboutShown ==
    /\ cancelIds \subseteq all(context) \ canceled(context)
    /\ cancelIds # {} => open

\* Every upload ends, as an item or canceled, and none is shown in progress for ever, as
\* long as no request fails: onUpload leaves the entry of a failed upload as it is, and
\* upload settles nothing for a status from 201 to 400.
UploadsEnd ==
    \A u \in UploadIds :
       (reliable /\ u \in inProgress(context)) ~> (u \notin inProgress(context))

\* What is shown of uploads is so: items are stored, requests can be aborted, and the
\* dialog asks about what is there (OrgUploadsContextController, org-uploads-dialog).
ShownIsTrue == UploadsTypeOK /\ UploadedIsStored /\ InFlightKept /\ AsksAboutShown
=============================================================================
