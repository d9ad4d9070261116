-------------------------- MODULE ItemReviewProofs --------------------------
(***************************************************************************)
(* The page under review and the content beside it are those selected, for *)
(* any pages, analysis runs and notes, and any number of acts: the         *)
(* invariant SelectedIsShown of ItemReview.                                *)
(***************************************************************************)
EXTENDS ItemReview, TLAPS

PageData == [id : Pages, notes : SUBSET Notes, approved : Approvals]
Sources == Runs \cup {"item"}
Shown == [page : Pages, source : Sources, ok : BOOLEAN]
SideData == [null : BOOLEAN, shown : [Tabs -> Shown \cup {Nothing}]]
Request == [kind : {"page", "note", "delete", "write", "approval", "content"},
            side : Sides, page : Pages, tab : Tabs, source : Sources \cup Notes,
            arg : {Nothing} \cup Notes \cup Approvals \cup SUBSET Notes]
Calls == [n : Nat, call : Request]

\* Requests about a page, and those for content of it.
About == {c \in calls : c.call.kind # "content"}
Contents == {c \in calls : c.call.kind = "content"}

\* What a request carries.
CallOK(c) ==
    /\ c \in Calls /\ c.n <= sent
    /\ c.call.kind \in {"note", "delete"} => c.call.arg \in Notes
    /\ c.call.kind = "write" => c.call.arg \subseteq Notes /\ c.call.source \in Notes
    /\ c.call.kind = "approval" => c.call.arg \in Approvals
    /\ c.call.kind = "content" => c.call.source \in Sources /\ frame = "loaded"
    /\ c.call.kind # "page" => page # Nothing

\* TypeOK with the records in full; without a page there is no frame and no content.
Typed ==
    /\ setup \in Setups /\ lapses \subseteq Lapses /\ sent \in Nat
    /\ notes \in [Pages -> SUBSET Notes] /\ approved \in [Pages -> Approvals]
    /\ itemPageId \in Pages /\ qaRunId \in Runs /\ tab \in Tabs
    /\ page \in PageData \cup {Nothing}
    /\ data \in [Sides -> SideData] /\ registered \in [Sides -> BOOLEAN]
    /\ \A s \in Sides : data[s].null => data[s].shown = Null.shown
    /\ frame \in {"none", "loading", "loaded"} /\ worker \subseteq Sources
    /\ page = Nothing => frame = "none" /\ \A s \in Sides : data[s].shown = Null.shown
    /\ \A c \in calls : CallOK(c)

\* A reviewer who waits has one request about a page under way, for the page selected, and
\* a deletion writes back what the server still has.
OneRequest ==
    Without({"hasty", "fault"}) =>
        /\ \A c, d \in About : c = d
        /\ \A c \in About :
              /\ c.call.page = itemPageId
              /\ c.call.kind = "write" =>
                    c.call.arg = notes[itemPageId] \ {c.call.source}

\* Unless its page is on its way, the page selected is shown as the server has it; while
\* another one is shown nothing is fetched for it.
PageKnown ==
    Without({"hasty", "fault"}) /\ page # Nothing =>
        /\ (\A c \in About : c.call.kind # "page") =>
              /\ page.id = itemPageId
              /\ page.notes = notes[page.id] /\ page.approved = approved[page.id]
        /\ page.id # itemPageId =>
              Contents = {} /\ frame # "loading" /\ \A s \in Sides : registered[s]

\* Content on its way is of the page shown and of the run selected, and so is all
\* content that was fetched, for whichever tab.
ContentKnown ==
    /\ Without({"hasty", "fault"}) =>
          \A c \in Contents : c.call.page = page.id /\ c.call.source = SourceOf(c.call.side)
    /\ Without({"hasty", "fault", "replay"}) =>
          \A s \in Sides, t \in Tabs : LET x == data[s].shown[t] IN
              x # Nothing => x.page = page.id /\ x.source = SourceOf(s) /\ x.ok

\* The inductive invariant: a reviewer who waits acts only when nothing is under way, so
\* that every answer meets the selection it was asked for.
ReviewInv == Typed /\ OneRequest /\ PageKnown /\ ContentKnown

-----------------------------------------------------------------------------
(* Requests and lapses.                                                      *)

\* Lapses are never undone.
LEMMA LapsesStay ==
    ASSUME NEW set, Lapse(set)
    PROVE  /\ Without({"hasty", "fault"})' =>
                 Without({"hasty", "fault"}) /\ "hasty" \notin set /\ "fault" \notin set
           /\ Without({"hasty", "fault", "replay"})' =>
                 Without({"hasty", "fault", "replay"}) /\ "replay" \notin set
           /\ Typed => lapses' \subseteq Lapses
<1>1. Typed => setup.lapses \subseteq Lapses
    BY ItemReviewAssumption DEF Typed
<1> QED BY <1>1 DEF Lapse, Without, Typed

\* A reviewer who waits acts when nothing is under way.
LEMMA ActWaits ==
    ASSUME Typed, Act
    PROVE  /\ lapses' \subseteq Lapses
           /\ Without({"hasty", "fault"})' => Without({"hasty", "fault"}) /\ Settled
           /\ Without({"hasty", "fault", "replay"})' => Without({"hasty", "fault", "replay"})
<1>1. Lapse(If(~Settled, "hasty"))
    BY DEF Act
<1>2. ~Settled => "hasty" \in If(~Settled, "hasty")
    BY DEF If
<1> QED BY <1>1, <1>2, LapsesStay

LEMMA NewCalls ==
    ASSUME NEW set, NEW c \in Numbered(set)
    PROVE  c.n = sent + 1 /\ c.call \in set /\ c = [n |-> sent + 1, call |-> c.call]
BY DEF Numbered

\* fetchContentForTab asks for content of the page, once the frame is there.
LEMMA Fetched ==
    ASSUME NEW side \in Sides, NEW p \in PageData \cup {Nothing}, NEW t \in Tabs,
           NEW r \in Runs, NEW x \in fetchContent(side, p, t, r)
    PROVE  /\ p # Nothing /\ p \in PageData /\ frame = "loaded"
           /\ x.kind = "content" /\ x.side = side /\ x.page = p.id
           /\ x.source = IF side = "qa" THEN r ELSE "item"
           /\ [n |-> sent + 1, call |-> x] \in Calls \/ sent \notin Nat
           /\ x.source \in Sources
BY DEF fetchContent, Call, Calls, Request, PageData, Sources

-----------------------------------------------------------------------------
(* A new value of page.                                                      *)

LEMMA RevokedType ==
    ASSUME NEW d \in SideData
    PROVE  /\ Revoked(d) \in SideData /\ Revoked(d).null = d.null
           /\ d.shown = Null.shown => Revoked(d).shown = Null.shown
BY NothingAssumption DEF Revoked, SideData, Shown, Null, Sources

LEMMA NullType == Null \in SideData /\ Null.null = TRUE /\ \A t \in Tabs : Null.shown[t] = Nothing
BY DEF Null, SideData

\* willUpdate with the page that an answer brings: for a reviewer who waits it is the one
\* selected, as the server has it now, and no other answer about a page is outstanding.
LEMMA PageSetStep ==
    ASSUME ReviewInv, NEW c \in calls, c.call.kind # "content", NEW new \in PageData,
           PageSet(new, c),
           UNCHANGED <<setup, asked, registered, worker>>,
           notes' \in [Pages -> SUBSET Notes], approved' \in [Pages -> Approvals],
           Without({"hasty", "fault"}) =>
              /\ new.id = itemPageId
              /\ new.notes = notes'[new.id] /\ new.approved = approved'[new.id]
    PROVE  ReviewInv'
<1> DEFINE Fresh == IF page = Nothing THEN {}
                    ELSE UNION {fetchContent(s, new, tab, qaRunId) : s \in Sides}
<1> USE DEF ReviewInv
<1>1. new # Nothing /\ page' = new
    BY NothingAssumption DEF PageSet, PageData
<1>2. calls' = (calls \ {c}) \cup Numbered(Fresh) /\ sent' \in {sent, sent + 1}
      /\ (Fresh # {} => sent' = sent + 1)
    BY DEF PageSet, Answer, Numbered
<1>3. /\ lapses' \subseteq Lapses
      /\ Without({"hasty", "fault"})' => Without({"hasty", "fault"})
      /\ Without({"hasty", "fault", "replay"})' =>
            Without({"hasty", "fault", "replay"}) /\ (page # Nothing => tab # "replay")
  <2>1. Lapse(If(page # Nothing /\ tab = "replay", "replay"))
    BY DEF PageSet
  <2> QED BY <2>1, LapsesStay DEF If
<1>4. /\ frame' \in {"none", "loading", "loaded"} /\ frame' # "none"
      /\ (frame = "loaded" => frame' = "loaded")
      /\ (frame' = "loading" => frame = "loading" \/ frame = "none")
    BY DEF PageSet, Typed
<1>5. ASSUME NEW d \in calls'
      PROVE  \/ d \in calls /\ d # c
             \/ /\ d.call.kind = "content" /\ d.n = sent + 1 /\ sent' = sent + 1
                /\ d.call.page = new.id /\ d.call.source = SourceOf(d.call.side)
                /\ d.call.side \in Sides
                /\ d \in Calls /\ d.call.source \in Sources /\ frame = "loaded"
  <2>1. CASE d \in calls /\ d # c
    BY <2>1
  <2>2. CASE d \in Numbered(Fresh)
    <3>1. d.n = sent + 1 /\ d.call \in Fresh /\ d = [n |-> sent + 1, call |-> d.call]
      BY <2>2, NewCalls
    <3>2. PICK s \in Sides : d.call \in fetchContent(s, new, tab, qaRunId)
      BY <3>1
    <3>3. tab \in Tabs /\ qaRunId \in Runs /\ sent \in Nat
      BY DEF Typed
    <3>4. /\ frame = "loaded" /\ d.call.kind = "content" /\ d.call.side = s
          /\ d.call.page = new.id /\ d.call.source = IF s = "qa" THEN qaRunId ELSE "item"
          /\ [n |-> sent + 1, call |-> d.call] \in Calls /\ d.call.source \in Sources
      BY <3>2, <3>3, Fetched
    <3> QED BY <1>2, <3>1, <3>2, <3>4 DEF SourceOf
  <2> QED BY <1>2, <1>5, <2>1, <2>2
<1>6. /\ data' \in [Sides -> SideData]
      /\ \A s \in Sides : data'[s].null => data'[s].shown = Null.shown
      /\ page # Nothing /\ tab # "replay" => \A s \in Sides : data'[s] = Null
      /\ page = Nothing => data' = data
  <2>1. CASE page = Nothing
    BY <2>1 DEF PageSet, Typed
  <2>2. CASE page # Nothing
    <3>1. data' = [s \in Sides |-> IF tab = "replay" THEN Revoked(data[s]) ELSE Null]
      BY <2>2 DEF PageSet
    <3>2. \A s \in Sides : data[s] \in SideData /\ (data[s].null => data[s].shown = Null.shown)
      BY DEF Typed
    <3> QED BY <2>2, <3>1, <3>2, RevokedType, NullType
  <2> QED BY <2>1, <2>2
<1>7. Typed'
  <2>1. ASSUME NEW d \in calls' PROVE CallOK(d)'
    <3>1. CASE d \in calls
      <4>1. CallOK(d)
        BY <3>1 DEF Typed
      <4>2. d.n \in Nat /\ sent \in Nat
        BY <4>1 DEF CallOK, Calls, Typed
      <4>3. d.n <= sent'
        BY <4>1, <4>2, <1>2 DEF CallOK
      <4> QED BY <4>1, <4>3, <1>1, <1>4 DEF CallOK
    <3>2. CASE d \notin calls
      <4>1. d.n <= sent'
        BY <3>2, <1>5, <2>1 DEF Typed
      <4> QED BY <4>1, <3>2, <1>1, <1>4, <1>5, <2>1 DEF CallOK
    <3> QED BY <3>1, <3>2
  <2>2. sent' \in Nat
    BY <1>2 DEF Typed
  <2> QED BY <1>1, <1>3, <1>4, <1>6, <2>1, <2>2 DEF Typed, asked
<1>8. ASSUME Without({"hasty", "fault"})' PROVE About' = {}
  <2>1. c \in About
    BY DEF About
  <2>2. \A d \in calls' : d.call.kind # "content" => d \in About /\ d # c
    BY <1>5 DEF About
  <2> QED BY <1>3, <1>8, <2>1, <2>2 DEF OneRequest, About
<1>9. OneRequest'
    BY <1>8 DEF OneRequest
<1>10. PageKnown'
    BY <1>1, <1>3 DEF PageKnown, asked
<1>11. ContentKnown'
  <2>1. ASSUME Without({"hasty", "fault"})', NEW d \in Contents'
        PROVE  d.call.page = page'.id /\ d.call.source = SourceOf(d.call.side)'
    <3>1. d \in calls' /\ d.call.kind = "content"
      BY <2>1 DEF Contents
    <3>2. CASE d \in calls
      <4>1. d \in Contents /\ CallOK(d)
        BY <3>1, <3>2 DEF Contents, Typed
      <4>2. page # Nothing /\ page.id = itemPageId
        BY <4>1, <3>1, <2>1, <1>3 DEF CallOK, PageKnown
      <4> QED BY <4>1, <4>2, <2>1, <1>1, <1>3 DEF ContentKnown, SourceOf, asked
    <3> QED BY <3>1, <3>2, <1>1, <1>5 DEF SourceOf, asked
  <2>2. ASSUME Without({"hasty", "fault", "replay"})', NEW s \in Sides, NEW t \in Tabs
        PROVE  data'[s].shown[t] = Nothing
    <3>1. data'[s] = Null \/ data'[s].shown = Null.shown
      BY <2>2, <1>3, <1>6 DEF Typed
    <3> QED BY <3>1, NullType
  <2> QED BY <2>1, <2>2 DEF ContentKnown
<1> QED BY <1>7, <1>9, <1>10, <1>11

-----------------------------------------------------------------------------
(* Answers.                                                                  *)

LEMMA CallFields ==
    ASSUME Typed, NEW c \in calls
    PROVE  /\ CallOK(c) /\ c.call.page \in Pages /\ c.call.side \in Sides
           /\ c.call.tab \in Tabs /\ c.n \in Nat /\ sent \in Nat
           /\ c.call.kind # "page" => page \in PageData /\ page # Nothing
BY DEF Typed, CallOK, Calls, Request

\* The only request about a page, for a reviewer who waits: the page is known.
LEMMA OnlyRequest ==
    ASSUME ReviewInv, NEW c \in calls, c.call.kind \notin {"content", "page"},
           Without({"hasty", "fault"})
    PROVE  /\ page.id = itemPageId /\ c.call.page = itemPageId
           /\ page.notes = notes[page.id] /\ page.approved = approved[page.id]
<1>1. c \in About /\ page # Nothing
    BY CallFields DEF About, ReviewInv
<1>2. \A d \in About : d.call.kind # "page"
    BY <1>1 DEF ReviewInv, OneRequest
<1> QED BY <1>1, <1>2 DEF ReviewInv, OneRequest, PageKnown

LEMMA PageArrivesStep ==
    ASSUME ReviewInv, NEW c \in calls, PageArrives(c)
    PROVE  ReviewInv'
<1> DEFINE new == [id |-> c.call.page, notes |-> notes[c.call.page],
                   approved |-> approved[c.call.page]]
<1>1. new \in PageData /\ notes \in [Pages -> SUBSET Notes] /\ approved \in [Pages -> Approvals]
    BY CallFields DEF ReviewInv, Typed, PageData
<1>2. c.call.kind = "page" /\ PageSet(new, c)
      /\ UNCHANGED <<setup, asked, registered, worker, notes, approved>>
    BY DEF PageArrives, store
<1>3. Without({"hasty", "fault"}) => c.call.page = itemPageId
    BY <1>2 DEF ReviewInv, OneRequest, About
<1>4. Without({"hasty", "fault"}) => /\ new.id = itemPageId /\ new.notes = notes'[new.id]
                                     /\ new.approved = approved'[new.id]
    BY <1>2, <1>3
<1> HIDE DEF new
<1> QED BY <1>1, <1>2, <1>4, PageSetStep

LEMMA NoteAddedStep ==
    ASSUME ReviewInv, NEW c \in calls, NoteAdded(c)
    PROVE  ReviewInv'
<1> DEFINE new == [page EXCEPT !.notes = @ \cup {c.call.arg}]
<1>1. /\ c.call.kind = "note" /\ PageSet(new, c)
      /\ notes' = [notes EXCEPT ![c.call.page] = @ \cup {c.call.arg}]
      /\ UNCHANGED <<setup, asked, registered, worker, approved>>
    BY DEF NoteAdded
<1>2. /\ page \in PageData /\ c.call.arg \in Notes /\ c.call.page \in Pages
      /\ notes \in [Pages -> SUBSET Notes] /\ approved \in [Pages -> Approvals]
    BY <1>1, CallFields DEF ReviewInv, Typed, CallOK
<1>3. new \in PageData /\ notes' \in [Pages -> SUBSET Notes] /\ approved' \in [Pages -> Approvals]
    BY <1>1, <1>2 DEF PageData
<1>4. ASSUME Without({"hasty", "fault"})
      PROVE  /\ new.id = itemPageId /\ new.notes = notes'[new.id]
             /\ new.approved = approved'[new.id]
    BY <1>1, <1>2, <1>4, OnlyRequest DEF PageData
<1> HIDE DEF new
<1> QED BY <1>1, <1>3, <1>4, PageSetStep

LEMMA NoteDeletedStep ==
    ASSUME ReviewInv, NEW c \in calls, NoteDeleted(c)
    PROVE  ReviewInv'
<1> DEFINE new == [page EXCEPT !.notes = @ \ {c.call.source}]
<1>1. /\ c.call.kind = "write" /\ PageSet(new, c)
      /\ notes' = [notes EXCEPT ![c.call.page] = c.call.arg]
      /\ UNCHANGED <<setup, asked, registered, worker, approved>>
    BY DEF NoteDeleted
<1>2. /\ page \in PageData /\ c.call.arg \subseteq Notes /\ c.call.page \in Pages
      /\ notes \in [Pages -> SUBSET Notes] /\ approved \in [Pages -> Approvals]
    BY <1>1, CallFields DEF ReviewInv, Typed, CallOK
<1>3. new \in PageData /\ notes' \in [Pages -> SUBSET Notes] /\ approved' \in [Pages -> Approvals]
    BY <1>1, <1>2 DEF PageData
<1>4. ASSUME Without({"hasty", "fault"})
      PROVE  /\ new.id = itemPageId /\ new.notes = notes'[new.id]
             /\ new.approved = approved'[new.id]
  <2>1. c.call.arg = notes[itemPageId] \ {c.call.source}
    BY <1>1, <1>4 DEF ReviewInv, OneRequest, About
  <2> QED BY <1>1, <1>2, <1>4, <2>1, OnlyRequest DEF PageData
<1> HIDE DEF new
<1> QED BY <1>1, <1>3, <1>4, PageSetStep

\* A request that ends without a reviewer who waits: nothing is promised to the others.
LEMMA DropStep ==
    ASSUME ReviewInv, NEW c \in calls, Answer(c, {}), lapses' \subseteq Lapses,
           ~Without({"hasty", "fault"})',
           UNCHANGED <<setup, asked, page, data, registered, frame, worker>>,
           notes' \in [Pages -> SUBSET Notes], approved' \in [Pages -> Approvals]
    PROVE  ReviewInv'
<1>1. calls' \subseteq calls /\ sent' = sent
    BY DEF Answer, Numbered
<1>2. Typed'
    BY <1>1 DEF ReviewInv, Typed, CallOK, asked
<1>3. ~Without({"hasty", "fault", "replay"})'
    BY DEF Without
<1> QED BY <1>2, <1>3 DEF ReviewInv, OneRequest, PageKnown, ContentKnown

LEMMA ApprovalStoredStep ==
    ASSUME ReviewInv, NEW c \in calls, ApprovalStored(c)
    PROVE  ReviewInv'
<1> DEFINE new == [page EXCEPT !.approved = c.call.arg]
<1>1. /\ c.call.kind = "approval"
      /\ approved' = [approved EXCEPT ![c.call.page] = c.call.arg]
      /\ UNCHANGED <<setup, asked, registered, worker, notes>>
    BY DEF ApprovalStored
<1>2. /\ page \in PageData /\ c.call.arg \in Approvals /\ c.call.page \in Pages
      /\ notes \in [Pages -> SUBSET Notes] /\ approved \in [Pages -> Approvals]
    BY <1>1, CallFields DEF ReviewInv, Typed, CallOK
<1>3. new \in PageData /\ notes' \in [Pages -> SUBSET Notes] /\ approved' \in [Pages -> Approvals]
    BY <1>1, <1>2 DEF PageData
<1>4. ASSUME Without({"hasty", "fault"})
      PROVE  /\ new.id = itemPageId /\ new.notes = notes'[new.id]
             /\ new.approved = approved'[new.id]
    BY <1>1, <1>2, <1>4, OnlyRequest DEF PageData
<1>5. CASE page.id = itemPageId
  <2>1. PageSet(new, c)
    BY <1>5 DEF ApprovalStored
  <2> HIDE DEF new
  <2> QED BY <2>1, <1>1, <1>3, <1>4, PageSetStep
<1>6. CASE page.id # itemPageId
  <2>1. Answer(c, {}) /\ UNCHANGED <<lapses, page, data, frame>>
    BY <1>6 DEF ApprovalStored
  <2>2. ~Without({"hasty", "fault"})'
    BY <1>1, <1>6, <2>1, OnlyRequest DEF Without
  <2>3. lapses' \subseteq Lapses
    BY <2>1 DEF ReviewInv, Typed
  <2> QED BY <1>1, <1>3, <2>1, <2>2, <2>3, DropStep
<1> QED BY <1>5, <1>6

LEMMA RequestFailsStep ==
    ASSUME ReviewInv, NEW c \in calls, RequestFails(c)
    PROVE  ReviewInv'
<1>1. Answer(c, {}) /\ UNCHANGED <<setup, asked, page, data, registered, frame, worker, notes, approved>>
    BY DEF RequestFails, store
<1>2. lapses' \subseteq Lapses /\ ~Without({"hasty", "fault"})'
    BY LapsesStay DEF RequestFails, ReviewInv
<1> QED BY <1>1, <1>2, DropStep DEF ReviewInv, Typed

\* delete_page_notes has read the notes: what it will write lacks the note.
LEMMA DeleteReadsStep ==
    ASSUME ReviewInv, NEW c \in calls, DeleteReads(c)
    PROVE  ReviewInv'
<1> DEFINE write == [c.call EXCEPT !.kind = "write", !.arg = notes[c.call.page] \ {@},
                                   !.source = c.call.arg]
           w == [n |-> sent + 1, call |-> write]
<1>1. /\ c.call.kind = "delete" /\ Answer(c, {write})
      /\ UNCHANGED <<setup, lapses, notes, approved, itemPageId, qaRunId, tab, page, data,
                     registered, frame, worker>>
    BY DEF DeleteReads, store, asked
<1>2. calls' = (calls \ {c}) \cup {w} /\ sent' = sent + 1
    BY <1>1 DEF Answer, Numbered
<1>3. /\ c \in Calls /\ c.call.arg \in Notes /\ c.call.page \in Pages /\ page # Nothing
      /\ sent \in Nat /\ notes[c.call.page] \subseteq Notes
    BY <1>1, CallFields DEF ReviewInv, CallOK, Typed
<1>4. /\ w \in Calls /\ w.n = sent + 1 /\ w.call.kind = "write" /\ w.call.page = c.call.page
      /\ w.call.arg = notes[c.call.page] \ {c.call.arg} /\ w.call.source = c.call.arg
  <2>1. c.call \in Request
    BY <1>3 DEF Calls
  <2>2. /\ write \in Request /\ write.kind = "write" /\ write.page = c.call.page
        /\ write.arg = notes[c.call.page] \ {c.call.arg} /\ write.source = c.call.arg
    BY <1>3, <2>1 DEF Request
  <2> HIDE DEF write
  <2> QED BY <1>3, <2>2 DEF Calls
<1> HIDE DEF write, w
<1>5. Typed'
  <2>1. ASSUME NEW d \in calls' PROVE CallOK(d)'
    <3>1. CASE d = w
      BY <3>1, <1>1, <1>2, <1>3, <1>4 DEF CallOK
    <3>2. CASE d \in calls
      <4>1. CallOK(d) /\ d.n \in Nat
        BY <3>2, CallFields DEF ReviewInv
      <4> QED BY <4>1, <1>1, <1>2, <1>3 DEF CallOK
    <3> QED BY <2>1, <3>1, <3>2, <1>2
  <2> QED BY <1>1, <1>2, <1>3, <2>1 DEF ReviewInv, Typed
<1>6. c \in About /\ (Without({"hasty", "fault"})' => Without({"hasty", "fault"}))
      /\ (Without({"hasty", "fault", "replay"})' => Without({"hasty", "fault", "replay"}))
    BY <1>1 DEF About, Without
<1>7. Without({"hasty", "fault"})' => About' = {w} /\ c.call.page = itemPageId
    BY <1>2, <1>4, <1>6 DEF About, ReviewInv, OneRequest
<1>8. Contents' = Contents
    BY <1>1, <1>2, <1>4 DEF Contents
<1>9. OneRequest'
    BY <1>1, <1>4, <1>7 DEF OneRequest
<1>10. PageKnown'
    BY <1>1, <1>6, <1>8, OnlyRequest DEF PageKnown, ReviewInv
<1>11. ContentKnown'
    BY <1>1, <1>6, <1>8 DEF ContentKnown, ReviewInv, SourceOf
<1> QED BY <1>5, <1>9, <1>10, <1>11 DEF ReviewInv

\* Content has come, is lacking, or its source is not known to the service worker.
LEMMA ContentArrivesStep ==
    ASSUME ReviewInv, NEW c \in calls, ContentArrives(c)
    PROVE  ReviewInv'
<1> DEFINE side == c.call.side
           x == Content(c.call.page, c.call.source)
<1>1. /\ c.call.kind = "content" /\ calls' = calls \ {c} /\ sent' = sent
      /\ UNCHANGED <<setup, notes, approved, itemPageId, qaRunId, tab, page, frame, worker>>
    BY DEF ContentArrives, Answer, Numbered, store, asked
<1>2. /\ side \in Sides /\ c.call.tab \in Tabs /\ c.call.page \in Pages
      /\ c.call.source \in Sources /\ page \in PageData /\ page # Nothing
      /\ c \in Contents
    BY <1>1, CallFields DEF ReviewInv, CallOK, Contents
<1>3. x \in Shown /\ x.page = c.call.page /\ x.source = c.call.source /\ x.ok
    BY <1>2 DEF Content, Shown
<1>4. /\ data \in [Sides -> SideData] /\ registered \in [Sides -> BOOLEAN]
      /\ \A s \in Sides : data[s].null => data[s].shown = Null.shown
    BY DEF ReviewInv, Typed
<1>5. /\ lapses' \subseteq Lapses
      /\ Without({"hasty", "fault"})' => Without({"hasty", "fault"})
      /\ Without({"hasty", "fault", "replay"})' => Without({"hasty", "fault", "replay"})
    BY LapsesStay DEF ContentArrives, ReviewInv
<1>6. /\ registered' \in [Sides -> BOOLEAN]
      /\ data' \in [Sides -> SideData]
      /\ \A s \in Sides : data'[s].null => data'[s].shown = Null.shown
      /\ \A s \in Sides, t \in Tabs :
            \/ data'[s].shown[t] = data[s].shown[t]
            \/ s = side /\ data'[s].shown[t] \in {x, Nothing}
  <2> DEFINE known == c.call.source \in worker
  <2> known \in BOOLEAN
    OBVIOUS
  <2>1. \/ /\ data' = [data EXCEPT ![side] = [null |-> FALSE, shown |->
                              [@.shown EXCEPT ![c.call.tab] = x]]]
           /\ registered' = [registered EXCEPT ![side] = TRUE]
        \/ /\ data' = [data EXCEPT ![side] = [Null EXCEPT !.null = ~known]]
           /\ registered' = [registered EXCEPT ![side] = known]
    BY Zenon DEF ContentArrives
  <2> HIDE DEF x, side, known
  <2>2. CASE /\ data' = [data EXCEPT ![side] = [null |-> FALSE, shown |->
                              [@.shown EXCEPT ![c.call.tab] = x]]]
             /\ registered' = [registered EXCEPT ![side] = TRUE]
    <3>1. [data[side].shown EXCEPT ![c.call.tab] = x] \in [Tabs -> Shown \cup {Nothing}]
      BY <1>2, <1>3, <1>4 DEF SideData
    <3>2. \A t \in Tabs : [data[side].shown EXCEPT ![c.call.tab] = x][t] \in {x, data[side].shown[t]}
      BY <1>2, <1>4 DEF SideData
    <3>3. /\ data'[side] = [null |-> FALSE, shown |-> [data[side].shown EXCEPT ![c.call.tab] = x]]
          /\ \A s \in Sides : s # side => data'[s] = data[s]
      BY <2>2, <1>2, <1>4
    <3>4. data' \in [Sides -> SideData]
      BY <2>2, <3>1, <1>2, <1>4 DEF SideData
    <3> QED BY <2>2, <3>2, <3>3, <3>4, <1>2, <1>4
  <2>3. ASSUME data' = [data EXCEPT ![side] = [Null EXCEPT !.null = ~known]],
               registered' = [registered EXCEPT ![side] = known]
        PROVE  <1>6!1 /\ <1>6!2 /\ <1>6!3 /\ <1>6!4
    <3>1. /\ [Null EXCEPT !.null = ~known] \in SideData
          /\ [Null EXCEPT !.null = ~known].shown = Null.shown
      BY DEF Null, SideData
    <3>2. /\ data'[side].shown = Null.shown /\ \A s \in Sides : s # side => data'[s] = data[s]
          /\ data' \in [Sides -> SideData]
      BY <2>3, <3>1, <1>2, <1>4
    <3> QED BY <2>3, <3>2, NullType, <1>2, <1>4
  <2> QED BY <2>2, <2>3, <2>1
<1>7. Typed'
  <2>1. \A d \in calls' : CallOK(d)'
    BY <1>1, CallFields DEF CallOK, ReviewInv
  <2> QED BY <1>1, <1>2, <1>5, <1>6, <2>1 DEF ReviewInv, Typed
<1>8. About' = About /\ Contents' \subseteq Contents
    BY <1>1 DEF About, Contents
<1>9. Without({"hasty", "fault"}) => /\ page.id = itemPageId /\ c.call.page = page.id
                                     /\ c.call.source = SourceOf(side)
    BY <1>2 DEF ReviewInv, PageKnown, ContentKnown
<1>10. OneRequest'
    BY <1>1, <1>5, <1>8 DEF OneRequest, ReviewInv
<1>11. PageKnown'
    BY <1>1, <1>5, <1>8, <1>9 DEF PageKnown, ReviewInv
<1>12. ContentKnown'
  <2>1. Without({"hasty", "fault", "replay"}) => Without({"hasty", "fault"})
    BY DEF Without
  <2>2. ASSUME Without({"hasty", "fault", "replay"})', NEW s \in Sides, NEW t \in Tabs,
               data'[s].shown[t] # Nothing
        PROVE  /\ data'[s].shown[t].page = page'.id /\ data'[s].shown[t].source = SourceOf(s)'
               /\ data'[s].shown[t].ok
    <3>1. CASE data'[s].shown[t] = data[s].shown[t]
      BY <2>2, <3>1, <1>1, <1>5 DEF ReviewInv, ContentKnown, SourceOf
    <3>2. CASE s = side /\ data'[s].shown[t] = x
      BY <2>1, <2>2, <3>2, <1>1, <1>3, <1>5, <1>9 DEF SourceOf
    <3> QED BY <2>2, <3>1, <3>2, <1>6
  <2> QED BY <2>2, <1>1, <1>5, <1>8 DEF ContentKnown, ReviewInv, SourceOf
<1> QED BY <1>7, <1>10, <1>11, <1>12 DEF ReviewInv

-----------------------------------------------------------------------------
(* New requests.                                                             *)

\* Requests are added to those under way.
LEMMA IssueTyped ==
    ASSUME Typed, NEW set,
           \/ calls' = calls \cup Numbered(set) /\ sent' = sent + 1
           \/ UNCHANGED <<calls, sent>>,
           page' = page, frame = "loaded" => frame' = "loaded",
           \A x \in set : /\ x \in Request
                          /\ x.kind \in {"note", "delete"} => x.arg \in Notes
                          /\ x.kind = "approval" => x.arg \in Approvals
                          /\ x.kind = "content" => x.source \in Sources /\ frame' = "loaded"
                          /\ x.kind # "write" /\ (x.kind # "page" => page # Nothing)
    PROVE  \A c \in calls' : CallOK(c)'
<1>1. sent \in Nat
    BY DEF Typed
<1>2. ASSUME NEW c \in calls PROVE CallOK(c)'
  <2>1. CallOK(c) /\ c.n \in Nat
    BY <1>2, CallFields
  <2> QED BY <2>1, <1>1 DEF CallOK
<1>3. ASSUME NEW c \in Numbered(set), sent' = sent + 1 PROVE CallOK(c)'
  <2>1. c.n = sent + 1 /\ c.call \in set /\ c = [n |-> sent + 1, call |-> c.call]
    BY <1>3, NewCalls
  <2>2. c \in Calls
    BY <1>1, <2>1 DEF Calls
  <2> QED BY <1>1, <1>3, <2>1, <2>2 DEF CallOK
<1> QED BY <1>2, <1>3

\* A reviewer acts: the page that is shown stays until the answer comes, and nothing else
\* was under way, if he waits; so one request about the selected page is under way then.
LEMMA ActStep ==
    ASSUME ReviewInv, Act, NEW set, Issue(set),
           UNCHANGED <<setup, notes, approved, page, registered, frame, worker>>,
           itemPageId' \in Pages, qaRunId' \in Runs, tab' \in Tabs,
           data' \in [Sides -> SideData],
           \A s \in Sides : data'[s] = data[s] \/ data'[s] = Null,
           qaRunId' # qaRunId => data'["qa"] = Null,
           \A x \in set : /\ x \in Request
                          /\ x.kind \in {"note", "delete"} => x.arg \in Notes
                          /\ x.kind = "approval" => x.arg \in Approvals
                          /\ x.kind = "content" =>
                                /\ x.source \in Sources /\ frame = "loaded"
                                /\ x.page = page.id /\ x.source = SourceOf(x.side)'
                                /\ itemPageId' = itemPageId
                          /\ x.kind # "content" => x.page = itemPageId'
                          /\ x.kind # "write" /\ (x.kind # "page" => page # Nothing),
           \A x, y \in set : x.kind # "content" /\ y.kind # "content" => x = y,
           itemPageId' # itemPageId => \E x \in set : x.kind = "page"
    PROVE  ReviewInv'
<1>1. /\ lapses' \subseteq Lapses
      /\ Without({"hasty", "fault"})' => Without({"hasty", "fault"}) /\ Settled
      /\ Without({"hasty", "fault", "replay"})' => Without({"hasty", "fault", "replay"})
    BY ActWaits DEF ReviewInv
<1>2. calls' = calls \cup Numbered(set) /\ sent' = sent + 1
    BY DEF Issue
<1>3. \A c \in calls' : CallOK(c)'
    BY <1>2, IssueTyped DEF ReviewInv
<1>4. \A s \in Sides : /\ data'[s].null => data'[s].shown = Null.shown
                       /\ page = Nothing => data'[s].shown = Null.shown
    BY NullType DEF ReviewInv, Typed
<1>5. Typed'
    BY <1>1, <1>2, <1>3, <1>4 DEF ReviewInv, Typed
<1>6. ASSUME Without({"hasty", "fault"})', NEW c \in calls'
      PROVE  c.call \in set /\ c = [n |-> sent + 1, call |-> c.call]
  <2>1. calls = {}
    BY <1>1, <1>6 DEF Settled, Quiet
  <2> QED BY <1>2, <1>6, <2>1, NewCalls
<1>7. OneRequest'
    BY <1>6 DEF OneRequest, About
<1>8. PageKnown'
  <2> SUFFICES ASSUME Without({"hasty", "fault"})', page # Nothing
               PROVE  PageKnown'
    BY DEF PageKnown
  <2>1. /\ calls = {} /\ frame # "loading" /\ \A s \in Sides : registered[s]
        /\ Without({"hasty", "fault"})
    BY <1>1 DEF Settled, Quiet
  <2>2. /\ page.id = itemPageId
        /\ page.notes = notes[page.id] /\ page.approved = approved[page.id]
    BY <2>1 DEF ReviewInv, PageKnown, About
  <2>3. CASE itemPageId' = itemPageId
    BY <2>2, <2>3 DEF PageKnown
  <2>4. CASE itemPageId' # itemPageId
    <3>1. Contents' = {}
      BY <1>6, <2>4 DEF Contents
    <3>2. PICK x \in set : x.kind = "page"
      BY <2>4
    <3>3. [n |-> sent + 1, call |-> x] \in About'
      BY <1>2, <3>2 DEF About, Numbered
    <3> QED BY <2>1, <3>1, <3>2, <3>3 DEF PageKnown
  <2> QED BY <2>3, <2>4
<1>9. ContentKnown'
  <2>1. ASSUME Without({"hasty", "fault"})', NEW c \in Contents'
        PROVE  c.call.page = page'.id /\ c.call.source = SourceOf(c.call.side)'
    BY <1>6, <2>1 DEF Contents
  <2>2. ASSUME Without({"hasty", "fault", "replay"})', NEW s \in Sides, NEW t \in Tabs,
               data'[s].shown[t] # Nothing
        PROVE  /\ data'[s].shown[t].page = page'.id /\ data'[s].shown[t].source = SourceOf(s)'
               /\ data'[s].shown[t].ok
    <3>1. data'[s] = data[s] /\ SourceOf(s)' = SourceOf(s)
      BY <2>2, NullType DEF SourceOf
    <3> QED BY <2>2, <3>1, <1>1 DEF ReviewInv, ContentKnown
  <2> QED BY <2>1, <2>2 DEF ContentKnown
<1> QED BY <1>5, <1>7, <1>8, <1>9 DEF ReviewInv

LEMMA FetchPage ==
    ASSUME Typed, NEW p \in Pages, NEW r \in Runs, NEW x \in fetchPage(p, r)
    PROVE  x \in Request /\ x.kind = "page" /\ x.page = p
BY DEF fetchPage, Call, Request, Typed, Sides, Sources

\* What fetchContentForTab asks for is content of the page shown and of the run in use.
LEMMA FetchedHere ==
    ASSUME Typed, NEW side \in Sides, NEW t \in Tabs, NEW r \in Runs,
           NEW x \in fetchContent(side, page, t, r)
    PROVE  /\ x \in Request /\ x.kind = "content" /\ x.side = side /\ x.page = page.id
           /\ x.source = (IF side = "qa" THEN r ELSE "item") /\ x.source \in Sources
           /\ frame = "loaded" /\ page # Nothing
<1>1. sent \in Nat /\ page \in PageData \cup {Nothing}
    BY DEF Typed
<1>2. [n |-> sent + 1, call |-> x] \in Calls
    BY <1>1, Fetched
<1>3. x \in Request
    BY <1>2 DEF Calls
<1>4. /\ page # Nothing /\ frame = "loaded"
      /\ x.kind = "content" /\ x.side = side /\ x.page = page.id
      /\ x.source \in Sources
    BY <1>1 DEF fetchContent, Call, Sources
<1>5. x.source = IF side = "qa" THEN r ELSE "item"
    BY <1>1 DEF fetchContent, Call
<1> QED BY <1>3, <1>4, <1>5

LEMMA SetupType ==
    ASSUME Typed
    PROVE  /\ setup.tabs \subseteq Tabs /\ setup.runs \subseteq Runs
           /\ itemPageId \in Pages /\ qaRunId \in Runs /\ tab \in Tabs
           /\ data \in [Sides -> SideData]
BY ItemReviewAssumption DEF Typed

LEMMA navToPageStep ==
    ASSUME ReviewInv, NEW p \in Pages, navToPage(p)
    PROVE  ReviewInv'
<1>1. /\ Act /\ Issue(fetchPage(p, qaRunId)) /\ itemPageId' = p
      /\ UNCHANGED <<setup, notes, approved, page, registered, frame, worker, qaRunId, tab, data>>
    BY DEF navToPage, store
<1>2. \A x \in fetchPage(p, qaRunId) : x \in Request /\ x.kind = "page" /\ x.page = p
    BY SetupType, FetchPage DEF ReviewInv
<1>3. /\ \A x, y \in fetchPage(p, qaRunId) : x = y
      /\ \E x \in fetchPage(p, qaRunId) : x.kind = "page"
    BY DEF fetchPage, Call
<1> QED BY <1>1, <1>2, <1>3, ActStep, SetupType DEF ReviewInv

LEMMA SelectTabStep ==
    ASSUME ReviewInv, NEW t \in setup.tabs, SelectTab(t)
    PROVE  ReviewInv'
<1> DEFINE set == UNION {fetchContent(s, page, t, qaRunId) : s \in Sides}
<1>1. /\ Act /\ Issue(set) /\ tab' = t /\ t \in Tabs
      /\ UNCHANGED <<setup, notes, approved, page, registered, frame, worker, itemPageId,
                     qaRunId, data>>
    BY SetupType DEF SelectTab, store, ReviewInv
<1>2. ASSUME NEW x \in set
      PROVE  /\ x \in Request /\ x.kind = "content" /\ x.source \in Sources /\ frame = "loaded"
             /\ x.page = page.id /\ x.source = SourceOf(x.side)' /\ page # Nothing
  <2>1. PICK s \in Sides : x \in fetchContent(s, page, t, qaRunId)
    OBVIOUS
  <2> QED BY <2>1, <1>1, FetchedHere, SetupType DEF ReviewInv, SourceOf
<1> HIDE DEF set
<1> QED BY <1>1, <1>2, ActStep, SetupType DEF ReviewInv

LEMMA SelectRunStep ==
    ASSUME ReviewInv, NEW r \in setup.runs, SelectRun(r)
    PROVE  ReviewInv'
<1> DEFINE set == fetchPage(itemPageId, r) \cup fetchContent("qa", page, tab, r)
<1>1. /\ Act /\ Issue(set) /\ qaRunId' = r /\ r \in Runs
      /\ data' = [data EXCEPT !["qa"] = Null]
      /\ UNCHANGED <<setup, notes, approved, page, registered, frame, worker, itemPageId, tab>>
    BY SetupType DEF SelectRun, store, ReviewInv
<1>2. "qa" \in Sides
    BY DEF Sides
<1>3. \A x \in fetchPage(itemPageId, r) :
         x \in Request /\ x.kind = "page" /\ x.page = itemPageId
    BY <1>1, SetupType, FetchPage DEF ReviewInv
<1>4. \A x \in fetchContent("qa", page, tab, r) :
         /\ x \in Request /\ x.kind = "content" /\ x.source \in Sources /\ frame = "loaded"
         /\ x.page = page.id /\ x.source = SourceOf(x.side)' /\ page # Nothing
    BY <1>1, <1>2, FetchedHere, SetupType DEF ReviewInv, SourceOf
<1>5. \A x, y \in fetchPage(itemPageId, r) : x = y
    BY DEF fetchPage
<1>6. /\ data' \in [Sides -> SideData] /\ data'["qa"] = Null
      /\ \A s \in Sides : data'[s] = data[s] \/ data'[s] = Null
    BY <1>1, <1>2, SetupType, NullType DEF ReviewInv
<1>7. \A x, y \in set : x.kind # "content" /\ y.kind # "content" => x = y
    BY <1>4, <1>5
<1>8. \A x \in set : /\ x \in Request
                     /\ x.kind = "page" \/ x.kind = "content"
                     /\ x.kind = "content" =>
                           /\ x.source \in Sources /\ frame = "loaded"
                           /\ x.page = page.id /\ x.source = SourceOf(x.side)' /\ page # Nothing
                     /\ x.kind # "content" => x.page = itemPageId
    BY <1>3, <1>4
<1> HIDE DEF set
<1> QED BY <1>1, <1>6, <1>7, <1>8, ActStep, SetupType DEF ReviewInv

\* A request about the selected page that needs the page.
LEMMA PageRequest ==
    ASSUME ReviewInv, Act, NEW x, Issue({x}), page # Nothing,
           x \in Request, x.kind \in {"note", "delete", "approval"}, x.page = itemPageId,
           x.kind \in {"note", "delete"} => x.arg \in Notes,
           x.kind = "approval" => x.arg \in Approvals,
           UNCHANGED <<setup, store, asked, page, data, registered, frame, worker>>
    PROVE  ReviewInv'
BY ActStep, SetupType DEF ReviewInv, store, asked

LEMMA NotesStep ==
    ASSUME ReviewInv, NEW x \in Notes, onSubmitComment(x) \/ deletePageComment(x)
    PROVE  ReviewInv'
<1> DEFINE c(kind) == Call(kind, "crawl", itemPageId, tab, qaRunId, x)
<1>1. \A kind \in {"note", "delete"} :
         /\ c(kind) \in Request /\ c(kind).kind = kind /\ c(kind).page = itemPageId
         /\ c(kind).arg = x
    BY SetupType DEF ReviewInv, Call, Request, Sides, Sources
<1>2. PICK kind \in {"note", "delete"} : Issue({c(kind)})
    BY DEF onSubmitComment, deletePageComment
<1>3. Act /\ page # Nothing
      /\ UNCHANGED <<setup, store, asked, page, data, registered, frame, worker>>
    BY DEF onSubmitComment, deletePageComment
<1> HIDE DEF c
<1> QED BY <1>1, <1>2, <1>3, PageRequest

LEMMA submitApprovalStep ==
    ASSUME ReviewInv, NEW a \in Approvals, submitApproval(a)
    PROVE  ReviewInv'
<1> DEFINE arg == IF page.approved = a THEN "none" ELSE a
           c == Call("approval", "crawl", itemPageId, tab, qaRunId, arg)
<1>1. arg \in Approvals
    BY DEF Approvals
<1>2. c \in Request /\ c.kind = "approval" /\ c.page = itemPageId /\ c.arg = arg
    BY <1>1, SetupType DEF ReviewInv, Call, Request, Sides, Sources
<1>3. Act /\ page # Nothing /\ Issue({c})
      /\ UNCHANGED <<setup, store, asked, page, data, registered, frame, worker>>
    BY DEF submitApproval
<1> HIDE DEF c, arg
<1> QED BY <1>1, <1>2, <1>3, PageRequest

-----------------------------------------------------------------------------
(* The hidden frame and the embedded replay-web-page.                        *)

\* Content is asked for by what loads: for a reviewer who waits the page is the selected one.
LEMMA LoadStep ==
    ASSUME ReviewInv, NEW set,
           \/ calls' = calls \cup Numbered(set) /\ sent' = sent + 1
           \/ UNCHANGED <<calls, sent>>,
           UNCHANGED <<setup, lapses, notes, approved, itemPageId, qaRunId, tab, page, data>>,
           worker' \subseteq Sources, registered' \in [Sides -> BOOLEAN],
           frame' = frame \/ (frame # "none" /\ frame' = "loaded"),
           \A s \in Sides : registered[s] => registered'[s],
           \A x \in set : /\ x \in Request /\ x.kind = "content" /\ x.source \in Sources
                          /\ frame' = "loaded" /\ page # Nothing
                          /\ x.page = page.id /\ x.source = SourceOf(x.side),
           Without({"hasty", "fault"}) /\ page # Nothing /\ set # {} => page.id = itemPageId
    PROVE  ReviewInv'
<1>1. \A c \in calls' : CallOK(c)'
    BY IssueTyped DEF ReviewInv
<1>2. Typed'
    BY <1>1 DEF ReviewInv, Typed
<1>3. ASSUME NEW c \in calls', c \notin calls
      PROVE  c.call \in set
    BY <1>3, NewCalls
<1>4. About' = About
    BY <1>3, NewCalls DEF About
<1>5. \A c \in Contents' : c \in Contents \/ c.call \in set
    BY <1>3 DEF Contents
<1>6. /\ Without({"hasty", "fault"})' <=> Without({"hasty", "fault"})
      /\ Without({"hasty", "fault", "replay"})' <=> Without({"hasty", "fault", "replay"})
    BY DEF Without
<1>7. OneRequest'
    BY <1>4, <1>6 DEF ReviewInv, OneRequest
<1>8. PageKnown'
    BY <1>4, <1>5, <1>6 DEF ReviewInv, PageKnown
<1>9. ContentKnown'
    BY <1>5, <1>6 DEF ReviewInv, ContentKnown, SourceOf
<1> QED BY <1>2, <1>7, <1>8, <1>9 DEF ReviewInv

LEMMA FrameLoadsStep ==
    ASSUME ReviewInv, FrameLoads
    PROVE  ReviewInv'
<1> DEFINE set == {Call("content", s, page.id, tab, SourceOf(s), Nothing) :
                      s \in {x \in Sides : x = "crawl" \/ tab # "replay"}}
<1>1. /\ frame = "loading" /\ frame' = "loaded"
      /\ UNCHANGED <<setup, lapses, notes, approved, itemPageId, qaRunId, tab, page, data,
                     registered, worker>>
    BY DEF FrameLoads, store, asked
<1>2. \/ calls' = calls \cup Numbered(set) /\ sent' = sent + 1
      \/ UNCHANGED <<calls, sent>>
  <2>1. Numbered(set) = {[n |-> sent + 1, call |->
                            Call("content", s, page.id, tab, SourceOf(s), Nothing)] :
                            s \in {x \in Sides : x = "crawl" \/ tab # "replay"}}
    BY DEF Numbered
  <2> HIDE DEF set
  <2> QED BY <2>1 DEF FrameLoads
<1>3. /\ page \in PageData /\ page # Nothing /\ worker \subseteq Sources
      /\ registered \in [Sides -> BOOLEAN]
    BY <1>1 DEF ReviewInv, Typed
<1>4. ASSUME NEW x \in set
      PROVE  /\ x \in Request /\ x.kind = "content" /\ x.source \in Sources
             /\ x.page = page.id /\ x.source = SourceOf(x.side)
  <2>1. PICK s \in Sides : x = Call("content", s, page.id, tab, SourceOf(s), Nothing)
    OBVIOUS
  <2>2. SourceOf(s) \in Sources /\ tab \in Tabs /\ page.id \in Pages
    BY <1>3, SetupType DEF ReviewInv, SourceOf, Sources, PageData
  <2> QED BY <2>1, <2>2 DEF Call, Request
<1>5. Without({"hasty", "fault"}) => page.id = itemPageId
    BY <1>1, <1>3 DEF ReviewInv, PageKnown
<1> HIDE DEF set
<1> QED BY <1>1, <1>2, <1>3, <1>4, <1>5, LoadStep

LEMMA RwpLoadsStep ==
    ASSUME ReviewInv, NEW side \in Sides, RwpLoads(side)
    PROVE  ReviewInv'
<1>1. SourceOf(side) \in Sources
    BY SetupType DEF ReviewInv, SourceOf, Sources
<1>2. /\ worker' \subseteq Sources
      /\ UNCHANGED <<setup, lapses, notes, approved, itemPageId, qaRunId, tab, page, data,
                     registered, frame, calls, sent>>
    BY <1>1 DEF RwpLoads, store, asked, ReviewInv, Typed
<1>3. registered \in [Sides -> BOOLEAN]
    BY DEF ReviewInv, Typed
<1> DEFINE set == {x \in Request : FALSE}
<1>4. set = {}
    OBVIOUS
<1> HIDE DEF set
<1> QED BY <1>2, <1>3, <1>4, LoadStep

LEMMA RwpMessageStep ==
    ASSUME ReviewInv, NEW side \in Sides, RwpMessage(side)
    PROVE  ReviewInv'
<1>1. PICK s \in Sides : /\ ~registered[s]
                         /\ registered' = [registered EXCEPT ![s] = TRUE]
                         /\ Issue(fetchContent(s, page, tab, qaRunId))
    BY DEF RwpMessage, Sides
<1>2. UNCHANGED <<setup, lapses, notes, approved, itemPageId, qaRunId, tab, page, data, frame, worker>>
    BY DEF RwpMessage, store, asked
<1>3. \A x \in fetchContent(s, page, tab, qaRunId) :
         /\ x \in Request /\ x.kind = "content" /\ x.source \in Sources
         /\ frame = "loaded" /\ page # Nothing
         /\ x.page = page.id /\ x.source = SourceOf(x.side)
    BY FetchedHere, SetupType DEF ReviewInv, SourceOf
<1>4. Without({"hasty", "fault"}) /\ page # Nothing => page.id = itemPageId
    BY <1>1 DEF ReviewInv, PageKnown
<1>5. /\ worker \subseteq Sources /\ registered' \in [Sides -> BOOLEAN]
      /\ \A x \in Sides : registered[x] => registered'[x]
    BY <1>1 DEF ReviewInv, Typed
<1> QED BY <1>1, <1>2, <1>3, <1>4, <1>5, LoadStep DEF Issue

-----------------------------------------------------------------------------
(* The theorem.                                                              *)

LEMMA InitReview == Init => ReviewInv
<1> SUFFICES ASSUME Init PROVE ReviewInv
    OBVIOUS
<1> DEFINE first == Call("page", "crawl", itemPageId, tab, qaRunId, Nothing)
<1>1. setup.runs \subseteq Runs /\ setup.tabs \subseteq Tabs
    BY ItemReviewAssumption DEF Init
<1>2. /\ setup \in Setups /\ itemPageId \in Pages /\ qaRunId \in Runs /\ tab \in Tabs
      /\ lapses = {} /\ sent = 1 /\ page = Nothing /\ frame = "none"
      /\ data = [s \in Sides |-> Null] /\ registered = [s \in Sides |-> FALSE]
      /\ notes = [p \in Pages |-> {}] /\ approved = [p \in Pages |-> "none"]
      /\ calls = {[n |-> 1, call |-> first]}
    BY <1>1 DEF Init
<1>3. worker \subseteq Sources
    BY <1>1 DEF Init, Sources
<1>4. first \in Request /\ first.kind = "page" /\ first.page = itemPageId
    BY <1>2 DEF Call, Request, Sides, Sources
<1> HIDE DEF first
<1>5. \A c \in calls : CallOK(c) /\ c.call = first
    BY <1>2, <1>4 DEF CallOK, Calls
<1>6. Typed
    BY <1>2, <1>3, <1>5, NullType DEF Typed, Approvals
<1>7. About = calls /\ Contents = {}
    BY <1>4, <1>5 DEF About, Contents
<1> QED BY <1>2, <1>4, <1>5, <1>6, <1>7, NullType DEF ReviewInv, OneRequest, PageKnown, ContentKnown

LEMMA ReviewStep == ReviewInv /\ [Next]_vars => ReviewInv'
<1> SUFFICES ASSUME ReviewInv, [Next]_vars PROVE ReviewInv'
    OBVIOUS
<1>1. CASE User
    BY <1>1, navToPageStep, SelectTabStep, SelectRunStep, NotesStep, submitApprovalStep DEF User
<1>2. CASE Loading
    BY <1>2, FrameLoadsStep, RwpLoadsStep, RwpMessageStep DEF Loading
<1>3. ASSUME NEW c \in calls, Answers(c) PROVE ReviewInv'
    BY <1>3, PageArrivesStep, NoteAddedStep, DeleteReadsStep, NoteDeletedStep,
       ApprovalStoredStep, RequestFailsStep, ContentArrivesStep DEF Answers
<1>4. CASE UNCHANGED vars
    BY <1>4 DEF vars, store, asked, ReviewInv, Typed, CallOK, OneRequest, PageKnown, ContentKnown,
       About, Contents, Without, SourceOf
<1> QED BY <1>1, <1>2, <1>3, <1>4 DEF Next

\* What is shown for review is what was selected: the page with its notes and its approval
\* as the server has them, and beside it content of this page and of the run selected, for a
\* reviewer who waits and whose requests succeed (fetchPage, fetchContentForTab).
THEOREM SelectedSafe == Spec => []SelectedIsShown
<1>1. Spec => []ReviewInv
    BY InitReview, ReviewStep, PTL DEF Spec
<1>2. ASSUME ReviewInv PROVE SelectedIsShown
  <2>1. TypeOK
    BY <1>2 DEF ReviewInv, Typed, TypeOK, CallOK, PageData, SideData, Sources
  <2>2. PageShown
    BY <1>2 DEF ReviewInv, PageShown, PageKnown, Quiet, About
  <2>3. ContentShown
    BY <1>2 DEF ReviewInv, Typed, ContentShown, ContentKnown
  <2> QED BY <2>1, <2>2, <2>3 DEF SelectedIsShown
<1> QED BY <1>1, <1>2, PTL
=============================================================================
