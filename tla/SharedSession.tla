--------------------------- MODULE SharedSession ---------------------------
(***************************************************************************)
(* The login session of the web application, shared by the tabs of one     *)
(* browser (frontend/src/utils/AuthService.ts, frontend/src/index.ts,      *)
(* frontend/src/pages/log-in.ts).  Every tab keeps the session in its own  *)
(* sessionStorage and in memory, renews its token, and tells the other     *)
(* tabs of every change over a BroadcastChannel.                           *)
(*                                                                         *)
(* A tab is a record; a handler of the code is an operator from the tab    *)
(* before it to the tab after it.  storage.setItem and storage.removeItem  *)
(* post a message exactly when the stored value changes, so the messages   *)
(* of a handler follow from the two records (see Become).                  *)
(***************************************************************************)
EXTENDS Naturals, Sequences, FiniteSets

CONSTANTS
  Tabs,        \* the tabs of the browser
  Users,       \* the accounts somebody may log in with
  OrgMembers,  \* the accounts that belong to an org
  None,        \* no session, no user
  Setups       \* of which a behaviour has one: the tabs and accounts that are used, the
               \* events that happen (MayHappen) and how many of them, how many tokens
               \* the server issues, how many API requests a tab has on their way

EventNames == {"open", "close", "reload", "login", "logout", "age", "fetch", "hide", "navigate"}

ASSUME SessionAssumption ==
  /\ OrgMembers \subseteq Users
  /\ None \notin Users
  /\ None \notin [username : Users, token : [owner : Users, n : Nat]]
  /\ Setups \subseteq [tabs : SUBSET Tabs, users : SUBSET Users, events : SUBSET EventNames,
                       maxEvents : Nat, tokens : Nat, fetches : Nat]

VARIABLES
  tab,      \* each tab's own state
  inbox,    \* BroadcastChannel messages on their way to a tab
  due,      \* tokens that are to be renewed at the next freshness check
  expired,  \* tokens the server rejects
  issued,   \* number of tokens issued
  events,   \* number of events so far
  missed,   \* some tab was not there to hear of a session another one had
  setup     \* of Setups (never changes)

vars == <<tab, inbox, due, expired, issued, events, missed, setup>>

MaxTokens == setup.tokens
MaxFetches == setup.fetches

---------------------------------------------------------------------------
\* A token names its owner; it is opaque to the application.
Token == [owner : Users, n : 1..MaxTokens]

\* What the application calls Auth: a user name and the token it sends.
Auth == [username : Users, token : Token]

\* The AuthService in use, and the ones clearUser has replaced.
Services == {"current", "replaced"}

\* The page a tab shows: the log-in page, one that needs a login, or a public one.
Pages == {"login", "org", "public"}

Message ==
  [name : {"requesting_auth"}, value : {None}]
    \cup [name : {"responding_auth", "auth_storage"}, value : Auth \cup {None}]

Tab ==
  [phase     : {"closed", "loading", "asking", "open"},
   page      : Pages,
   visible   : BOOLEAN,
   storage   : Auth \cup {None},    \* window.sessionStorage
   auth      : Auth \cup {None},    \* appState.auth
   userInfo  : Users \cup {None},   \* appState.userInfo
   timers    : SUBSET Services,     \* freshness timers that are set
   replaced  : BOOLEAN,             \* clearUser has replaced an AuthService
   refreshes : SUBSET [service : Services, token : Token],
   fetches   : SUBSET [path : {"me", "data"}, token : Token],
   login     : Users \cup {None}]   \* log-in request on its way

ClosedTab ==
  [phase |-> "closed", page |-> "public", visible |-> TRUE, storage |-> None,
   auth |-> None, userInfo |-> None, timers |-> {}, replaced |-> FALSE,
   refreshes |-> {}, fetches |-> {}, login |-> None]

---------------------------------------------------------------------------
\* The service's part: what the code does to one tab.

persist(r, auth) == [r EXCEPT !.auth = auth, !.storage = auth]

\* Mutant: the session stays in sessionStorage.
revoke_memory(r) == [r EXCEPT !.auth = None]

revoke(r) == [r EXCEPT !.auth = None, !.storage = None]

\* Mutant: the timer is set again without renewing the token.
checkFreshness_later(r, service) ==
  IF r.auth = None THEN r ELSE [r EXCEPT !.timers = @ \cup {service}]

\* A token that is due is renewed now, a fresh one is looked at again later.
checkFreshness(r, service) ==
  IF r.auth = None
  THEN r
  ELSE IF r.auth.token \in due
       THEN [r EXCEPT !.refreshes =
                        @ \cup {[service |-> service, token |-> r.auth.token]}]
       ELSE [r EXCEPT !.timers = @ \cup {service}]

startFreshnessCheck(r, service) ==
  checkFreshness([r EXCEPT !.timers = @ \ {service}], service)

saveLogin(r, auth) == startFreshnessCheck(persist(r, auth), "current")

logout(r, service) == revoke([r EXCEPT !.timers = @ \ {service}])

\* The listener for visibilitychange; every AuthService ever made has one.
onVisibility(r) ==
  IF r.auth = None
  THEN r
  ELSE IF r.visible
       THEN IF r.replaced
            THEN startFreshnessCheck(startFreshnessCheck(r, "replaced"), "current")
            ELSE startFreshnessCheck(r, "current")
       ELSE [r EXCEPT !.timers = {}]

---------------------------------------------------------------------------
\* The application's part.

\* The service is replaced, but what it has on its way still comes back.
clearUser(r) ==
  [logout(r, "current") EXCEPT
     !.userInfo = None,
     !.replaced = TRUE,
     !.refreshes = {[x EXCEPT !.service = "replaced"] : x \in @}]

onNeedLogin(r) == [clearUser(r) EXCEPT !.page = "login"]

\* A page that needs a login asks for it as soon as it is updated without one.
needLogin(r) ==
  IF r.page = "org" /\ r.auth = None /\ r.userInfo # None
  THEN onNeedLogin(r)
  ELSE r

fetchUserInfo(r) ==
  [r EXCEPT !.fetches = @ \cup {[path |-> "me", token |-> r.auth.token]}]

\* A logged-in tab that shows the log-in page is taken home.
syncViewState(r) ==
  IF r.auth # None /\ r.page = "login" THEN [r EXCEPT !.page = "org"] ELSE r

\* connectedCallback once the session to start with is known.
connected(r, auth) ==
  LET opened == syncViewState([r EXCEPT !.phase = "open"])
      saved  == IF auth = None THEN opened ELSE saveLogin(opened, auth)
  IN IF auth # None /\ r.userInfo = None THEN fetchUserInfo(saved) ELSE saved

\* Mutant: the name of a user who is still known is kept.
onLoggedIn_keeps(r, auth) ==
  [saveLogin(r, [auth EXCEPT !.username = IF r.userInfo = None THEN @ ELSE r.userInfo])
     EXCEPT !.page = "org"]

onLoggedIn(r, auth) ==
  LET saved == [saveLogin(r, auth) EXCEPT !.page = "org"]
  IN IF saved.userInfo = None
     THEN [saved EXCEPT !.userInfo = auth.username]
     ELSE saved

\* startSyncBrowserTabs: another tab stored or removed a session.
onAuthStorage(r, value) ==
  CASE value = r.storage -> r
    [] value # r.storage /\ value # None ->
         syncViewState(fetchUserInfo(saveLogin(r, value)))
    [] OTHER -> onNeedLogin(r)

---------------------------------------------------------------------------
Listening(t) == tab[t].phase \in {"asking", "open"}

\* The messages of one handler reach every other tab that is loaded.
Post(t, posts) ==
  inbox' = [u \in Tabs |->
              IF u # t /\ Listening(u) THEN inbox[u] \o posts ELSE inbox[u]]

\* Mutant: removing a session is not posted.
StorageChange_set(t, r) ==
  IF r.storage # tab[t].storage /\ r.storage # None
  THEN <<[name |-> "auth_storage", value |-> r.storage]>>
  ELSE <<>>

StorageChange(t, r) ==
  IF r.storage # tab[t].storage
  THEN <<[name |-> "auth_storage", value |-> r.storage]>>
  ELSE <<>>

\* Tab t becomes r, and posts what it stores or removes.
Become(t, r) ==
  /\ tab' = [tab EXCEPT ![t] = r]
  /\ Post(t, StorageChange(t, r))
  /\ missed' = (missed \/ (/\ StorageChange(t, r) # <<>>
                           /\ \E u \in Tabs \ {t} : tab[u].phase = "loading"))

MayHappen(e) ==
  /\ e \in setup.events
  /\ events < setup.maxEvents
  /\ events' = events + 1

Open(t) == tab[t].phase = "open"

\* A change of the session is on its way to tab t.
Unread(t) == \E i \in DOMAIN inbox[t] : inbox[t][i].name = "auth_storage"

---------------------------------------------------------------------------
\* Tabs come and go.

\* A new tab asks the others for their session (getSharedSessionAuth).
OpenTab(t) ==
  /\ tab[t].phase = "closed" /\ t \in setup.tabs
  /\ MayHappen("open")
  /\ \E p \in Pages : tab' = [tab EXCEPT ![t].phase = "asking", ![t].page = p]
  /\ Post(t, <<[name |-> "requesting_auth", value |-> None]>>)
  /\ UNCHANGED <<setup, due, expired, issued, missed>>

\* A reload keeps sessionStorage and loses everything else.
Reload(t) ==
  /\ Open(t)
  /\ MayHappen("reload")
  /\ tab' = [tab EXCEPT ![t] =
               [ClosedTab EXCEPT !.phase = "loading",
                                 !.page = tab[t].page,
                                 !.visible = tab[t].visible,
                                 !.storage = tab[t].storage,
                                 !.userInfo = tab[t].userInfo]]
  /\ inbox' = [inbox EXCEPT ![t] = <<>>]
  /\ missed' = (missed \/ Unread(t))
  /\ UNCHANGED <<setup, due, expired, issued>>

\* initSessionStorage after a reload: the tab's own session, or the others'.
Load(t) ==
  /\ tab[t].phase = "loading"
  /\ IF tab[t].storage # None
     THEN Become(t, connected(tab[t], tab[t].storage))
     ELSE /\ tab' = [tab EXCEPT ![t].phase = "asking"]
          /\ Post(t, <<[name |-> "requesting_auth", value |-> None]>>)
          /\ UNCHANGED missed
  /\ UNCHANGED <<setup, due, expired, issued, events>>

\* Nobody answered within 10 ms.
AskTimeout(t) ==
  /\ tab[t].phase = "asking"
  /\ tab' = [tab EXCEPT ![t] = connected(tab[t], None)]
  /\ missed' = (missed \/ \E u \in Tabs \ {t} : tab[u].storage # None)
  /\ UNCHANGED <<setup, inbox, due, expired, issued, events>>

CloseTab(t) ==
  /\ Open(t)
  /\ MayHappen("close")
  /\ tab' = [tab EXCEPT ![t] = ClosedTab]
  /\ inbox' = [inbox EXCEPT ![t] = <<>>]
  /\ missed' = (missed \/ Unread(t))
  /\ UNCHANGED <<setup, due, expired, issued>>

---------------------------------------------------------------------------
\* Messages from other tabs.

\* What a tab becomes by a message: while it asks, only an answer is heard.
heard(r, m) ==
  CASE r.phase = "asking" /\ m.name = "responding_auth" -> connected(r, m.value)
    [] r.phase = "open" /\ m.name = "auth_storage" -> onAuthStorage(r, m.value)
    [] OTHER -> r

Receive(t) ==
  /\ inbox[t] # <<>>
  /\ LET m == Head(inbox[t])
         r == heard(tab[t], m)
         posts == IF Open(t) /\ m.name = "requesting_auth"
                  THEN <<[name |-> "responding_auth", value |-> tab[t].storage]>>
                  ELSE StorageChange(t, r)
     IN /\ Cardinality(r.fetches) <= MaxFetches
        /\ tab' = [tab EXCEPT ![t] = r]
        /\ inbox' = [u \in Tabs |->
             IF u = t THEN Tail(inbox[t])
             ELSE IF Listening(u) THEN inbox[u] \o posts ELSE inbox[u]]
        /\ missed' = (\/ missed
                      \/ tab[t].phase = "asking" /\ m.name = "auth_storage"
                      \/ /\ StorageChange(t, r) # <<>>
                         /\ \E u \in Tabs \ {t} : tab[u].phase = "loading")
  /\ UNCHANGED <<setup, due, expired, issued, events>>

---------------------------------------------------------------------------
\* Log in and log out.

onSubmitLogIn(t, u) ==
  /\ Open(t)
  /\ tab[t].page = "login"
  /\ tab[t].login = None
  /\ MayHappen("login")
  /\ tab' = [tab EXCEPT ![t].login = u]
  /\ UNCHANGED <<setup, inbox, due, expired, issued, missed>>

\* The page stores the user first; its event is heard only while it is shown.
LogInAnswered(t) ==
  /\ Open(t)
  /\ tab[t].login # None
  /\ issued < MaxTokens
  /\ issued' = issued + 1
  /\ LET u == tab[t].login
         auth == [username |-> u, token |-> [owner |-> u, n |-> issued + 1]]
         r == [tab[t] EXCEPT !.login = None,
                             !.userInfo = IF u \in OrgMembers THEN u ELSE @]
     IN Become(t, IF r.page = "login" THEN onLoggedIn(r, auth) ELSE r)
  /\ UNCHANGED <<setup, due, expired, events>>

LogInRefused(t) ==
  /\ Open(t)
  /\ tab[t].login # None
  /\ tab' = [tab EXCEPT ![t].login = None]
  /\ UNCHANGED <<setup, inbox, due, expired, issued, events, missed>>

onLogOut(t) ==
  /\ Open(t)
  /\ tab[t].auth # None
  /\ MayHappen("logout")
  /\ Become(t, onNeedLogin(tab[t]))
  /\ UNCHANGED <<setup, due, expired, issued>>

\* The user goes to a public page, or to the log-in page when logged out.
Navigate(t) ==
  /\ Open(t)
  /\ MayHappen("navigate")
  /\ \E p \in Pages \ {tab[t].page} :
       Become(t, needLogin(syncViewState([tab[t] EXCEPT !.page = p])))
  /\ UNCHANGED <<setup, due, expired, issued>>

---------------------------------------------------------------------------
\* Keeping the token fresh.

\* Time passes for a token: first it is to be renewed, then it is rejected.
TokenAges ==
  \E t \in Tabs :
    LET a == tab[t].auth IN
      /\ a # None
      /\ a.token \notin expired
      /\ MayHappen("age")
      /\ due' = due \cup {a.token}
      /\ expired' = IF a.token \in due THEN expired \cup {a.token} ELSE expired
      /\ UNCHANGED <<setup, tab, inbox, issued, missed>>

TimerFires(t, service) ==
  /\ Open(t)
  /\ service \in tab[t].timers
  /\ tab[t].auth # None => tab[t].auth.token \in due
  /\ Become(t, startFreshnessCheck(tab[t], service))
  /\ UNCHANGED <<setup, due, expired, issued, events>>

\* The new token is put into whatever session the tab has by now; without one
\* the result has no user name, which authSchema refuses.
RefreshAnswered(t) ==
  /\ Open(t)
  /\ \E x \in tab[t].refreshes :
       /\ x.token \notin expired
       /\ issued < MaxTokens
       /\ issued' = issued + 1
       /\ LET r == [tab[t] EXCEPT !.refreshes = @ \ {x}]
              new == [owner |-> x.token.owner, n |-> issued + 1]
          IN Become(t, IF r.auth = None
                       THEN needLogin(logout(r, x.service))
                       ELSE [persist(r, [r.auth EXCEPT !.token = new])
                               EXCEPT !.timers = @ \cup {x.service}])
  /\ UNCHANGED <<setup, due, expired, events>>

\* Any failure ends the session, a rejected token or an unreachable server.
\* The event that asks for a login is sent to the window, where only the pages
\* that need a login notice that the session is gone.
RefreshFailed(t) ==
  /\ Open(t)
  /\ \E x \in tab[t].refreshes :
       Become(t, needLogin(logout([tab[t] EXCEPT !.refreshes = @ \ {x}],
                                  x.service)))
  /\ UNCHANGED <<setup, due, expired, issued, events>>

VisibilityChange(t) ==
  /\ Open(t)
  /\ MayHappen("hide")
  /\ Become(t, onVisibility([tab[t] EXCEPT !.visible = ~@]))
  /\ UNCHANGED <<setup, due, expired, issued>>

---------------------------------------------------------------------------
\* Requests to the API carry the token they were sent with.

Fetch(t) ==
  /\ Open(t)
  /\ tab[t].auth # None
  /\ Cardinality(tab[t].fetches) < MaxFetches
  /\ MayHappen("fetch")
  /\ tab' = [tab EXCEPT ![t].fetches =
               @ \cup {[path |-> "data", token |-> tab[t].auth.token]}]
  /\ UNCHANGED <<setup, inbox, due, expired, issued, missed>>

\* 401 logs out the session the tab has when the answer comes; the event that says so has no
\* detail, for want of which its listener fails before it leaves the page.
FetchAnswered(t) ==
  /\ Open(t)
  /\ \E f \in tab[t].fetches :
       LET r == [tab[t] EXCEPT !.fetches = @ \ {f}]
       IN Become(t, IF f.token \in expired THEN clearUser(r)
                    ELSE IF f.path = "me"
                         THEN [r EXCEPT !.userInfo = f.token.owner]
                         ELSE r)
  /\ UNCHANGED <<setup, due, expired, issued, events>>

---------------------------------------------------------------------------
Init ==
  /\ tab = [t \in Tabs |-> ClosedTab]
  /\ inbox = [t \in Tabs |-> <<>>]
  /\ due = {}
  /\ expired = {}
  /\ issued = 0
  /\ events = 0
  /\ missed = FALSE
  /\ setup \in Setups

\* What a tab does by itself, without an event from outside.
TabStep(t) ==
  \/ Load(t)
  \/ AskTimeout(t)
  \/ Receive(t)
  \/ LogInAnswered(t)
  \/ LogInRefused(t)
  \/ \E s \in Services : TimerFires(t, s)
  \/ RefreshAnswered(t)
  \/ RefreshFailed(t)
  \/ FetchAnswered(t)

UserStep(t) ==
  \/ OpenTab(t)
  \/ Reload(t)
  \/ CloseTab(t)
  \/ \E u \in setup.users : onSubmitLogIn(t, u)
  \/ onLogOut(t)
  \/ Navigate(t)
  \/ VisibilityChange(t)
  \/ Fetch(t)

Next ==
  \/ \E t \in Tabs : TabStep(t) \/ UserStep(t)
  \/ TokenAges

Spec == Init /\ [][Next]_vars

\* Messages are delivered, timers fire and requests are answered; that a user
\* does anything is not assumed.
FairSpec ==
  /\ Spec
  /\ \A t \in Tabs :
       /\ WF_vars(Load(t) \/ AskTimeout(t) \/ LogInAnswered(t) \/ LogInRefused(t))
       /\ WF_vars(Receive(t))
       /\ WF_vars((\E s \in Services : TimerFires(t, s)) \/ RefreshAnswered(t) \/ RefreshFailed(t))
       /\ WF_vars(FetchAnswered(t))

---------------------------------------------------------------------------
\* The values of the tabs and of what is on its way between them; a token that has
\* expired was due.
TypeOK ==
  /\ tab \in [Tabs -> Tab]
  /\ inbox \in [Tabs -> Seq(Message)]
  /\ due \subseteq Token
  /\ expired \subseteq due
  /\ issued \in 0..MaxTokens
  /\ events \in 0..setup.maxEvents /\ setup \in Setups
  /\ missed \in BOOLEAN

\* The session in memory (appState.auth) is the one in sessionStorage: a reload
\* neither ends a session nor brings one back (AuthService persist and revoke).
AuthIsStored ==
  \A t \in Tabs : Open(t) => tab[t].auth = tab[t].storage

\* When nothing is on its way between the tabs, and no tab was loading, asking or closing
\* while a session changed, all tabs have the same session: each change was
\* posted to every tab and taken over by it (startSyncBrowserTabs).
Quiet == \A t \in Tabs : inbox[t] = <<>> /\ tab[t].phase \in {"closed", "open"}

QuietTabsAgree ==
  Quiet /\ ~missed =>
    \A t, u \in Tabs : Open(t) /\ Open(u) => tab[t].storage = tab[u].storage

\* A visible tab with a session always has a timer set or a renewal on its way,
\* whatever happened to the AuthService that started them (checkFreshness,
\* cancelFreshnessCheck, clearUser).
KeptFresh ==
  \A t \in Tabs :
    Open(t) /\ tab[t].visible /\ tab[t].auth # None =>
      tab[t].timers # {} \/ tab[t].refreshes # {}

\* A session of one user with another user's token can only come from a renewal
\* answered after the tab's user has changed (checkFreshness merges the answer
\* into the session it finds).
Mixed(a) == a # None /\ a.username # a.token.owner

Sessions ==
  {tab[t].auth : t \in Tabs} \cup {tab[t].storage : t \in Tabs}
    \cup UNION {{inbox[t][i].value : i \in DOMAIN inbox[t]} : t \in Tabs}

MixedOnlyByLateRefresh ==
  [][ (\E a \in Sessions' : Mixed(a)) =>
        \/ \E a \in Sessions : Mixed(a)
        \/ \E t \in Tabs : \E x \in tab[t].refreshes :
             tab[t].auth # None /\ x.token.owner # tab[t].auth.username ]_vars

\* A visible tab whose token is to be renewed gets another one or logs out.
HasDueToken(t) ==
  Open(t) /\ tab[t].visible /\ tab[t].auth # None /\ tab[t].auth.token \in due

DueIsRefreshed == \A t \in Tabs : []<>~HasDueToken(t)

\* A tab keeps its session: what it has in memory, in its storage and in its timers is one
\* session (AuthService), through log-ins, log-outs, reloads and late answers.
SessionKept == TypeOK /\ AuthIsStored /\ KeptFresh
===========================================================================
