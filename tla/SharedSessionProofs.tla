------------------------ MODULE SharedSessionProofs ------------------------
(***************************************************************************)
(* Tabs keep their session and agree on it, for any number of tabs, users, *)
(* tokens and events: the invariants SessionKept and QuietTabsAgree of     *)
(* SharedSession, and its action property MixedOnlyByLateRefresh.          *)
(***************************************************************************)
EXTENDS SharedSession, SequenceTheorems, TLAPS

Session == Auth \cup {None}
Refresh == [service : Services, token : Token]
Request == [path : {"me", "data"}, token : Token]

\* TypeOK with the messages named.
Typed ==
  /\ tab \in [Tabs -> Tab]
  /\ inbox \in [Tabs -> Seq(Message)]
  /\ due \subseteq Token /\ expired \subseteq due
  /\ issued \in 0..MaxTokens
  /\ events \in 0..setup.maxEvents /\ setup \in Setups
  /\ missed \in BOOLEAN

\* A tab is looked after: a timer is set, or a renewal is on its way.
Watched(r) == r.timers # {} \/ r.refreshes # {}

\* An open tab has one session, in memory and in its storage, and looks after it.
OpenTabOK(r) ==
  /\ r \in Tab /\ r.phase = "open"
  /\ r.auth = r.storage
  /\ r.visible /\ r.auth # None => Watched(r)

\* A tab that is not open has no session in memory, and only one that is being loaded
\* again has one in its storage.
TabOK(r) ==
  /\ r \in Tab
  /\ r.phase = "open" => OpenTabOK(r)
  /\ r.phase # "open" => r.auth = None
  /\ r.phase \in {"closed", "asking"} => r.storage = None

---------------------------------------------------------------------------
(* Types.                                                                  *)

LEMMA TypesStay ==
  ASSUME setup' = setup
  PROVE  /\ MaxTokens' = MaxTokens /\ Token' = Token /\ Auth' = Auth /\ Session' = Session
         /\ Message' = Message /\ Tab' = Tab
BY DEF MaxTokens, Token, Auth, Session, Message, Tab

LEMMA Bounds ==
  ASSUME setup \in Setups
  PROVE  MaxTokens \in Nat /\ setup.maxEvents \in Nat
BY SessionAssumption DEF MaxTokens

LEMMA Fields ==
  ASSUME NEW r \in Tab
  PROVE  /\ r.phase \in {"closed", "loading", "asking", "open"} /\ r.page \in Pages
         /\ r.visible \in BOOLEAN /\ r.storage \in Session /\ r.auth \in Session
         /\ r.userInfo \in Users \cup {None} /\ r.timers \subseteq Services
         /\ r.refreshes \subseteq Refresh /\ r.fetches \subseteq Request
         /\ r.login \in Users \cup {None}
BY DEF Tab, Session, Refresh, Request

LEMMA AuthFields ==
  ASSUME NEW a \in Auth
  PROVE  a.username \in Users /\ a.token \in Token /\ a.token.owner \in Users
BY DEF Auth, Token

LEMMA ClosedType == TabOK(ClosedTab) /\ ClosedTab \in Tab
<1>1. ClosedTab \in Tab
  BY DEF ClosedTab, Tab, Pages
<1> QED BY <1>1 DEF ClosedTab, TabOK

---------------------------------------------------------------------------
(* What the code does to a tab.                                            *)

LEMMA PersistType ==
  ASSUME NEW r \in Tab, NEW a \in Session
  PROVE  /\ persist(r, a) \in Tab /\ persist(r, a).phase = r.phase
         /\ persist(r, a).auth = a /\ persist(r, a).storage = a
         /\ persist(r, a).visible = r.visible /\ persist(r, a).page = r.page
         /\ persist(r, a).timers = r.timers /\ persist(r, a).refreshes = r.refreshes
         /\ persist(r, a).fetches = r.fetches /\ persist(r, a).userInfo = r.userInfo
BY DEF persist, Tab, Session

\* A check renews the token of a session or sets a timer, and changes nothing else.
LEMMA CheckType ==
  ASSUME NEW r \in Tab, NEW s \in Services
  PROVE  LET c == startFreshnessCheck(r, s) IN
         /\ c \in Tab /\ c.phase = r.phase /\ c.auth = r.auth /\ c.storage = r.storage
         /\ c.visible = r.visible /\ c.page = r.page /\ c.userInfo = r.userInfo
         /\ c.fetches = r.fetches
         /\ r.auth # None => Watched(c)
<1> DEFINE b == [r EXCEPT !.timers = @ \ {s}]
<1>1. /\ b \in Tab /\ b.phase = r.phase /\ b.auth = r.auth /\ b.storage = r.storage
      /\ b.visible = r.visible /\ b.page = r.page /\ b.userInfo = r.userInfo
      /\ b.fetches = r.fetches
  BY DEF Tab
<1> HIDE DEF b
<1>2. CASE b.auth = None
  <2>1. startFreshnessCheck(r, s) = b
    BY <1>2 DEF startFreshnessCheck, checkFreshness, b
  <2> QED BY <1>1, <1>2, <2>1
<1>3. CASE b.auth # None /\ b.auth.token \in due
  <2>1. b.auth.token \in Token
    BY <1>1, <1>3, Fields, AuthFields DEF Session
  <2> DEFINE x == [service |-> s, token |-> b.auth.token]
  <2>2. x \in Refresh
    BY <2>1 DEF Refresh
  <2>3. startFreshnessCheck(r, s) = [b EXCEPT !.refreshes = @ \cup {x}]
    BY <1>3 DEF startFreshnessCheck, checkFreshness, b
  <2> HIDE DEF x
  <2>4. [b EXCEPT !.refreshes = @ \cup {x}] \in Tab
    BY <1>1, <2>2 DEF Tab, Refresh
  <2>5. /\ [b EXCEPT !.refreshes = @ \cup {x}].phase = b.phase
        /\ [b EXCEPT !.refreshes = @ \cup {x}].auth = b.auth
        /\ [b EXCEPT !.refreshes = @ \cup {x}].storage = b.storage
        /\ [b EXCEPT !.refreshes = @ \cup {x}].visible = b.visible
        /\ [b EXCEPT !.refreshes = @ \cup {x}].page = b.page
        /\ [b EXCEPT !.refreshes = @ \cup {x}].userInfo = b.userInfo
        /\ [b EXCEPT !.refreshes = @ \cup {x}].fetches = b.fetches
        /\ x \in [b EXCEPT !.refreshes = @ \cup {x}].refreshes
    BY <1>1 DEF Tab
  <2> QED BY <1>1, <2>3, <2>4, <2>5 DEF Watched
<1>4. CASE b.auth # None /\ b.auth.token \notin due
  <2> DEFINE c == [b EXCEPT !.timers = @ \cup {s}]
  <2>1. startFreshnessCheck(r, s) = c
    BY <1>4 DEF startFreshnessCheck, checkFreshness, b
  <2>2. /\ c \in Tab /\ c.phase = b.phase /\ c.auth = b.auth /\ c.storage = b.storage
        /\ c.visible = b.visible /\ c.page = b.page /\ c.userInfo = b.userInfo
        /\ c.fetches = b.fetches /\ s \in c.timers
    BY <1>1 DEF Tab
  <2> HIDE DEF c
  <2> QED BY <1>1, <2>1, <2>2 DEF Watched
<1> QED BY <1>2, <1>3, <1>4

LEMMA SaveLoginType ==
  ASSUME NEW r \in Tab, NEW a \in Auth, a # None
  PROVE  LET c == saveLogin(r, a) IN
         /\ c \in Tab /\ c.phase = r.phase /\ c.auth = a /\ c.storage = a
         /\ c.visible = r.visible /\ c.page = r.page /\ c.userInfo = r.userInfo
         /\ c.fetches = r.fetches
         /\ Watched(c)
<1>1. a \in Session /\ "current" \in Services
  BY DEF Session, Services
<1> QED BY <1>1, PersistType, CheckType DEF saveLogin

LEMMA LogoutType ==
  ASSUME NEW r \in Tab, NEW s \in Services
  PROVE  LET c == logout(r, s) IN
         /\ c \in Tab /\ c.phase = r.phase /\ c.auth = None /\ c.storage = None
         /\ c.visible = r.visible /\ c.page = r.page /\ c.userInfo = r.userInfo
<1> DEFINE b == [r EXCEPT !.timers = @ \ {s}]
           c == [b EXCEPT !.auth = None, !.storage = None]
<1>1. logout(r, s) = c
  BY DEF logout, revoke
<1>2. b \in Tab /\ b.phase = r.phase /\ b.visible = r.visible /\ b.page = r.page
      /\ b.userInfo = r.userInfo
  BY DEF Tab
<1> HIDE DEF b
<1>3. /\ c \in Tab /\ c.phase = b.phase /\ c.auth = None /\ c.storage = None
      /\ c.visible = b.visible /\ c.page = b.page /\ c.userInfo = b.userInfo
  BY <1>2 DEF Tab
<1> HIDE DEF c
<1> QED BY <1>1, <1>2, <1>3

LEMMA OnNeedLoginType ==
  ASSUME NEW r \in Tab
  PROVE  \A c \in {clearUser(r), onNeedLogin(r)} :
         c \in Tab /\ c.phase = r.phase /\ c.auth = None /\ c.storage = None
<1> DEFINE b == logout(r, "current")
           R == {[x EXCEPT !.service = "replaced"] : x \in b.refreshes}
           d == [b EXCEPT !.userInfo = None, !.replaced = TRUE, !.refreshes = R]
           c == [d EXCEPT !.page = "login"]
<1>1. b \in Tab /\ b.phase = r.phase /\ b.auth = None /\ b.storage = None
  BY LogoutType DEF Services
<1>2. clearUser(r) = d /\ onNeedLogin(r) = c
  BY DEF onNeedLogin, clearUser
<1> HIDE DEF b
<1>3. R \subseteq Refresh
  BY <1>1, Fields DEF Refresh, Services
<1> HIDE DEF R
<1>4. d \in Tab /\ d.phase = b.phase /\ d.auth = b.auth /\ d.storage = b.storage
  BY <1>1, <1>3 DEF Tab, Refresh
<1> HIDE DEF d
<1>5. c \in Tab /\ c.phase = d.phase /\ c.auth = d.auth /\ c.storage = d.storage
  BY <1>4 DEF Tab, Pages
<1> HIDE DEF c
<1> QED BY <1>1, <1>2, <1>4, <1>5

LEMMA FetchUserInfoType ==
  ASSUME NEW r \in Tab, r.auth \in Auth
  PROVE  LET c == fetchUserInfo(r) IN
         /\ c \in Tab /\ c.phase = r.phase /\ c.auth = r.auth /\ c.storage = r.storage
         /\ c.visible = r.visible /\ c.page = r.page
         /\ Watched(r) => Watched(c)
<1> DEFINE f == [path |-> "me", token |-> r.auth.token]
           c == [r EXCEPT !.fetches = @ \cup {f}]
<1>1. f \in Request
  BY AuthFields DEF Request
<1>2. fetchUserInfo(r) = c
  BY DEF fetchUserInfo
<1> HIDE DEF f
<1>3. /\ c \in Tab /\ c.phase = r.phase /\ c.auth = r.auth /\ c.storage = r.storage
      /\ c.visible = r.visible /\ c.page = r.page
      /\ c.timers = r.timers /\ c.refreshes = r.refreshes
  BY <1>1 DEF Tab, Request
<1> HIDE DEF c
<1> QED BY <1>2, <1>3 DEF Watched

\* A change of the page, and of nothing else.
LEMMA PageType ==
  ASSUME NEW r \in Tab, NEW p \in Pages
  PROVE  LET c == [r EXCEPT !.page = p] IN
         /\ c \in Tab /\ c.phase = r.phase /\ c.auth = r.auth /\ c.storage = r.storage
         /\ c.visible = r.visible /\ c.userInfo = r.userInfo /\ c.login = r.login
         /\ c.timers = r.timers /\ c.refreshes = r.refreshes /\ c.page = p
BY DEF Tab

LEMMA SyncViewStateType ==
  ASSUME NEW r \in Tab
  PROVE  LET c == syncViewState(r) IN
         /\ c \in Tab /\ c.phase = r.phase /\ c.auth = r.auth /\ c.storage = r.storage
         /\ c.visible = r.visible /\ c.userInfo = r.userInfo
         /\ c.timers = r.timers /\ c.refreshes = r.refreshes
<1>1. syncViewState(r) = r \/ syncViewState(r) = [r EXCEPT !.page = "org"]
  BY DEF syncViewState
<1>2. "org" \in Pages
  BY DEF Pages
<1> DEFINE c == [r EXCEPT !.page = "org"]
<1>3. /\ c \in Tab /\ c.phase = r.phase /\ c.auth = r.auth /\ c.storage = r.storage
      /\ c.visible = r.visible /\ c.userInfo = r.userInfo
      /\ c.timers = r.timers /\ c.refreshes = r.refreshes
  BY <1>2, PageType
<1> HIDE DEF c
<1> QED BY <1>1, <1>3 DEF c

\* A tab that starts: it takes over the session it is given, or has none.
LEMMA ConnectedType ==
  ASSUME NEW r \in Tab, NEW a \in Session, r.auth = None, a = None => r.storage = None
  PROVE  OpenTabOK(connected(r, a)) /\ connected(r, a).storage = a
<1> DEFINE b == [r EXCEPT !.phase = "open"]
           opened == syncViewState(b)
           saved == IF a = None THEN opened ELSE saveLogin(opened, a)
<1>1. /\ b \in Tab /\ b.phase = "open" /\ b.auth = None /\ b.storage = r.storage
      /\ b.visible = r.visible
  BY DEF Tab
<1>2. connected(r, a) = IF a # None /\ r.userInfo = None THEN fetchUserInfo(saved) ELSE saved
  BY DEF connected
<1> HIDE DEF b
<1>3. /\ opened \in Tab /\ opened.phase = "open" /\ opened.auth = None
      /\ opened.storage = r.storage
  BY <1>1, SyncViewStateType
<1> HIDE DEF opened
<1>4. CASE a = None
  BY <1>2, <1>3, <1>4 DEF OpenTabOK
<1>5. CASE a # None
  <2>1. a \in Auth
    BY <1>5 DEF Session
  <2>2. /\ saved \in Tab /\ saved.phase = "open" /\ saved.auth = a /\ saved.storage = a
        /\ Watched(saved)
    BY <1>3, <1>5, <2>1, SaveLoginType
  <2> HIDE DEF saved
  <2>3. CASE r.userInfo = None
    BY <1>2, <1>5, <2>1, <2>2, <2>3, FetchUserInfoType DEF OpenTabOK
  <2>4. CASE r.userInfo # None
    BY <1>2, <2>2, <2>4 DEF OpenTabOK
  <2> QED BY <2>3, <2>4
<1> QED BY <1>4, <1>5

LEMMA OnLoggedInType ==
  ASSUME NEW r \in Tab, r.phase = "open", NEW a \in Auth, a # None
  PROVE  OpenTabOK(onLoggedIn(r, a)) /\ onLoggedIn(r, a).storage = a
<1> DEFINE b == saveLogin(r, a)
           saved == [b EXCEPT !.page = "org"]
           c == [saved EXCEPT !.userInfo = a.username]
<1>1. b \in Tab /\ b.phase = "open" /\ b.auth = a /\ b.storage = a /\ Watched(b)
  BY SaveLoginType
<1>2. onLoggedIn(r, a) = saved \/ onLoggedIn(r, a) = c
  BY DEF onLoggedIn
<1> HIDE DEF b
<1>3. /\ saved \in Tab /\ saved.phase = "open" /\ saved.auth = a /\ saved.storage = a
      /\ Watched(saved)
  BY <1>1, PageType DEF Pages, Watched
<1>4. a.username \in Users
  BY AuthFields
<1> HIDE DEF saved
<1>5. /\ c \in Tab /\ c.phase = "open" /\ c.auth = a /\ c.storage = a
      /\ c.timers = saved.timers /\ c.refreshes = saved.refreshes
  BY <1>3, <1>4 DEF Tab
<1> HIDE DEF c
<1> QED BY <1>2, <1>3, <1>5 DEF OpenTabOK, Watched

\* A tab that hears of another session has this one.
LEMMA OnAuthStorageType ==
  ASSUME NEW r, OpenTabOK(r), NEW v \in Session
  PROVE  /\ OpenTabOK(onAuthStorage(r, v)) /\ onAuthStorage(r, v).storage = v
         /\ v = r.storage => onAuthStorage(r, v) = r
<1>1. r \in Tab /\ r.phase = "open"
  BY DEF OpenTabOK
<1>2. CASE v = r.storage
  BY <1>2 DEF onAuthStorage
<1>3. CASE v # r.storage /\ v # None
  <2> DEFINE b == saveLogin(r, v)
             d == fetchUserInfo(b)
  <2>1. v \in Auth
    BY <1>3 DEF Session
  <2>2. b \in Tab /\ b.phase = "open" /\ b.auth = v /\ b.storage = v /\ Watched(b)
    BY <1>1, <1>3, <2>1, SaveLoginType
  <2>3. onAuthStorage(r, v) = syncViewState(d)
    BY <1>3 DEF onAuthStorage
  <2> HIDE DEF b
  <2>4. d \in Tab /\ d.phase = "open" /\ d.auth = v /\ d.storage = v /\ Watched(d)
    BY <2>1, <2>2, FetchUserInfoType
  <2> HIDE DEF d
  <2> QED BY <1>3, <2>3, <2>4, SyncViewStateType DEF OpenTabOK, Watched
<1>4. CASE v # r.storage /\ v = None
  <2>1. onAuthStorage(r, v) = onNeedLogin(r)
    BY <1>4 DEF onAuthStorage
  <2> QED BY <1>1, <1>4, <2>1, OnNeedLoginType DEF OpenTabOK
<1> QED BY <1>2, <1>3, <1>4

\* A page that needs a login ends a session that is gone.
LEMMA NeedLoginType ==
  ASSUME NEW r, OpenTabOK(r)
  PROVE  OpenTabOK(needLogin(r)) /\ needLogin(r).storage = r.storage
<1>1. needLogin(r) = r \/ (r.auth = None /\ needLogin(r) = onNeedLogin(r))
  BY DEF needLogin
<1> QED BY <1>1, OnNeedLoginType DEF OpenTabOK

LEMMA OnVisibilityType ==
  ASSUME NEW r \in Tab, r.phase = "open", r.auth = r.storage
  PROVE  OpenTabOK(onVisibility(r)) /\ onVisibility(r).storage = r.storage
<1>1. CASE r.auth = None
  BY <1>1 DEF onVisibility, OpenTabOK
<1>2. CASE r.auth # None /\ r.visible
  <2>1. "current" \in Services /\ "replaced" \in Services
    BY DEF Services
  <2>2. PICK b \in Tab : /\ b.phase = "open" /\ b.auth = r.auth /\ b.storage = r.storage
                         /\ onVisibility(r) = startFreshnessCheck(b, "current")
    BY <1>2, <2>1, CheckType DEF onVisibility
  <2> QED BY <1>2, <2>1, <2>2, CheckType DEF OpenTabOK
<1>3. CASE r.auth # None /\ ~r.visible
  <2> DEFINE c == [r EXCEPT !.timers = {}]
  <2>1. onVisibility(r) = c
    BY <1>3 DEF onVisibility
  <2>2. /\ c \in Tab /\ c.phase = r.phase /\ c.auth = r.auth /\ c.storage = r.storage
        /\ c.visible = r.visible
    BY DEF Tab
  <2> HIDE DEF c
  <2> QED BY <1>3, <2>1, <2>2 DEF OpenTabOK
<1> QED BY <1>1, <1>2, <1>3

---------------------------------------------------------------------------
(* What a tab is told by the messages on their way to it.                  *)

\* Messages q tell of a session; the last one they tell of is v.
Tells(q) == \E i \in DOMAIN q : q[i].name = "auth_storage"
Told(q, v) ==
  \E i \in DOMAIN q :
    /\ q[i].name = "auth_storage" /\ q[i].value = v
    /\ \A j \in DOMAIN q : j > i => q[j].name # "auth_storage"

\* Some tab has answered that it has no session.
ToldOfNone(q) == \E i \in DOMAIN q : q[i].name = "responding_auth" /\ q[i].value = None

LEMMA MessageFields ==
  ASSUME NEW m \in Message
  PROVE  /\ m.name \in {"requesting_auth", "responding_auth", "auth_storage"}
         /\ m.value \in Session
<1>1. CASE m \in [name : {"requesting_auth"}, value : {None}]
  BY <1>1 DEF Session
<1>2. CASE m \in [name : {"responding_auth", "auth_storage"}, value : Auth \cup {None}]
  BY <1>2 DEF Session
<1> QED BY <1>1, <1>2 DEF Message

LEMMA Messages ==
  /\ [name |-> "requesting_auth", value |-> None] \in Message
  /\ \A v \in Session : /\ [name |-> "responding_auth", value |-> v] \in Message
                        /\ [name |-> "auth_storage", value |-> v] \in Message
BY DEF Message, Session

\* One more message.
LEMMA OneMore ==
  ASSUME NEW q \in Seq(Message), NEW m \in Message
  PROVE  /\ q \o <<m>> \in Seq(Message)
         /\ DOMAIN (q \o <<m>>) = DOMAIN q \cup {Len(q) + 1}
         /\ \A i \in DOMAIN q : (q \o <<m>>)[i] = q[i] /\ i \in Nat /\ i < Len(q) + 1
         /\ (q \o <<m>>)[Len(q) + 1] = m
         /\ Len(q) + 1 \in Nat
<1>1. Len(q) \in Nat /\ DOMAIN q = 1..Len(q)
  OBVIOUS
<1>2. q \o <<m>> \in Seq(Message) /\ Len(q \o <<m>>) = Len(q) + 1
  OBVIOUS
<1>3. DOMAIN (q \o <<m>>) = 1..(Len(q) + 1)
  BY <1>1, <1>2
<1>4. \A i \in 1..Len(q) : (q \o <<m>>)[i] = q[i]
  BY <1>1
<1>5. (q \o <<m>>)[Len(q) + 1] = m
  BY <1>1
<1> QED BY <1>1, <1>2, <1>3, <1>4, <1>5

\* A message about a session is the last word; others change nothing that is told.
LEMMA ToldMore ==
  ASSUME NEW q \in Seq(Message), NEW m \in Message
  PROVE  /\ q \o <<m>> \in Seq(Message)
         /\ m.name = "auth_storage" => Told(q \o <<m>>, m.value)
         /\ m.name # "auth_storage" =>
              /\ Tells(q \o <<m>>) => Tells(q)
              /\ \A v : Told(q, v) => Told(q \o <<m>>, v)
         /\ ToldOfNone(q \o <<m>>) =>
              ToldOfNone(q) \/ (m.name = "responding_auth" /\ m.value = None)
         /\ Tells(q) => Tells(q \o <<m>>)
<1> DEFINE n == Len(q) + 1
           p == q \o <<m>>
<1>1. /\ p \in Seq(Message) /\ DOMAIN p = DOMAIN q \cup {n} /\ n \in Nat
      /\ \A i \in DOMAIN q : p[i] = q[i] /\ i \in Nat /\ i < n
      /\ p[n] = m
  BY OneMore
<1> HIDE DEF n, p
<1>2. m.name = "auth_storage" => Told(p, m.value)
  BY <1>1 DEF Told
<1>3. m.name # "auth_storage" => (Tells(p) => Tells(q))
  BY <1>1 DEF Tells
<1>4. m.name # "auth_storage" => \A v : Told(q, v) => Told(p, v)
  BY <1>1 DEF Told
<1>5. ToldOfNone(p) => ToldOfNone(q) \/ (m.name = "responding_auth" /\ m.value = None)
  BY <1>1 DEF ToldOfNone
<1>6. Tells(q) => Tells(p)
  BY <1>1 DEF Tells
<1> QED BY <1>1, <1>2, <1>3, <1>4, <1>5, <1>6 DEF p

\* The first message is read.
LEMMA ToldRest ==
  ASSUME NEW q \in Seq(Message), q # <<>>
  PROVE  /\ Tail(q) \in Seq(Message) /\ Head(q) \in Message
         /\ Tells(Tail(q)) => Tells(q)
         /\ Tells(q) => Head(q).name = "auth_storage" \/ Tells(Tail(q))
         /\ Head(q).name = "auth_storage" => Tells(q)
         /\ ToldOfNone(Tail(q)) => ToldOfNone(q)
         /\ Head(q).name = "responding_auth" /\ Head(q).value = None => ToldOfNone(q)
         /\ \A v : Told(q, v) => \/ Told(Tail(q), v)
                                 \/ /\ ~Tells(Tail(q))
                                    /\ Head(q).name = "auth_storage" /\ Head(q).value = v
         /\ \A v : Told(q, v) => Tells(q)
<1> DEFINE p == Tail(q)
           n == Len(q)
<1>1. n \in Nat /\ n >= 1 /\ DOMAIN q = 1..n /\ q[1] \in Message /\ Head(q) = q[1]
  OBVIOUS
<1>2. p \in Seq(Message) /\ Len(p) = n - 1
  OBVIOUS
<1>3. DOMAIN p = 1..(n - 1)
  BY <1>1, <1>2
<1>4. \A i \in 1..(n - 1) : p[i] = q[i + 1]
  OBVIOUS
<1>5. \A i \in DOMAIN p : i \in Nat /\ i >= 1 /\ i + 1 \in DOMAIN q /\ p[i] = q[i + 1]
  BY <1>1, <1>3, <1>4
<1>6. \A i \in DOMAIN q : i \in Nat /\ (i = 1 \/ (i > 1 /\ i - 1 \in DOMAIN p /\ q[i] = p[i - 1]))
  BY <1>1, <1>3, <1>4
<1>7. 1 \in DOMAIN q
  BY <1>1
<1> HIDE DEF p, n
<1>8. Tells(p) => Tells(q)
  BY <1>5 DEF Tells
<1>9. Tells(q) => q[1].name = "auth_storage" \/ Tells(p)
  BY <1>6 DEF Tells
<1>10. q[1].name = "auth_storage" => Tells(q)
  BY <1>7 DEF Tells
<1>11. ToldOfNone(p) => ToldOfNone(q)
  BY <1>5 DEF ToldOfNone
<1>12. q[1].name = "responding_auth" /\ q[1].value = None => ToldOfNone(q)
  BY <1>7 DEF ToldOfNone
<1>13. ASSUME NEW v, Told(q, v)
       PROVE  /\ Tells(q)
              /\ \/ Told(p, v)
                 \/ ~Tells(p) /\ q[1].name = "auth_storage" /\ q[1].value = v
  <2>1. PICK i \in DOMAIN q :
            /\ q[i].name = "auth_storage" /\ q[i].value = v
            /\ \A j \in DOMAIN q : j > i => q[j].name # "auth_storage"
    BY <1>13 DEF Told
  <2>2. Tells(q)
    BY <2>1 DEF Tells
  <2>3. CASE i = 1
    <3>1. \A j \in DOMAIN p : j + 1 \in DOMAIN q /\ j + 1 > 1 /\ p[j] = q[j + 1]
      BY <1>5
    <3> QED BY <2>1, <2>2, <2>3, <3>1 DEF Tells
  <2>4. CASE i # 1
    <3>1. i - 1 \in DOMAIN p /\ p[i - 1] = q[i]
      BY <1>6, <2>4
    <3>2. \A j \in DOMAIN p : j > i - 1 => j + 1 \in DOMAIN q /\ j + 1 > i /\ p[j] = q[j + 1]
      BY <1>5, <1>6
    <3>3. \A j \in DOMAIN p : j > i - 1 => p[j].name # "auth_storage"
      BY <2>1, <3>2
    <3>4. Told(p, v)
      BY <2>1, <3>1, <3>3 DEF Told
    <3> QED BY <2>2, <3>4
  <2> QED BY <2>3, <2>4
<1> QED BY <1>1, <1>2, <1>8, <1>9, <1>10, <1>11, <1>12, <1>13 DEF p

\* The sessions that messages hold.
Values(q) == {q[i].value : i \in DOMAIN q}

LEMMA ValuesStay ==
  ASSUME NEW q \in Seq(Message)
  PROVE  /\ \A m \in Message : \A a \in Values(q \o <<m>>) : a \in Values(q) \/ a = m.value
         /\ q # <<>> => \A a \in Values(Tail(q)) : a \in Values(q)
         /\ Values(<<>>) = {}
<1>1. ASSUME NEW m \in Message, NEW a \in Values(q \o <<m>>)
      PROVE  a \in Values(q) \/ a = m.value
  BY <1>1, OneMore DEF Values
<1>2. ASSUME q # <<>>
      PROVE  \A a \in Values(Tail(q)) : a \in Values(q)
  <2>1. Len(q) \in Nat /\ Len(q) >= 1 /\ DOMAIN q = 1..Len(q)
    BY <1>2
  <2>2. /\ DOMAIN Tail(q) = 1..(Len(q) - 1)
        /\ \A i \in 1..(Len(q) - 1) : Tail(q)[i] = q[i + 1]
    BY <1>2, <2>1
  <2>3. \A i \in DOMAIN Tail(q) : i + 1 \in DOMAIN q /\ Tail(q)[i] = q[i + 1]
    BY <2>1, <2>2
  <2> QED BY <2>3 DEF Values
<1>3. Values(<<>>) = {}
  BY DEF Values
<1> QED BY <1>1, <1>2, <1>3

LEMMA NothingTold ==
  ~Tells(<<>>) /\ ~ToldOfNone(<<>>) /\ \A v : ~Told(<<>>, v)
BY DEF Tells, ToldOfNone, Told

---------------------------------------------------------------------------
(* The inductive invariant.                                                *)

\* Only tabs that listen have messages on their way.
Unheard == \A u \in Tabs : tab[u].phase \in {"closed", "loading"} => inbox[u] = <<>>

\* A tab has v, or has the session x of another one that will be told of v, and will pass
\* v on when it takes it over.
Held(x, v) == x = v \/ \E s \in Tabs : Told(inbox[s], v) /\ tab[s].storage = x

\* The tabs come to the session v, the last one that was stored or removed: they are told of
\* it last (or have stored it themselves, and are told of an earlier one), or have it already.
SettledOn(v) ==
  /\ \A u \in Tabs : Tells(inbox[u]) =>
        Told(inbox[u], v) \/ (Open(u) /\ tab[u].storage = v)
  /\ \A u \in Tabs : tab[u].phase \in {"open", "loading"} /\ ~Tells(inbox[u]) =>
        Held(tab[u].storage, v)
  /\ \A u \in Tabs : tab[u].phase = "asking" /\ ~Tells(inbox[u]) /\ ToldOfNone(inbox[u]) =>
        Held(None, v)

\* Unless a change was missed there is such a session; every tab is consistent by itself.
TabsSettle == ~missed => \E v \in Session : SettledOn(v)

TabsOK == \A u \in Tabs : TabOK(tab[u])

SessionInv == Typed /\ TabsOK /\ Unheard /\ TabsSettle

\* The variables that no tab owns stay within their types.
Rest ==
  /\ UNCHANGED setup
  /\ due' \subseteq Token /\ expired' \subseteq due'
  /\ issued' \in 0..MaxTokens /\ events' \in 0..setup.maxEvents

\* No session is of one user with another one's token, and no renewal on its way is of
\* another user than the tab's.
Unmixed ==
  \A u \in Tabs : /\ ~Mixed(tab[u].auth) /\ ~Mixed(tab[u].storage)
                 /\ \A a \in Values(inbox[u]) : ~Mixed(a)
InTime ==
  \A u \in Tabs : \A x \in tab[u].refreshes :
    tab[u].auth # None => x.token.owner = tab[u].auth.username

\* What a step may not do.
StaysUnmixed == Unmixed /\ InTime => Unmixed'

---------------------------------------------------------------------------
(* Steps of one tab.                                                       *)

\* Tab t becomes r.
LEMMA TabBecomes ==
  ASSUME Typed, TabsOK, Rest, NEW t \in Tabs, NEW r, TabOK(r), tab' = [tab EXCEPT ![t] = r],
         inbox' \in [Tabs -> Seq(Message)], missed' \in BOOLEAN
  PROVE  /\ Typed' /\ TabsOK'
         /\ tab'[t] = r /\ \A u \in Tabs : u # t => tab'[u] = tab[u]
<1>1. /\ MaxTokens' = MaxTokens /\ Token' = Token /\ Auth' = Auth /\ Session' = Session
      /\ Message' = Message /\ Tab' = Tab
  BY TypesStay DEF Rest
<1>2. r \in Tab
  BY DEF TabOK
<1>3. /\ tab' \in [Tabs -> Tab] /\ tab'[t] = r
      /\ \A u \in Tabs : u # t => tab'[u] = tab[u]
  BY <1>2 DEF Typed
<1>4. Typed'
  BY <1>1, <1>3 DEF Typed, Rest
<1>5. \A x : TabOK(x) => /\ x \in Tab'
                         /\ x.phase = "open" => /\ x.auth = x.storage
                                                /\ x.visible /\ x.auth # None => Watched(x)
                         /\ x.phase # "open" => x.auth = None
                         /\ x.phase \in {"closed", "asking"} => x.storage = None
  BY <1>1 DEF TabOK, OpenTabOK
<1>6. \A u \in Tabs : TabOK(tab'[u])
  BY <1>3 DEF TabsOK
<1>7. TabsOK'
  BY <1>5, <1>6 DEF TabsOK, TabOK, OpenTabOK, Watched
<1> QED BY <1>3, <1>4, <1>7

LEMMA UnmixedBecomes ==
  ASSUME NEW t \in Tabs, NEW r, TabOK(r),
         tab'[t] = r, \A u \in Tabs : u # t => tab'[u] = tab[u],
         Unmixed /\ InTime => ~Mixed(r.storage),
         \A u \in Tabs : \A a \in Values(inbox'[u]) :
            a \in Values(inbox[u]) \/ a \in {None, r.storage, tab[t].storage}
  PROVE  StaysUnmixed
<1>1. ~Mixed(None)
  BY DEF Mixed
<1>2. r.auth = None \/ r.auth = r.storage
  BY DEF TabOK, OpenTabOK
<1> QED BY <1>1, <1>2 DEF StaysUnmixed, Unmixed

LEMMA HeldStays ==
  ASSUME NEW v, NEW x, Held(x, v),
         \A s \in Tabs : Told(inbox[s], v) =>
            \/ Told(inbox'[s], v) /\ tab'[s].storage = tab[s].storage
            \/ tab[s].storage = v
  PROVE  Held(x, v)'
BY DEF Held

\* Nothing is posted, and the tab keeps its session.
LEMMA SameStep ==
  ASSUME SessionInv, Rest, NEW t \in Tabs, NEW r, TabOK(r), tab' = [tab EXCEPT ![t] = r],
         r.storage = tab[t].storage,
         r.phase = tab[t].phase \/ (tab[t].phase = "loading" /\ r.phase = "open"),
         inbox' = inbox, missed' = missed
  PROVE  SessionInv' /\ StaysUnmixed
<1> USE DEF SessionInv
<1>1. /\ Typed' /\ TabsOK'
      /\ tab'[t] = r /\ \A u \in Tabs : u # t => tab'[u] = tab[u]
  BY TabBecomes DEF Typed
<1>2. \A u \in Tabs : /\ tab'[u].storage = tab[u].storage
                      /\ \/ tab'[u].phase = tab[u].phase
                         \/ tab[u].phase = "loading" /\ tab'[u].phase = "open"
  BY <1>1
<1>3. Unheard'
  BY <1>2 DEF Unheard
<1>4. ASSUME NEW v \in Session, SettledOn(v)
      PROVE  SettledOn(v)'
  <2>1. \A x : Held(x, v) => Held(x, v)'
    BY <1>2, HeldStays
  <2>2. \A u \in Tabs : Open(u) => Open(u)'
    BY <1>2 DEF Open
  <2>3. \A u \in Tabs : tab'[u].phase \in {"open", "loading"} => tab[u].phase \in {"open", "loading"}
    BY <1>2
  <2>4. \A u \in Tabs : tab'[u].phase = "asking" => tab[u].phase = "asking"
    BY <1>2
  <2> QED BY <1>2, <1>4, <2>1, <2>2, <2>3, <2>4 DEF SettledOn
<1>5. TabsSettle'
  <2>1. Session' = Session
    BY TypesStay DEF Rest
  <2> QED BY <1>4, <2>1 DEF TabsSettle
<1>6. StaysUnmixed
  BY <1>1, UnmixedBecomes DEF Unmixed
<1> QED BY <1>1, <1>3, <1>5, <1>6

\* A tab stores or removes a session, and posts it: it is the one the tabs come to.
LEMMA ChangeStep ==
  ASSUME SessionInv, Rest, NEW t \in Tabs, NEW r, OpenTabOK(r), tab' = [tab EXCEPT ![t] = r],
         inbox' \in [Tabs -> Seq(Message)],
         \A u \in Tabs : u # t =>
            inbox'[u] = IF Listening(u)
                        THEN inbox[u] \o <<[name |-> "auth_storage", value |-> r.storage]>>
                        ELSE inbox[u],
         inbox'[t] = inbox[t] \/ (inbox[t] # <<>> /\ inbox'[t] = Tail(inbox[t])),
         missed' \in BOOLEAN,
         ~missed' => \A u \in Tabs : u # t => tab[u].phase # "loading",
         Unmixed /\ InTime => ~Mixed(r.storage)
  PROVE  SessionInv' /\ StaysUnmixed
<1> USE DEF SessionInv
<1> DEFINE v == r.storage
           m == [name |-> "auth_storage", value |-> v]
<1>0. TabOK(r) /\ v \in Session
  BY Fields DEF TabOK, OpenTabOK
<1>1. /\ Typed' /\ TabsOK'
      /\ tab'[t] = r /\ \A u \in Tabs : u # t => tab'[u] = tab[u]
  BY <1>0, TabBecomes DEF Typed
<1>2. m \in Message /\ m.name = "auth_storage" /\ m.value = v
  BY <1>0, Messages
<1> HIDE DEF m
<1>3. \A u \in Tabs : u # t /\ Listening(u) => Told(inbox'[u], v) /\ Tells(inbox'[u])
  <2>1. ASSUME NEW u \in Tabs, u # t, Listening(u)
        PROVE  Told(inbox'[u], v)
    BY <1>2, <2>1, ToldMore DEF Typed, m
  <2>2. \A u \in Tabs : Told(inbox'[u], v) => Tells(inbox'[u])
    BY DEF Told, Tells
  <2> QED BY <2>1, <2>2
<1>4. \A u \in Tabs : u # t /\ ~Listening(u) =>
         tab[u].phase \in {"closed", "loading"} /\ inbox'[u] = <<>>
  BY Fields DEF Typed, Listening, Unheard
<1>5. tab'[t].phase = "open" /\ tab'[t].storage = v
  BY <1>1 DEF OpenTabOK
<1> HIDE DEF v
<1>6. Unheard'
  BY <1>1, <1>4, <1>5 DEF Unheard, Listening
<1>7. ~missed' => SettledOn(v)'
  <2> SUFFICES ASSUME ~missed' PROVE SettledOn(v)'
    OBVIOUS
  <2>1. \A u \in Tabs : Tells(inbox'[u]) =>
           Told(inbox'[u], v) \/ (tab'[u].phase = "open" /\ tab'[u].storage = v)
    BY <1>3, <1>4, <1>5, NothingTold
  <2>2. \A u \in Tabs : tab'[u].phase \in {"open", "loading"} /\ ~Tells(inbox'[u]) =>
           tab'[u].storage = v
    BY <1>1, <1>3, <1>4, <1>5 DEF Listening
  <2>3. \A u \in Tabs : tab'[u].phase = "asking" => Tells(inbox'[u])
    BY <1>1, <1>3, <1>4, <1>5 DEF Listening
  <2> QED BY <2>1, <2>2, <2>3 DEF SettledOn, Held, Open
<1>8. Session' = Session
  BY TypesStay DEF Rest
<1>9. \A u \in Tabs : \A a \in Values(inbox'[u]) : a \in Values(inbox[u]) \/ a = v
  <2> TAKE u \in Tabs
  <2>1. inbox[u] \in Seq(Message)
    BY DEF Typed
  <2>2. CASE u = t
    BY <2>1, <2>2, ValuesStay
  <2>3. CASE u # t /\ inbox'[u] = inbox[u]
    BY <2>3
  <2>4. CASE u # t /\ inbox'[u] = inbox[u] \o <<m>>
    BY <1>2, <2>1, <2>4, ValuesStay
  <2> QED BY <2>2, <2>3, <2>4 DEF m, v
<1>10. StaysUnmixed
  BY <1>0, <1>1, <1>9, UnmixedBecomes DEF v
<1> QED BY <1>0, <1>1, <1>6, <1>7, <1>8, <1>10 DEF TabsSettle, v

\* Tab t becomes r by a handler of the code, and posts what it stores or removes.
LEMMA BecomeStep ==
  ASSUME SessionInv, Rest, NEW t \in Tabs, NEW r, OpenTabOK(r), Become(t, r),
         Open(t) \/ (tab[t].phase = "loading" /\ r.storage = tab[t].storage),
         Unmixed /\ InTime => ~Mixed(r.storage)
  PROVE  SessionInv' /\ StaysUnmixed
<1> USE DEF SessionInv
<1>1. tab' = [tab EXCEPT ![t] = r] /\ Post(t, StorageChange(t, r))
  BY DEF Become
<1>2. CASE r.storage = tab[t].storage
  <2>1. StorageChange(t, r) = <<>>
    BY <1>2 DEF StorageChange
  <2>2. \A u \in Tabs : inbox[u] \in Seq(Message) /\ inbox[u] \o <<>> = inbox[u]
    BY DEF Typed
  <2>3. inbox' = inbox
    BY <1>1, <2>1, <2>2 DEF Post, Typed
  <2>4. missed' = missed
    BY <2>1 DEF Become, Typed
  <2>5. TabOK(r) /\ r.phase = "open"
    BY DEF OpenTabOK, TabOK
  <2> QED BY <1>1, <1>2, <2>3, <2>4, <2>5, SameStep DEF Open
<1>3. CASE r.storage # tab[t].storage
  <2> DEFINE m == [name |-> "auth_storage", value |-> r.storage]
  <2>1. StorageChange(t, r) = <<m>>
    BY <1>3 DEF StorageChange
  <2>2. m \in Message
    BY Messages, Fields DEF OpenTabOK
  <2> HIDE DEF m
  <2>3. inbox' = [u \in Tabs |-> IF u # t /\ Listening(u) THEN inbox[u] \o <<m>> ELSE inbox[u]]
    BY <1>1, <2>1 DEF Post
  <2>4. \A u \in Tabs : inbox[u] \in Seq(Message) /\ inbox[u] \o <<m>> \in Seq(Message)
    BY <2>2, OneMore DEF Typed
  <2>5. inbox' \in [Tabs -> Seq(Message)]
    BY <2>3, <2>4
  <2>6. <<m>> # <<>>
    OBVIOUS
  <2>7. missed' \in BOOLEAN /\ (~missed' => \A u \in Tabs : u # t => tab[u].phase # "loading")
    BY <2>1, <2>6 DEF Become, Typed
  <2>8. inbox'[t] = inbox[t]
    BY <2>3
  <2> QED BY <1>1, <2>3, <2>5, <2>7, <2>8, ChangeStep DEF m
<1> QED BY <1>2, <1>3

---------------------------------------------------------------------------
(* Log in and out, and keeping the token fresh.                            *)

LEMMA MayHappenType ==
  ASSUME Typed, NEW e, MayHappen(e), setup' = setup
  PROVE  events' \in 0..setup.maxEvents
<1>1. setup.maxEvents \in Nat
  BY Bounds DEF Typed
<1> QED BY <1>1 DEF Typed, MayHappen

\* What the steps of one open tab leave alone.
LEMMA RestStays ==
  ASSUME Typed, UNCHANGED <<setup, due, expired, issued>>,
         events' = events \/ \E e \in EventNames : MayHappen(e)
  PROVE  Rest
<1>1. events' \in 0..setup.maxEvents
  BY MayHappenType DEF Typed
<1> QED BY <1>1 DEF Rest, Typed

LEMMA OpenTabs ==
  ASSUME SessionInv, NEW t \in Tabs, Open(t)
  PROVE  OpenTabOK(tab[t]) /\ tab[t] \in Tab /\ tab[t].phase = "open"
BY DEF SessionInv, TabsOK, TabOK, Open

\* A session that is there, or none, is not mixed where none is.
LEMMA KeptUnmixed ==
  ASSUME NEW t \in Tabs, NEW a, a \in {None, tab[t].storage}
  PROVE  Unmixed /\ InTime => ~Mixed(a)
BY DEF Unmixed, Mixed

LEMMA IssuedType ==
  ASSUME Typed, issued < MaxTokens
  PROVE  issued + 1 \in 0..MaxTokens /\ \A u \in Users : [owner |-> u, n |-> issued + 1] \in Token
<1>1. MaxTokens \in Nat
  BY Bounds DEF Typed
<1>2. issued + 1 \in 1..MaxTokens
  BY <1>1 DEF Typed
<1> QED BY <1>1, <1>2 DEF Token

LEMMA AuthNotNone ==
  ASSUME setup \in Setups
  PROVE  None \notin Auth
<1>1. 1..MaxTokens \subseteq Nat
  BY Bounds
<1> QED BY <1>1, SessionAssumption DEF Auth, Token

\* A log-in request is sent, or refused; an API request is sent.
LEMMA RequestStep ==
  ASSUME SessionInv, NEW t \in Tabs,
         (\E u \in setup.users : onSubmitLogIn(t, u)) \/ LogInRefused(t) \/ Fetch(t)
  PROVE  SessionInv' /\ StaysUnmixed
<1> USE DEF SessionInv
<1>1. OpenTabOK(tab[t]) /\ tab[t] \in Tab /\ tab[t].phase = "open"
  BY OpenTabs DEF onSubmitLogIn, LogInRefused, Fetch
<1>2. /\ UNCHANGED <<setup, due, expired, issued, inbox, missed>>
      /\ events' = events \/ \E e \in EventNames : MayHappen(e)
  BY DEF onSubmitLogIn, LogInRefused, Fetch, EventNames
<1>3. Rest
  BY <1>2, RestStays
<1> SUFFICES ASSUME NEW r, tab' = [tab EXCEPT ![t] = r], r \in Tab, r.phase = "open",
                    r.auth = tab[t].auth, r.storage = tab[t].storage,
                    r.visible = tab[t].visible, r.timers = tab[t].timers,
                    r.refreshes = tab[t].refreshes
             PROVE  SessionInv' /\ StaysUnmixed
  <2>1. ASSUME NEW u \in Users \cup {None}, tab' = [tab EXCEPT ![t].login = u]
        PROVE  SessionInv' /\ StaysUnmixed
    <3> DEFINE r == [tab[t] EXCEPT !.login = u]
    <3>1. /\ r \in Tab /\ r.phase = "open" /\ r.auth = tab[t].auth
          /\ r.storage = tab[t].storage /\ r.visible = tab[t].visible
          /\ r.timers = tab[t].timers /\ r.refreshes = tab[t].refreshes
      BY <1>1 DEF Tab
    <3>2. tab' = [tab EXCEPT ![t] = r]
      BY <2>1 DEF Typed
    <3> HIDE DEF r
    <3> QED BY <3>1, <3>2
  <2>2. CASE \E u \in setup.users : onSubmitLogIn(t, u)
    <3>1. setup.users \subseteq Users
      BY SessionAssumption DEF Typed
    <3> QED BY <2>1, <2>2, <3>1 DEF onSubmitLogIn
  <2>3. CASE LogInRefused(t)
    BY <2>1, <2>3 DEF LogInRefused
  <2>4. CASE Fetch(t)
    <3> DEFINE f == [path |-> "data", token |-> tab[t].auth.token]
               r == [tab[t] EXCEPT !.fetches = @ \cup {f}]
    <3>1. tab[t].auth \in Auth
      BY <1>1, <2>4, Fields DEF Fetch, Session
    <3>2. f \in Request
      BY <3>1, AuthFields DEF Request
    <3>3. tab' = [tab EXCEPT ![t] = r]
      BY <2>4 DEF Fetch, Typed
    <3> HIDE DEF f
    <3>4. /\ r \in Tab /\ r.phase = "open" /\ r.auth = tab[t].auth
          /\ r.storage = tab[t].storage /\ r.visible = tab[t].visible
          /\ r.timers = tab[t].timers /\ r.refreshes = tab[t].refreshes
      BY <1>1, <3>2 DEF Tab, Request
    <3> HIDE DEF r
    <3> QED BY <3>3, <3>4
  <2> QED BY <2>2, <2>3, <2>4
<1>4. TabOK(r)
  BY <1>1 DEF TabOK, OpenTabOK, Watched
<1> QED BY <1>1, <1>2, <1>3, <1>4, SameStep

LEMMA LogInStep ==
  ASSUME SessionInv, NEW t \in Tabs, LogInAnswered(t)
  PROVE  SessionInv' /\ StaysUnmixed
<1> USE DEF SessionInv
<1> DEFINE u == tab[t].login
           auth == [username |-> u, token |-> [owner |-> u, n |-> issued + 1]]
           info == IF u \in OrgMembers THEN u ELSE tab[t].userInfo
           r == [tab[t] EXCEPT !.login = None, !.userInfo = info]
<1>1. OpenTabOK(tab[t]) /\ tab[t] \in Tab /\ tab[t].phase = "open"
  BY OpenTabs DEF LogInAnswered
<1>2. u \in Users /\ issued < MaxTokens /\ issued' = issued + 1
  BY <1>1, Fields DEF LogInAnswered
<1>3. auth \in Auth /\ auth # None
  BY <1>2, IssuedType, AuthNotNone DEF Auth, Typed
<1>4. info \in Users \cup {None}
  BY <1>1, <1>2, Fields
<1>5. Become(t, IF r.page = "login" THEN onLoggedIn(r, auth) ELSE r)
  BY DEF LogInAnswered
<1>6. Rest
  BY <1>2, IssuedType DEF LogInAnswered, Rest, Typed
<1> HIDE DEF u, auth, info
<1>7. /\ r \in Tab /\ r.phase = "open" /\ r.auth = tab[t].auth
      /\ r.storage = tab[t].storage /\ r.visible = tab[t].visible
      /\ r.timers = tab[t].timers /\ r.refreshes = tab[t].refreshes
  BY <1>1, <1>4 DEF Tab
<1> HIDE DEF r
<1>8. OpenTabOK(r) /\ OpenTabOK(onLoggedIn(r, auth))
  BY <1>1, <1>3, <1>7, OnLoggedInType DEF OpenTabOK, Watched
<1>9. ~Mixed(auth) /\ onLoggedIn(r, auth).storage = auth
  BY <1>3, <1>7, OnLoggedInType DEF Mixed, auth
<1>10. Open(t) /\ (Unmixed /\ InTime => ~Mixed(r.storage))
  BY <1>7, KeptUnmixed DEF LogInAnswered
<1> QED BY <1>5, <1>6, <1>8, <1>9, <1>10, BecomeStep

\* The user logs out, goes to another page, or hides or shows the tab.
LEMMA UserEventStep ==
  ASSUME SessionInv, NEW t \in Tabs, onLogOut(t) \/ Navigate(t) \/ VisibilityChange(t)
  PROVE  SessionInv' /\ StaysUnmixed
<1> USE DEF SessionInv
<1>1. Open(t) /\ OpenTabOK(tab[t]) /\ tab[t] \in Tab /\ tab[t].phase = "open"
  BY OpenTabs DEF onLogOut, Navigate, VisibilityChange
<1>2. Rest
  BY RestStays DEF onLogOut, Navigate, VisibilityChange, EventNames
<1>3. CASE onLogOut(t)
  <2>1. OpenTabOK(onNeedLogin(tab[t])) /\ onNeedLogin(tab[t]).storage = None
    BY <1>1, OnNeedLoginType DEF OpenTabOK
  <2> QED BY <1>1, <1>2, <1>3, <2>1, KeptUnmixed, BecomeStep DEF onLogOut
<1>4. CASE Navigate(t)
  <2>1. PICK p \in Pages : Become(t, needLogin(syncViewState([tab[t] EXCEPT !.page = p])))
    BY <1>4 DEF Navigate
  <2> DEFINE r == [tab[t] EXCEPT !.page = p]
  <2>2. OpenTabOK(r) /\ r.storage = tab[t].storage
    BY <1>1, PageType DEF OpenTabOK, Watched
  <2> HIDE DEF r
  <2>3. OpenTabOK(syncViewState(r)) /\ syncViewState(r).storage = tab[t].storage
    BY <2>2, SyncViewStateType DEF OpenTabOK, Watched
  <2>4. /\ OpenTabOK(needLogin(syncViewState(r)))
        /\ needLogin(syncViewState(r)).storage = tab[t].storage
    BY <2>3, NeedLoginType
  <2> QED BY <1>1, <1>2, <2>1, <2>4, KeptUnmixed, BecomeStep DEF r
<1>5. CASE VisibilityChange(t)
  <2> DEFINE r == [tab[t] EXCEPT !.visible = ~@]
  <2>1. r \in Tab /\ r.phase = "open" /\ r.auth = r.storage /\ r.storage = tab[t].storage
    BY <1>1 DEF Tab, OpenTabOK
  <2>2. Become(t, onVisibility(r))
    BY <1>5 DEF VisibilityChange
  <2> HIDE DEF r
  <2> QED BY <1>1, <1>2, <2>1, <2>2, OnVisibilityType, KeptUnmixed, BecomeStep
<1> QED BY <1>3, <1>4, <1>5

LEMMA TimerStep ==
  ASSUME SessionInv, NEW t \in Tabs, NEW s \in Services, TimerFires(t, s)
  PROVE  SessionInv' /\ StaysUnmixed
<1> USE DEF SessionInv
<1>1. Open(t) /\ OpenTabOK(tab[t]) /\ tab[t] \in Tab /\ tab[t].phase = "open"
  BY OpenTabs DEF TimerFires
<1>2. Rest
  BY RestStays DEF TimerFires
<1>3. /\ OpenTabOK(startFreshnessCheck(tab[t], s))
      /\ startFreshnessCheck(tab[t], s).storage = tab[t].storage
  BY <1>1, CheckType DEF OpenTabOK
<1> QED BY <1>1, <1>2, <1>3, KeptUnmixed, BecomeStep DEF TimerFires

\* A tab without a renewal that has ended.
LEMMA RefreshEnds ==
  ASSUME NEW r, r \in Tab, NEW x
  PROVE  LET c == [r EXCEPT !.refreshes = @ \ {x}] IN
         /\ c \in Tab /\ c.phase = r.phase /\ c.auth = r.auth /\ c.storage = r.storage
         /\ c.visible = r.visible /\ c.timers = r.timers
BY DEF Tab

LEMMA LogoutOK ==
  ASSUME NEW r \in Tab, r.phase = "open", NEW s \in Services
  PROVE  /\ OpenTabOK(needLogin(logout(r, s))) /\ needLogin(logout(r, s)).storage = None
<1>1. OpenTabOK(logout(r, s)) /\ logout(r, s).storage = None
  BY LogoutType DEF OpenTabOK
<1> QED BY <1>1, NeedLoginType

LEMMA RefreshStep ==
  ASSUME SessionInv, NEW t \in Tabs, RefreshAnswered(t) \/ RefreshFailed(t)
  PROVE  SessionInv' /\ StaysUnmixed
<1> USE DEF SessionInv
<1>1. Open(t) /\ OpenTabOK(tab[t]) /\ tab[t] \in Tab /\ tab[t].phase = "open"
  BY OpenTabs DEF RefreshAnswered, RefreshFailed
<1>2. \A x \in tab[t].refreshes : x.service \in Services /\ x.token \in Token
  BY <1>1, Fields DEF Refresh
<1>3. CASE RefreshFailed(t)
  <2>1. PICK x \in tab[t].refreshes :
           Become(t, needLogin(logout([tab[t] EXCEPT !.refreshes = @ \ {x}], x.service)))
    BY <1>3 DEF RefreshFailed
  <2> DEFINE r == [tab[t] EXCEPT !.refreshes = @ \ {x}]
  <2>2. r \in Tab /\ r.phase = "open"
    BY <1>1, RefreshEnds
  <2> HIDE DEF r
  <2>3. /\ OpenTabOK(needLogin(logout(r, x.service)))
        /\ needLogin(logout(r, x.service)).storage = None
    BY <1>2, <2>2, LogoutOK
  <2>4. Rest
    BY <1>3, RestStays DEF RefreshFailed
  <2> QED BY <1>1, <2>1, <2>3, <2>4, KeptUnmixed, BecomeStep DEF r
<1>4. CASE RefreshAnswered(t)
  <2> DEFINE R(x) == [tab[t] EXCEPT !.refreshes = @ \ {x}]
             Tok(x) == [owner |-> x.token.owner, n |-> issued + 1]
             Kept(x) == persist(R(x), [R(x).auth EXCEPT !.token = Tok(x)])
  <2>1. PICK x \in tab[t].refreshes :
           /\ issued < MaxTokens /\ issued' = issued + 1
           /\ Become(t, IF R(x).auth = None THEN needLogin(logout(R(x), x.service))
                        ELSE [Kept(x) EXCEPT !.timers = @ \cup {x.service}])
    BY <1>4 DEF RefreshAnswered
  <2>2. R(x) \in Tab /\ R(x).phase = "open" /\ R(x).auth = tab[t].auth
    BY <1>1, RefreshEnds
  <2>3. Rest
    BY <1>4, <2>1, IssuedType DEF RefreshAnswered, Rest, Typed
  <2>4. Tok(x) \in Token /\ Tok(x).owner = x.token.owner
    BY <1>2, <2>1, IssuedType DEF Token
  <2> HIDE DEF R, Tok
  <2>5. CASE R(x).auth = None
    <3>1. /\ OpenTabOK(needLogin(logout(R(x), x.service)))
          /\ needLogin(logout(R(x), x.service)).storage = None
      BY <1>2, <2>2, LogoutOK
    <3> QED BY <1>1, <2>1, <2>3, <2>5, <3>1, KeptUnmixed, BecomeStep
  <2>6. CASE R(x).auth # None
    <3> DEFINE a == [R(x).auth EXCEPT !.token = Tok(x)]
               c == [Kept(x) EXCEPT !.timers = @ \cup {x.service}]
    <3>1. R(x).auth \in Auth
      BY <2>2, <2>6, Fields DEF Session
    <3>2. a \in Session /\ a.username = R(x).auth.username /\ a.token = Tok(x)
      BY <2>4, <3>1 DEF Auth, Session
    <3>2a. Unmixed /\ InTime => ~Mixed(a)
      BY <2>2, <2>4, <2>6, <3>2 DEF InTime, Mixed
    <3> HIDE DEF a
    <3>3. /\ Kept(x) \in Tab /\ Kept(x).phase = "open" /\ Kept(x).auth = a
          /\ Kept(x).storage = a
      BY <2>2, <3>2, PersistType DEF a
    <3> HIDE DEF Kept
    <3>4. /\ c \in Tab /\ c.phase = "open" /\ c.auth = a /\ c.storage = a
          /\ x.service \in c.timers
      BY <1>2, <3>3 DEF Tab
    <3>5. Become(t, c)
      BY <2>1, <2>6
    <3> HIDE DEF c
    <3>6. OpenTabOK(c)
      BY <3>4 DEF OpenTabOK, Watched
    <3> QED BY <1>1, <2>3, <3>2a, <3>4, <3>5, <3>6, BecomeStep
  <2> QED BY <2>5, <2>6
<1> QED BY <1>3, <1>4

LEMMA FetchAnsweredStep ==
  ASSUME SessionInv, NEW t \in Tabs, FetchAnswered(t)
  PROVE  SessionInv' /\ StaysUnmixed
<1> USE DEF SessionInv
<1>1. Open(t) /\ OpenTabOK(tab[t]) /\ tab[t] \in Tab /\ tab[t].phase = "open"
  BY OpenTabs DEF FetchAnswered
<1>2. Rest
  BY RestStays DEF FetchAnswered
<1> DEFINE R(f) == [tab[t] EXCEPT !.fetches = @ \ {f}]
<1>3. PICK f \in tab[t].fetches :
         Become(t, IF f.token \in expired THEN clearUser(R(f))
                   ELSE IF f.path = "me" THEN [R(f) EXCEPT !.userInfo = f.token.owner]
                        ELSE R(f))
  BY DEF FetchAnswered
<1>4. f.token.owner \in Users
  BY <1>1, Fields DEF Request, Token
<1> DEFINE r == R(f)
           c == [r EXCEPT !.userInfo = f.token.owner]
<1>5. /\ r \in Tab /\ r.phase = "open" /\ r.auth = tab[t].auth /\ r.storage = tab[t].storage
      /\ r.visible = tab[t].visible /\ r.timers = tab[t].timers
      /\ r.refreshes = tab[t].refreshes
  BY <1>1 DEF Tab
<1> HIDE DEF R
<1>6. /\ c \in Tab /\ c.phase = "open" /\ c.auth = r.auth /\ c.storage = r.storage
      /\ c.visible = r.visible /\ c.timers = r.timers /\ c.refreshes = r.refreshes
  BY <1>4, <1>5 DEF Tab
<1>7. Become(t, clearUser(r)) \/ Become(t, c) \/ Become(t, r)
  BY <1>3
<1> HIDE DEF r, c
<1>8. OpenTabOK(r) /\ OpenTabOK(c)
  BY <1>1, <1>5, <1>6 DEF OpenTabOK, Watched
<1>9. OpenTabOK(clearUser(r)) /\ clearUser(r).storage = None
  BY <1>5, OnNeedLoginType DEF OpenTabOK
<1> QED BY <1>1, <1>2, <1>5, <1>6, <1>7, <1>8, <1>9, KeptUnmixed, BecomeStep

\* A token gets older.
LEMMA AgeStep ==
  ASSUME SessionInv, TokenAges
  PROVE  SessionInv' /\ StaysUnmixed
<1> USE DEF SessionInv
<1>1. PICK t \in Tabs :
         /\ tab[t].auth # None /\ MayHappen("age")
         /\ due' = due \cup {tab[t].auth.token}
         /\ expired' = IF tab[t].auth.token \in due THEN expired \cup {tab[t].auth.token}
                       ELSE expired
         /\ UNCHANGED <<setup, tab, inbox, issued, missed>>
  BY DEF TokenAges
<1>2. tab[t].auth.token \in Token /\ tab[t] \in Tab
  BY <1>1, Fields, AuthFields DEF Typed, Session
<1>3. Rest
  BY <1>1, <1>2, MayHappenType DEF Rest, Typed
<1>4. tab' = [tab EXCEPT ![t] = tab[t]]
  BY <1>1 DEF Typed
<1>5. TabOK(tab[t])
  BY DEF TabsOK
<1> QED BY <1>1, <1>3, <1>4, <1>5, SameStep

---------------------------------------------------------------------------
(* Tabs come and go.                                                       *)

\* A tab that is closed, or is loaded again without a session, asks the others.
LEMMA AskStep ==
  ASSUME SessionInv, Rest, NEW t \in Tabs, NEW r, TabOK(r), tab' = [tab EXCEPT ![t] = r],
         r.phase = "asking", tab[t].phase \in {"closed", "loading"},
         tab[t].storage = None, missed' = missed,
         Post(t, <<[name |-> "requesting_auth", value |-> None]>>)
  PROVE  SessionInv' /\ StaysUnmixed
<1> USE DEF SessionInv
<1> DEFINE m == [name |-> "requesting_auth", value |-> None]
<1>1. m \in Message /\ m.name = "requesting_auth"
  BY Messages
<1>2. inbox' = [u \in Tabs |-> IF u # t /\ Listening(u) THEN inbox[u] \o <<m>> ELSE inbox[u]]
  BY DEF Post
<1> HIDE DEF m
<1>3. \A u \in Tabs : inbox[u] \in Seq(Message)
  BY DEF Typed
<1>4. \A u \in Tabs : inbox[u] \o <<m>> \in Seq(Message)
  BY <1>1, <1>3, ToldMore
<1>5. inbox' \in [Tabs -> Seq(Message)]
  BY <1>2, <1>3, <1>4
<1>6. /\ Typed' /\ TabsOK'
      /\ tab'[t] = r /\ \A u \in Tabs : u # t => tab'[u] = tab[u]
  BY <1>5, TabBecomes DEF Typed
<1>7. inbox[t] = <<>> /\ inbox'[t] = <<>>
  BY <1>2 DEF Unheard
<1>8. Unheard'
  BY <1>2, <1>6, <1>7 DEF Unheard, Listening
<1>9. \A u \in Tabs : /\ Tells(inbox'[u]) => Tells(inbox[u])
                      /\ Tells(inbox[u]) => Tells(inbox'[u])
                      /\ ToldOfNone(inbox'[u]) => ToldOfNone(inbox[u])
                      /\ \A v : Told(inbox[u], v) => Told(inbox'[u], v)
  <2> TAKE u \in Tabs
  <2>1. CASE inbox'[u] = inbox[u]
    BY <2>1
  <2>2. CASE inbox'[u] = inbox[u] \o <<m>>
    BY <1>1, <1>3, <2>2, ToldMore
  <2> QED BY <1>2, <2>1, <2>2
<1>10. ASSUME NEW v \in Session, SettledOn(v)
       PROVE  SettledOn(v)'
  <2>1. r.storage = None
    BY DEF TabOK
  <2>2. \A u \in Tabs : tab'[u].storage = tab[u].storage
    BY <1>6, <2>1
  <2>3. \A x : Held(x, v) => Held(x, v)'
    BY <1>9, <2>2, HeldStays
  <2>4. ~Tells(inbox'[t]) /\ ~ToldOfNone(inbox'[t])
    BY <1>7, NothingTold
  <2>5. \A u \in Tabs : Tells(inbox'[u]) =>
           Told(inbox'[u], v) \/ (tab'[u].phase = "open" /\ tab'[u].storage = v)
    BY <1>6, <1>9, <1>10, <2>4 DEF SettledOn, Open
  <2>6. \A u \in Tabs : tab'[u].phase \in {"open", "loading"} /\ ~Tells(inbox'[u]) =>
           Held(tab[u].storage, v)
    BY <1>6, <1>9, <1>10 DEF SettledOn
  <2>7. \A u \in Tabs :
           tab'[u].phase = "asking" /\ ~Tells(inbox'[u]) /\ ToldOfNone(inbox'[u]) => Held(None, v)
    BY <1>6, <1>9, <1>10, <2>4 DEF SettledOn
  <2> QED BY <2>2, <2>3, <2>5, <2>6, <2>7 DEF SettledOn, Open
<1>11. Session' = Session
  BY TypesStay DEF Rest
<1>12. \A u \in Tabs : \A a \in Values(inbox'[u]) : a \in Values(inbox[u]) \/ a = None
  <2>1. m.value = None
    BY DEF m
  <2> QED BY <1>1, <1>2, <1>3, <2>1, ValuesStay
<1>13. StaysUnmixed
  <2>1. r.storage = None
    BY DEF TabOK
  <2> QED BY <1>6, <1>12, <2>1, KeptUnmixed, UnmixedBecomes
<1> QED BY <1>6, <1>8, <1>10, <1>11, <1>13 DEF TabsSettle

LEMMA OpenStep ==
  ASSUME SessionInv, NEW t \in Tabs, OpenTab(t)
  PROVE  SessionInv' /\ StaysUnmixed
<1> USE DEF SessionInv
<1>1. PICK p \in Pages : tab' = [tab EXCEPT ![t].phase = "asking", ![t].page = p]
  BY DEF OpenTab
<1> DEFINE r == [tab[t] EXCEPT !.phase = "asking", !.page = p]
<1>2. tab' = [tab EXCEPT ![t] = r]
  BY <1>1 DEF Typed
<1>3. tab[t] \in Tab /\ tab[t].phase = "closed" /\ tab[t].storage = None /\ tab[t].auth = None
  BY DEF OpenTab, TabsOK, TabOK
<1>4. r \in Tab /\ r.phase = "asking" /\ r.storage = None /\ r.auth = None
  BY <1>3 DEF Tab
<1> HIDE DEF r
<1>5. Rest
  BY RestStays DEF OpenTab, EventNames
<1> QED BY <1>2, <1>3, <1>4, <1>5, AskStep DEF OpenTab, TabOK

LEMMA LoadStep ==
  ASSUME SessionInv, NEW t \in Tabs, Load(t)
  PROVE  SessionInv' /\ StaysUnmixed
<1> USE DEF SessionInv
<1>1. tab[t] \in Tab /\ tab[t].phase = "loading" /\ tab[t].auth = None
  BY DEF Load, TabsOK, TabOK
<1>2. Rest
  BY RestStays DEF Load
<1>3. CASE tab[t].storage # None
  <2>1. Become(t, connected(tab[t], tab[t].storage))
    BY <1>3 DEF Load
  <2>2. /\ OpenTabOK(connected(tab[t], tab[t].storage))
        /\ connected(tab[t], tab[t].storage).storage = tab[t].storage
    BY <1>1, <1>3, ConnectedType, Fields
  <2> QED BY <1>1, <1>2, <2>1, <2>2, KeptUnmixed, BecomeStep
<1>4. CASE tab[t].storage = None
  <2> DEFINE r == [tab[t] EXCEPT !.phase = "asking"]
  <2>1. tab' = [tab EXCEPT ![t] = r]
    BY <1>4 DEF Load, Typed
  <2>2. r \in Tab /\ r.phase = "asking" /\ r.storage = None /\ r.auth = None
    BY <1>1, <1>4 DEF Tab
  <2> HIDE DEF r
  <2> QED BY <1>1, <1>2, <1>4, <2>1, <2>2, AskStep DEF Load, TabOK
<1> QED BY <1>3, <1>4

\* A tab that is closed or loaded again has read of every change, or missed one.
LEMMA LeaveStep ==
  ASSUME SessionInv, NEW t \in Tabs, Reload(t) \/ CloseTab(t)
  PROVE  SessionInv' /\ StaysUnmixed
<1> USE DEF SessionInv
<1> DEFINE again == [ClosedTab EXCEPT !.phase = "loading", !.page = tab[t].page,
                                      !.visible = tab[t].visible, !.storage = tab[t].storage,
                                      !.userInfo = tab[t].userInfo]
<1>1. PICK r : /\ tab' = [tab EXCEPT ![t] = r]
               /\ r = ClosedTab \/ r = again
  BY DEF Reload, CloseTab
<1>2. /\ Open(t) /\ tab[t] \in Tab /\ inbox' = [inbox EXCEPT ![t] = <<>>]
      /\ missed' = (missed \/ Unread(t))
  BY OpenTabs DEF Reload, CloseTab
<1>3. /\ again \in Tab /\ again.phase = "loading" /\ again.auth = None
      /\ again.storage = tab[t].storage
  BY <1>2, Fields DEF ClosedTab, Tab, Session
<1> HIDE DEF again
<1>4. /\ TabOK(r) /\ r.phase \in {"closed", "loading"}
      /\ r.phase = "loading" => r.storage = tab[t].storage
      /\ r.storage \in {None, tab[t].storage}
  <2>1. CASE r = ClosedTab
    BY <2>1, ClosedType DEF ClosedTab
  <2>2. CASE r = again
    BY <1>3, <2>2 DEF TabOK
  <2> QED BY <1>1, <2>1, <2>2
<1>5. inbox' \in [Tabs -> Seq(Message)] /\ inbox'[t] = <<>>
      /\ \A u \in Tabs : u # t => inbox'[u] = inbox[u]
  BY <1>2 DEF Typed
<1>6. Rest
  BY RestStays DEF Reload, CloseTab, EventNames
<1>7. missed' \in BOOLEAN
  BY <1>2 DEF Typed
<1>8. /\ Typed' /\ TabsOK'
      /\ tab'[t] = r /\ \A u \in Tabs : u # t => tab'[u] = tab[u]
  BY <1>1, <1>4, <1>5, <1>6, <1>7, TabBecomes
<1>9. Unheard'
  BY <1>5, <1>8 DEF Unheard
<1>10. ASSUME ~missed', NEW v \in Session, SettledOn(v)
       PROVE  SettledOn(v)'
  <2>1. ~Tells(inbox[t])
    BY <1>2, <1>10 DEF Unread, Tells
  <2>2. \A s \in Tabs : Told(inbox[s], v) => s # t
    BY <2>1 DEF Told, Tells
  <2>3. \A x : Held(x, v) => Held(x, v)'
    BY <1>5, <1>8, <2>2, HeldStays
  <2>4. Held(tab[t].storage, v)
    BY <1>2, <1>10, <2>1 DEF SettledOn, Open
  <2>5. ~Tells(inbox'[t])
    BY <1>5, NothingTold
  <2>6. \A u \in Tabs : Tells(inbox'[u]) =>
           Told(inbox'[u], v) \/ (tab'[u].phase = "open" /\ tab'[u].storage = v)
    BY <1>5, <1>8, <1>10, <2>5 DEF SettledOn, Open
  <2>7. \A u \in Tabs : tab'[u].phase \in {"open", "loading"} /\ ~Tells(inbox'[u]) =>
           Held(tab'[u].storage, v)
    BY <1>4, <1>5, <1>8, <1>10, <2>4 DEF SettledOn
  <2>8. \A u \in Tabs :
           tab'[u].phase = "asking" /\ ~Tells(inbox'[u]) /\ ToldOfNone(inbox'[u]) => Held(None, v)
    BY <1>4, <1>5, <1>8, <1>10 DEF SettledOn
  <2> QED BY <2>3, <2>6, <2>7, <2>8 DEF SettledOn, Open
<1>11. Session' = Session
  BY <1>6, TypesStay DEF Rest
<1>12. StaysUnmixed
  <2>1. \A u \in Tabs : \A a \in Values(inbox'[u]) : a \in Values(inbox[u])
    BY <1>5 DEF Values
  <2> QED BY <1>4, <1>8, <2>1, KeptUnmixed, UnmixedBecomes
<1> QED BY <1>2, <1>8, <1>9, <1>10, <1>11, <1>12 DEF TabsSettle

\* Nobody has answered, and no other tab has a session.  Either one of them will be told of
\* the last one, or having none is what the tabs come to.
LEMMA TimeoutStep ==
  ASSUME SessionInv, NEW t \in Tabs, AskTimeout(t)
  PROVE  SessionInv' /\ StaysUnmixed
<1> USE DEF SessionInv
<1> DEFINE r == connected(tab[t], None)
<1>1. tab[t] \in Tab /\ tab[t].phase = "asking" /\ tab[t].storage = None /\ tab[t].auth = None
  BY DEF AskTimeout, TabsOK, TabOK
<1>2. OpenTabOK(r) /\ r.storage = None /\ r.phase = "open" /\ TabOK(r)
  BY <1>1, ConnectedType DEF Session, OpenTabOK, TabOK
<1>3. /\ tab' = [tab EXCEPT ![t] = r] /\ inbox' = inbox
      /\ missed' = (missed \/ \E u \in Tabs \ {t} : tab[u].storage # None)
  BY DEF AskTimeout
<1> HIDE DEF r
<1>4. Rest
  BY RestStays DEF AskTimeout
<1>5. missed' \in BOOLEAN /\ inbox' \in [Tabs -> Seq(Message)]
  BY <1>3 DEF Typed
<1>6. /\ Typed' /\ TabsOK'
      /\ tab'[t] = r /\ \A u \in Tabs : u # t => tab'[u] = tab[u]
  BY <1>2, <1>3, <1>4, <1>5, TabBecomes
<1>7. Unheard'
  BY <1>2, <1>3, <1>6 DEF Unheard
<1>8. ASSUME ~missed', NEW v \in Session, SettledOn(v)
      PROVE  SettledOn(v)' \/ SettledOn(None)'
  <2>1. \A u \in Tabs : tab[u].storage = None /\ tab'[u].storage = None
    BY <1>1, <1>2, <1>3, <1>6, <1>8
  <2>2. \A x : Held(x, v) => Held(x, v)'
    BY <1>3, <2>1, HeldStays
  <2>3. CASE Held(None, v)
    <3>1. \A u \in Tabs : Tells(inbox'[u]) =>
             Told(inbox'[u], v) \/ (tab'[u].phase = "open" /\ tab'[u].storage = v)
      BY <1>1, <1>2, <1>3, <1>6, <1>8 DEF SettledOn, Open
    <3> QED BY <2>1, <2>2, <2>3, <3>1 DEF SettledOn, Open
  <2>4. CASE ~Held(None, v)
    <3>1. v # None /\ \A u \in Tabs : ~Told(inbox[u], v)
      BY <2>1, <2>4 DEF Held
    <3>2. \A u \in Tabs : ~Tells(inbox[u])
      BY <1>8, <2>1, <3>1 DEF SettledOn
    <3> QED BY <1>3, <2>1, <3>2 DEF SettledOn, Held
  <2> QED BY <2>3, <2>4
<1>9. Session' = Session /\ None \in Session
  BY <1>4, TypesStay DEF Rest, Session
<1>10. StaysUnmixed
  BY <1>2, <1>3, <1>6, KeptUnmixed, UnmixedBecomes
<1> QED BY <1>3, <1>6, <1>7, <1>8, <1>9, <1>10 DEF TabsSettle

---------------------------------------------------------------------------
(* Messages from other tabs.                                               *)

\* A message is read that changes no session: by an open tab, one that tells it of the
\* session it has; by a tab that asks, that another one has none.
LEMMA ReadStep ==
  ASSUME SessionInv, Rest, NEW t \in Tabs, inbox[t] # <<>>, NEW r, TabOK(r),
         tab' = [tab EXCEPT ![t] = r], r.storage = tab[t].storage,
         \/ r.phase = tab[t].phase
         \/ /\ tab[t].phase = "asking" /\ r.phase = "open"
            /\ Head(inbox[t]).name = "responding_auth" /\ Head(inbox[t]).value = None,
         inbox' = [inbox EXCEPT ![t] = Tail(inbox[t])],
         missed' \in BOOLEAN,
         ~missed' => ~missed,
         ~missed' /\ Head(inbox[t]).name = "auth_storage" =>
            Open(t) /\ Head(inbox[t]).value = tab[t].storage
  PROVE  SessionInv' /\ StaysUnmixed
<1> USE DEF SessionInv
<1> DEFINE q == inbox[t]
           p == Tail(q)
           h == Head(q)
           s == tab[t].storage
<1>1. q \in Seq(Message) /\ p \in Seq(Message)
  BY ToldRest DEF Typed
<1>2. /\ Tells(p) => Tells(q)
      /\ Tells(q) => h.name = "auth_storage" \/ Tells(p)
      /\ ToldOfNone(p) => ToldOfNone(q)
      /\ h.name = "responding_auth" /\ h.value = None => ToldOfNone(q)
      /\ \A v : Told(q, v) => \/ Told(p, v)
                              \/ ~Tells(p) /\ h.name = "auth_storage" /\ h.value = v
      /\ \A v : Told(q, v) => Tells(q)
      /\ \A v : Told(p, v) => Tells(p)
  <2>1. \A v : Told(p, v) => Tells(p)
    BY DEF Told, Tells
  <2> QED BY <1>1, <2>1, ToldRest
<1>3. inbox' \in [Tabs -> Seq(Message)] /\ inbox'[t] = p
      /\ \A u \in Tabs : u # t => inbox'[u] = inbox[u]
  BY <1>1 DEF Typed
<1>4. /\ Typed' /\ TabsOK'
      /\ tab'[t] = r /\ \A u \in Tabs : u # t => tab'[u] = tab[u]
  BY <1>3, TabBecomes
<1>5. tab[t].phase \in {"asking", "open"} /\ r.phase \in {"asking", "open"}
  BY Fields DEF Typed, Unheard
<1>6. Unheard'
  BY <1>3, <1>4, <1>5 DEF Unheard
<1> HIDE DEF p, h
<1>7. ASSUME ~missed', NEW v \in Session, SettledOn(v)
      PROVE  SettledOn(v)'
  <2>0. h.name = "auth_storage" => tab[t].phase = "open" /\ h.value = s
    BY <1>7 DEF h, Open
  <2>1. /\ Tells(q) => Told(q, v) \/ (tab[t].phase = "open" /\ s = v)
        /\ tab[t].phase = "open" /\ ~Tells(q) => Held(s, v)
        /\ tab[t].phase = "asking" /\ ~Tells(q) /\ ToldOfNone(q) => Held(None, v)
    BY <1>7 DEF SettledOn, Open
  <2>2. \A u \in Tabs : tab'[u].storage = tab[u].storage
    BY <1>4
  <2>3. Told(q, v) => Told(p, v) \/ s = v
    BY <1>2, <2>0
  <2>4. \A x : Held(x, v) => Held(x, v)'
    BY <1>3, <2>2, <2>3, HeldStays
  <2>5. Tells(p) => Told(p, v) \/ (r.phase = "open" /\ s = v)
    BY <1>2, <1>5, <2>1
  <2>6. r.phase = "open" /\ ~Tells(p) => Held(s, v)
    <3>1. ASSUME r.phase = "open", ~Tells(p), tab[t].phase = "open"
          PROVE  Held(s, v)
      <4>1. CASE Tells(q)
        BY <1>2, <2>0, <2>1, <3>1, <4>1 DEF Held
      <4>2. CASE ~Tells(q)
        BY <2>1, <3>1, <4>2
      <4> QED BY <4>1, <4>2
    <3>2. ASSUME r.phase = "open", ~Tells(p), tab[t].phase = "asking"
          PROVE  Held(s, v)
      <4>1. h.name = "responding_auth" /\ h.value = None
        BY <3>2 DEF h
      <4>2. s = None
        BY <3>2 DEF TabsOK, TabOK
      <4> QED BY <1>2, <2>1, <3>2, <4>1, <4>2
    <3> QED BY <1>5, <3>1, <3>2
  <2>7. r.phase = "asking" /\ ~Tells(p) /\ ToldOfNone(p) => Held(None, v)
    <3>1. r.phase = "asking" => tab[t].phase = "asking"
      OBVIOUS
    <3> QED BY <1>2, <2>0, <2>1, <3>1
  <2>8. \A u \in Tabs : Tells(inbox'[u]) =>
           Told(inbox'[u], v) \/ (tab'[u].phase = "open" /\ tab'[u].storage = v)
    BY <1>3, <1>4, <1>7, <2>5 DEF SettledOn, Open
  <2>9. \A u \in Tabs : tab'[u].phase \in {"open", "loading"} /\ ~Tells(inbox'[u]) =>
           Held(tab'[u].storage, v)
    BY <1>3, <1>4, <1>5, <1>7, <2>6 DEF SettledOn
  <2>10. \A u \in Tabs :
           tab'[u].phase = "asking" /\ ~Tells(inbox'[u]) /\ ToldOfNone(inbox'[u]) => Held(None, v)
    BY <1>3, <1>4, <1>7, <2>7 DEF SettledOn
  <2> QED BY <2>4, <2>8, <2>9, <2>10 DEF SettledOn, Open
<1>8. Session' = Session
  BY TypesStay DEF Rest
<1>9. StaysUnmixed
  <2>1. \A u \in Tabs : \A a \in Values(inbox'[u]) : a \in Values(inbox[u])
    BY <1>1, <1>3, ValuesStay DEF p
  <2> QED BY <1>4, <2>1, KeptUnmixed, UnmixedBecomes
<1> QED BY <1>4, <1>6, <1>7, <1>8, <1>9 DEF TabsSettle

\* An open tab answers with the session it has.
LEMMA AnswerStep ==
  ASSUME SessionInv, Rest, NEW t \in Tabs, inbox[t] # <<>>, Open(t), tab' = tab,
         missed' = missed, Head(inbox[t]).name = "requesting_auth",
         inbox' = [u \in Tabs |->
            IF u = t THEN Tail(inbox[t])
            ELSE IF Listening(u)
                 THEN inbox[u] \o <<[name |-> "responding_auth", value |-> tab[t].storage]>>
                 ELSE inbox[u]]
  PROVE  SessionInv' /\ StaysUnmixed
<1> USE DEF SessionInv
<1> DEFINE q == inbox[t]
           s == tab[t].storage
           m == [name |-> "responding_auth", value |-> s]
<1>1. m \in Message /\ m.name = "responding_auth" /\ m.value = s
  BY Messages, Fields DEF Typed
<1> HIDE DEF m
<1>2. \A u \in Tabs : inbox[u] \in Seq(Message)
  BY DEF Typed
<1>3. /\ inbox'[t] = Tail(q)
      /\ \A u \in Tabs : u # t => inbox'[u] = inbox[u] \/ inbox'[u] = inbox[u] \o <<m>>
      /\ \A u \in Tabs : ~Listening(u) /\ u # t => inbox'[u] = inbox[u]
  BY DEF m
<1>4. \A u \in Tabs : /\ inbox'[u] \in Seq(Message)
                      /\ Tells(inbox'[u]) <=> Tells(inbox[u])
                      /\ ToldOfNone(inbox'[u]) => ToldOfNone(inbox[u]) \/ s = None
                      /\ \A v : Told(inbox[u], v) => Told(inbox'[u], v)
  <2> TAKE u \in Tabs
  <2>1. CASE u = t
    BY <1>2, <1>3, <2>1, ToldRest
  <2>2. CASE u # t /\ inbox'[u] = inbox[u]
    BY <1>2, <2>2
  <2>3. CASE u # t /\ inbox'[u] = inbox[u] \o <<m>>
    BY <1>1, <1>2, <2>3, ToldMore
  <2> QED BY <1>3, <2>1, <2>2, <2>3
<1>5. inbox' \in [Tabs -> Seq(Message)]
  BY <1>4
<1>6. TabOK(tab[t]) /\ tab' = [tab EXCEPT ![t] = tab[t]]
  BY DEF TabsOK, Typed
<1>7. Typed' /\ TabsOK'
  BY <1>5, <1>6, TabBecomes DEF Typed
<1>8. Unheard'
  BY <1>3 DEF Unheard, Listening, Open
<1>9. ASSUME NEW v \in Session, SettledOn(v)
      PROVE  SettledOn(v)'
  <2>1. \A x : Held(x, v) => Held(x, v)'
    BY <1>4, HeldStays
  <2>2. Held(s, v)
    <3>1. CASE Tells(q)
      BY <1>9, <3>1 DEF SettledOn, Held
    <3>2. CASE ~Tells(q)
      BY <1>9, <3>2 DEF SettledOn, Open
    <3> QED BY <3>1, <3>2
  <2>3. \A u \in Tabs :
           tab[u].phase = "asking" /\ ~Tells(inbox'[u]) /\ ToldOfNone(inbox'[u]) => Held(None, v)
    BY <1>4, <1>9, <2>2 DEF SettledOn
  <2>4. \A u \in Tabs : tab[u].phase \in {"open", "loading"} /\ ~Tells(inbox'[u]) =>
           Held(tab[u].storage, v)
    BY <1>4, <1>9 DEF SettledOn
  <2>5. \A u \in Tabs : Tells(inbox'[u]) =>
           Told(inbox'[u], v) \/ (Open(u) /\ tab[u].storage = v)
    BY <1>4, <1>9 DEF SettledOn
  <2> QED BY <2>1, <2>3, <2>4, <2>5 DEF SettledOn, Open
<1>10. Session' = Session
  BY TypesStay DEF Rest
<1>11. StaysUnmixed
  <2>1. \A u \in Tabs : \A a \in Values(inbox'[u]) : a \in Values(inbox[u]) \/ a = s
    <3> TAKE u \in Tabs
    <3>1. CASE u = t
      BY <1>2, <1>3, <3>1, ValuesStay
    <3>2. CASE u # t /\ inbox'[u] = inbox[u]
      BY <3>2
    <3>3. CASE u # t /\ inbox'[u] = inbox[u] \o <<m>>
      BY <1>1, <1>2, <3>3, ValuesStay
    <3> QED BY <1>3, <3>1, <3>2, <3>3
  <2> QED BY <1>6, <2>1, KeptUnmixed, UnmixedBecomes
<1> QED BY <1>7, <1>8, <1>9, <1>10, <1>11 DEF TabsSettle

LEMMA ReceiveStep ==
  ASSUME SessionInv, NEW t \in Tabs, Receive(t)
  PROVE  SessionInv' /\ StaysUnmixed
<1> USE DEF SessionInv
<1> DEFINE m == Head(inbox[t])
           r == heard(tab[t], m)
           posts == IF Open(t) /\ m.name = "requesting_auth"
                    THEN <<[name |-> "responding_auth", value |-> tab[t].storage]>>
                    ELSE StorageChange(t, r)
<1>1. /\ inbox[t] # <<>> /\ tab' = [tab EXCEPT ![t] = r]
      /\ inbox' = [u \in Tabs |-> IF u = t THEN Tail(inbox[t])
                                  ELSE IF Listening(u) THEN inbox[u] \o posts ELSE inbox[u]]
      /\ missed' = (\/ missed
                    \/ tab[t].phase = "asking" /\ m.name = "auth_storage"
                    \/ /\ StorageChange(t, r) # <<>>
                       /\ \E u \in Tabs \ {t} : tab[u].phase = "loading")
      /\ UNCHANGED <<setup, due, expired, issued, events>>
  BY DEF Receive
<1>2. Rest
  BY <1>1, RestStays
<1>3. \A u \in Tabs : inbox[u] \in Seq(Message) /\ inbox[u] \o <<>> = inbox[u]
  BY DEF Typed
<1>4. /\ m \in Message /\ Tail(inbox[t]) \in Seq(Message) /\ m.value \in Session
      /\ m.name \in {"requesting_auth", "responding_auth", "auth_storage"}
  <2>1. m \in Message /\ Tail(inbox[t]) \in Seq(Message)
    BY <1>1, <1>3, ToldRest
  <2> QED BY <2>1, MessageFields
<1>5. TabOK(tab[t]) /\ tab[t] \in Tab /\ tab[t].phase \in {"asking", "open"}
  BY <1>1, Fields DEF TabsOK, Typed, Unheard
<1>6. missed' \in BOOLEAN
  BY <1>1 DEF Typed
<1> HIDE DEF m
\* What the tab becomes.
<1>7. /\ TabOK(r)
      /\ \/ r = tab[t]
         \/ OpenTabOK(r) /\ (Open(t) \/ m.name = "responding_auth") /\ r.storage = m.value
      /\ tab[t].phase = "asking" /\ m.name # "responding_auth" => r = tab[t]
      /\ tab[t].phase = "asking" /\ m.name = "responding_auth" => r.phase = "open"
      /\ Open(t) /\ m.name # "auth_storage" => r = tab[t]
      /\ Open(t) /\ m.name = "auth_storage" => r.storage = m.value
      /\ r.storage = tab[t].storage =>
           r.phase = tab[t].phase \/ (tab[t].phase = "asking" /\ r.phase = "open"
                                      /\ m.name = "responding_auth" /\ m.value = None)
      /\ Open(t) /\ r.storage = tab[t].storage => r = tab[t]
  <2>1. CASE tab[t].phase = "asking" /\ m.name = "responding_auth"
    <3>1. r = connected(tab[t], m.value) /\ tab[t].auth = None /\ tab[t].storage = None
      BY <1>5, <2>1 DEF heard, TabOK
    <3>2. OpenTabOK(r) /\ r.storage = m.value
      BY <1>4, <1>5, <3>1, ConnectedType
    <3> HIDE DEF r
    <3> QED BY <2>1, <3>1, <3>2 DEF OpenTabOK, TabOK, Open
  <2>2. CASE Open(t) /\ m.name = "auth_storage"
    <3>1. r = onAuthStorage(tab[t], m.value) /\ OpenTabOK(tab[t])
      BY <1>5, <2>2 DEF heard, TabOK, Open
    <3>2. OpenTabOK(r) /\ r.storage = m.value /\ (m.value = tab[t].storage => r = tab[t])
      BY <1>4, <3>1, OnAuthStorageType
    <3> HIDE DEF r
    <3> QED BY <2>2, <3>1, <3>2 DEF OpenTabOK, TabOK, Open
  <2>3. CASE ~(tab[t].phase = "asking" /\ m.name = "responding_auth")
             /\ ~(Open(t) /\ m.name = "auth_storage")
    <3>1. r = tab[t]
      BY <2>3 DEF heard, Open
    <3> HIDE DEF r
    <3> QED BY <1>5, <2>3, <3>1 DEF Open
  <2> QED BY <2>1, <2>2, <2>3
<1> HIDE DEF r
<1>8. CASE Open(t) /\ m.name = "requesting_auth"
  <2>1. posts = <<[name |-> "responding_auth", value |-> tab[t].storage]>>
    BY <1>8
  <2>2. r = tab[t] /\ tab' = tab
    BY <1>1, <1>7, <1>8 DEF Typed
  <2>3. missed' = missed
    BY <1>1, <1>8, <2>2 DEF StorageChange, Open, Typed
  <2> QED BY <1>1, <1>2, <1>8, <2>1, <2>2, <2>3, AnswerStep DEF m
<1>9. CASE ~(Open(t) /\ m.name = "requesting_auth") /\ r.storage = tab[t].storage
  <2>1. posts = <<>> /\ StorageChange(t, r) = <<>>
    BY <1>9 DEF StorageChange
  <2>2. inbox' = [inbox EXCEPT ![t] = Tail(inbox[t])]
    BY <1>1, <1>3, <2>1 DEF Typed
  <2>3. /\ ~missed' => ~missed
        /\ ~missed' /\ m.name = "auth_storage" => Open(t) /\ m.value = tab[t].storage
    BY <1>1, <1>5, <1>7, <1>9 DEF Open
  <2> QED BY <1>1, <1>2, <1>6, <1>7, <1>9, <2>2, <2>3, ReadStep DEF m
<1>10. CASE ~(Open(t) /\ m.name = "requesting_auth") /\ r.storage # tab[t].storage
  <2> DEFINE a == [name |-> "auth_storage", value |-> r.storage]
  <2>1. posts = <<a>> /\ StorageChange(t, r) = <<a>> /\ <<a>> # <<>>
    BY <1>10 DEF StorageChange
  <2>2. OpenTabOK(r) /\ a \in Message
    BY <1>7, <1>10, Messages, Fields DEF OpenTabOK
  <2> HIDE DEF a
  <2>3. \A u \in Tabs : inbox[u] \o <<a>> \in Seq(Message)
    BY <1>3, <2>2, OneMore
  <2>4. inbox' \in [Tabs -> Seq(Message)]
    BY <1>1, <1>3, <1>4, <2>1, <2>3
  <2>5. \A u \in Tabs : u # t =>
           inbox'[u] = IF Listening(u) THEN inbox[u] \o <<a>> ELSE inbox[u]
    BY <1>1, <2>1
  <2>6. ~missed' => \A u \in Tabs : u # t => tab[u].phase # "loading"
    BY <1>1, <2>1
  <2>7. Unmixed /\ InTime => ~Mixed(r.storage)
    <3>1. r.storage = m.value
      BY <1>7, <1>10
    <3>2. inbox[t] \in Seq(Message) /\ inbox[t] # <<>>
      BY <1>1, <1>3
    <3>3. 1 \in DOMAIN inbox[t] /\ m = inbox[t][1]
      BY <3>2 DEF m
    <3>4. m.value \in Values(inbox[t])
      BY <3>3 DEF Values
    <3> QED BY <3>1, <3>4 DEF Unmixed
  <2>8. inbox'[t] = Tail(inbox[t])
    BY <1>1
  <2> QED BY <1>1, <1>2, <1>6, <2>2, <2>4, <2>5, <2>6, <2>7, <2>8, ChangeStep DEF a
<1> QED BY <1>8, <1>9, <1>10

---------------------------------------------------------------------------
(* The specification.                                                      *)

LEMMA InitSession ==
  ASSUME Init
  PROVE  SessionInv
<1> USE DEF Init
<1>1. setup \in Setups /\ MaxTokens \in Nat /\ setup.maxEvents \in Nat
  BY Bounds
<1>2. <<>> \in Seq(Message)
  OBVIOUS
<1>3. Typed
  <2>1. 0 \in 0..MaxTokens /\ 0 \in 0..setup.maxEvents
    BY <1>1
  <2>2. tab \in [Tabs -> Tab] /\ inbox \in [Tabs -> Seq(Message)]
    BY <1>2, ClosedType
  <2> QED BY <1>1, <2>1, <2>2 DEF Typed
<1>4. \A u \in Tabs : tab[u] = ClosedTab /\ inbox[u] = <<>> /\ tab[u].phase = "closed"
  BY DEF ClosedTab
<1>5. TabsOK /\ Unheard
  BY <1>4, ClosedType DEF TabsOK, Unheard
<1>6. SettledOn(None)
  BY <1>4, NothingTold DEF SettledOn
<1> QED BY <1>3, <1>5, <1>6 DEF SessionInv, TabsSettle, Session

LEMMA SessionStep ==
  ASSUME SessionInv, [Next]_vars
  PROVE  SessionInv' /\ StaysUnmixed
<1>1. CASE UNCHANGED vars
  <2>1. /\ MaxTokens' = MaxTokens /\ Token' = Token /\ Auth' = Auth /\ Session' = Session
        /\ Message' = Message /\ Tab' = Tab
    BY <1>1, TypesStay DEF vars
  <2>2. UNCHANGED <<tab, inbox, due, expired, issued, events, missed, setup>>
    BY <1>1 DEF vars
  <2>3. Typed' /\ Unheard'
    BY <2>1, <2>2 DEF SessionInv, Typed, Unheard
  <2>4. TabsOK'
    BY <2>1, <2>2 DEF SessionInv, TabsOK, TabOK, OpenTabOK, Watched
  <2>5. TabsSettle'
    BY <2>1, <2>2 DEF SessionInv, TabsSettle, SettledOn, Held, Open
  <2>6. StaysUnmixed
    BY <2>2 DEF StaysUnmixed, Unmixed
  <2> QED BY <2>3, <2>4, <2>5, <2>6 DEF SessionInv
<1>2. CASE TokenAges
  BY <1>2, AgeStep
<1>3. ASSUME NEW t \in Tabs, TabStep(t)
      PROVE  SessionInv' /\ StaysUnmixed
  BY <1>3, LoadStep, TimeoutStep, ReceiveStep, LogInStep, RequestStep, TimerStep, RefreshStep,
     FetchAnsweredStep DEF TabStep
<1>4. ASSUME NEW t \in Tabs, UserStep(t)
      PROVE  SessionInv' /\ StaysUnmixed
  BY <1>4, OpenStep, LeaveStep, RequestStep, UserEventStep DEF UserStep
<1> QED BY <1>1, <1>2, <1>3, <1>4 DEF Next

LEMMA InvKept ==
  ASSUME SessionInv
  PROVE  SessionKept /\ QuietTabsAgree
<1>1. TypeOK
  BY DEF SessionInv, Typed, TypeOK
<1>2. AuthIsStored /\ KeptFresh
  BY DEF SessionInv, TabsOK, TabOK, OpenTabOK, Watched, AuthIsStored, KeptFresh, Open
<1>3. QuietTabsAgree
  <2>1. SUFFICES ASSUME Quiet, ~missed PROVE \E v : \A u \in Tabs : Open(u) => tab[u].storage = v
    BY DEF QuietTabsAgree
  <2>2. PICK v \in Session : SettledOn(v)
    BY <2>1 DEF SessionInv, TabsSettle
  <2>3. \A u \in Tabs : ~Tells(inbox[u]) /\ ~Told(inbox[u], v)
    BY <2>1, NothingTold DEF Quiet
  <2> QED BY <2>2, <2>3 DEF SettledOn, Held, Open
<1> QED BY <1>1, <1>2, <1>3 DEF SessionKept

\* The session of an open tab in memory is the one it has stored, and while the tab can be
\* seen a timer or a renewal looks after it, through log-ins, log-outs, reloads and late
\* answers (AuthService persist, revoke and checkFreshness).
THEOREM SessionSafe == Spec => []SessionKept
<1>1. Spec => []SessionInv
  BY InitSession, SessionStep, PTL DEF Spec
<1> QED BY <1>1, InvKept, PTL

\* Once all messages between the tabs are read, all tabs have the same session, however many
\* there are, unless one was loading, asking or closing while it changed
\* (startSyncBrowserTabs, getSharedSessionAuth).
THEOREM TabsAgreeSafe == Spec => []QuietTabsAgree
<1>1. Spec => []SessionInv
  BY InitSession, SessionStep, PTL DEF Spec
<1> QED BY <1>1, InvKept, PTL

\* A session of one user with another user's token comes from a renewal that was answered
\* after the tab's user has changed, and from nothing else (checkFreshness, onLoggedIn).
THEOREM MixedSafe == Spec => MixedOnlyByLateRefresh
<1>1. Spec => []SessionInv
  BY InitSession, SessionStep, PTL DEF Spec
<1>2. Unmixed <=> ~\E a \in Sessions : Mixed(a)
  BY DEF Unmixed, Sessions, Values
<1>3. Unmixed' <=> ~\E a \in Sessions' : Mixed(a)
  BY DEF Unmixed, Sessions, Values
<1>4. InTime <=> ~\E t \in Tabs : \E x \in tab[t].refreshes :
                     tab[t].auth # None /\ x.token.owner # tab[t].auth.username
  BY DEF InTime
<1>5. SessionInv /\ [Next]_vars =>
        [(\E a \in Sessions' : Mixed(a)) =>
            \/ \E a \in Sessions : Mixed(a)
            \/ \E t \in Tabs : \E x \in tab[t].refreshes :
                 tab[t].auth # None /\ x.token.owner # tab[t].auth.username]_vars
  BY <1>2, <1>3, <1>4, SessionStep DEF StaysUnmixed
<1> QED BY <1>1, <1>5, PTL DEF Spec, MixedOnlyByLateRefresh
=============================================================================
