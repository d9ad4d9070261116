----------------------------- MODULE WorkflowForm -----------------------------
(***************************************************************************)
(* The form of the workflow editor: what the user may enter and how inputs *)
(* change with the scope (workflow-editor.ts), what is sent when it is     *)
(* saved (parseConfig), what the server stores of it (add_crawl_config and *)
(* update_crawl_config) and how it is read back when the editor is opened  *)
(* again (getInitialFormState).                                            *)
(*                                                                         *)
(* Settings that are one value in the form, in the request and in the      *)
(* store (names, time limits, languages, ...) are left out.                *)
(***************************************************************************)
EXTENDS Naturals, Sequences, SequencesExt

CONSTANTS Urls, Patterns, Files, Colls, Proxies, Profiles, Selectors, Excluded,
          Scopes, Depths,
          Topics,        \* sets of groups of inputs: what a user works on
          MaxEdits,      \* edits between two saves
          MaxIncludes,   \* included pages
          MaxLapses,     \* lapses in one behaviour
          Absent

AllScopes == {"page", "page-list", "page-spa", "prefix", "custom", "regex"}
Groups == {"url", "urls", "files", "includes", "options", "site", "browser", "dedupe"}
\* Edits that the form, the request or the store does not keep: a list of one URL, another
\* scope chosen where a file, additional URLs or linked pages are set, a URL among regular
\* expressions, a depth of zero, a proxy that is cleared or set beside a profile.
\* Properties say which of them they need not to have happened.
Lapses == {"short_list", "file_switch", "extra_urls", "linked", "url_regex",
           "zero_depth", "proxy", "profile_proxy"}

ASSUME WorkflowFormAssumption ==
    /\ Scopes \subseteq AllScopes /\ Depths \subseteq Nat /\ MaxEdits \in Nat /\ MaxIncludes \in Nat
    /\ Topics \subseteq SUBSET Groups /\ MaxLapses \in Nat

VARIABLES form, config,
          exists,        \* is there a workflow yet?
          open,          \* is its editor open?
          edits,
          shown,         \* what the form showed when it was last saved
          topic,         \* what the user works on (never changes)
          lapses         \* those there were
vars == <<form, config, exists, open, edits, shown, topic, lapses>>

isUrlListScopeType(s) == s \in {"page", "page-list"}
isPageScopeType(s) == s \in {"page", "page-list", "page-spa"}
isDepthSupportedScopeType(s) == s \in {"prefix", "custom"}
Lists == {<<u>> : u \in Urls} \cup {s \in Urls \X Urls : s[1] # s[2]}
First(s) == IF s = <<>> THEN Absent ELSE s[1]
Rest(s) == IF s = <<>> THEN <<>> ELSE Tail(s)
Distinct(s) == SelectSeq(s, LAMBDA x : x # Absent)
Uniq(s) == FoldLeft(LAMBDA acc, x : IF x \in ToSet(acc) THEN acc ELSE Append(acc, x), <<>>, s)

-----------------------------------------------------------------------------
(* Included pages: a URL (the directory of a URL), the regular expression    *)
(* that matches what begins with it, or a regular expression of another kind *)

Entry(kind, x) == [kind |-> kind, of |-> x]
regexEscape(e) == IF e.kind = "url" THEN Entry("prefix", e.of) ELSE e
unescapeCustomPrefix(e) == IF e.kind = "prefix" THEN Entry("url", e.of) ELSE e
\* regexScopeConfig: is some entry no URL when unescaped?
regexScopeConfig(s) == \E i \in DOMAIN s : unescapeCustomPrefix(s[i]).kind # "url"
Map(Op(_), s) == [i \in DOMAIN s |-> Op(s[i])]
OnlyUrls(s) == SelectSeq(Map(unescapeCustomPrefix, s), LAMBDA e : e.kind = "url")

customIncludeListFromSeed(url, scope) ==
    IF url = Absent THEN <<>>
    ELSE <<Entry(IF scope = "regex" THEN "prefix" ELSE "url", url)>>

-----------------------------------------------------------------------------
(* The form.                                                                 *)

Default(scope) ==
    [scopeType |-> scope, primarySeedUrl |-> Absent, urlList |-> <<>>,
     seedListFormat |-> "json", seedFileId |-> Absent, seedFile |-> Absent,
     customIncludeList |-> <<>>, includeLinkedPages |-> FALSE, useSitemap |-> FALSE,
     failOnFailedSeed |-> FALSE, maxScopeDepth |-> Absent, exclusions |-> {},
     selectLinks |-> {}, linkTable |-> {}, browserProfile |-> Absent, proxyId |-> Absent,
     failOnContentCheck |-> FALSE, dedupeCollection |-> Absent, autoAddCollections |-> {}]

LinksShown(f) == f.includeLinkedPages \/ ~isUrlListScopeType(f.scopeType)
canExclude(f) == f.scopeType # "page" \/ f.includeLinkedPages

hasRequiredFields(f) ==
    IF isUrlListScopeType(f.scopeType)
    THEN IF f.seedListFormat = "file" THEN f.seedFile # Absent \/ f.seedFileId # Absent
         ELSE f.urlList # <<>>
    ELSE f.primarySeedUrl # Absent
\* The list of included pages is a required input of its scopes.
Valid(f) ==
    /\ hasRequiredFields(f)
    /\ f.scopeType \in {"custom", "regex"} => f.customIncludeList # <<>>

\* What the user sees of f, with the two ways to show included pages taken for one.
Visible(f) ==
    [scopeType |-> IF f.scopeType = "regex" THEN "custom" ELSE f.scopeType,
     primarySeedUrl |-> IF isUrlListScopeType(f.scopeType) THEN Absent ELSE f.primarySeedUrl,
     urlList |-> IF f.scopeType = "page-spa" \/ (f.scopeType = "page-list" /\ f.seedListFormat = "file")
                 THEN <<>> ELSE f.urlList,
     file |-> IF f.scopeType = "page-list" /\ f.seedListFormat = "file"
              THEN (IF f.seedFileId # Absent THEN f.seedFileId ELSE f.seedFile) ELSE Absent,
     include |-> IF f.scopeType \in {"custom", "regex"} THEN Map(regexEscape, f.customIncludeList)
                 ELSE <<>>,
     includeLinkedPages |-> f.includeLinkedPages,
     useSitemap |-> ~isPageScopeType(f.scopeType) /\ f.useSitemap,
     failOnFailedSeed |-> f.scopeType # "page" /\ f.failOnFailedSeed,
     depth |-> IF isDepthSupportedScopeType(f.scopeType) THEN f.maxScopeDepth ELSE Absent,
     exclusions |-> IF canExclude(f) THEN f.exclusions ELSE {},
     links |-> IF LinksShown(f) THEN f.linkTable ELSE {},
     browserProfile |-> f.browserProfile, proxyId |-> f.proxyId,
     failOnContentCheck |-> f.browserProfile # Absent /\ f.failOnContentCheck,
     dedupeCollection |-> f.dedupeCollection, autoAddCollections |-> f.autoAddCollections]

-----------------------------------------------------------------------------
(* The request: parseConfig. A field of "unset" is not sent.                 *)

Seed(url, scope, include, hops, depth) ==
    [url |-> url, scopeType |-> scope, include |-> include, extraHops |-> hops, depth |-> depth]
PageSeed(u) == Seed(u, "page", <<>>, FALSE, Absent)

parseUrlListConfig_both(f) ==
    [seeds |-> Map(PageSeed, f.urlList),
     seedFileId |-> IF f.seedListFormat = "json" THEN f.seedFileId
                    ELSE IF f.seedFile # Absent THEN f.seedFile ELSE f.seedFileId,
     scopeType |-> "page", extraHops |-> f.includeLinkedPages, useSitemap |-> FALSE,
     failOnFailedSeed |-> f.scopeType = "page-list" /\ f.failOnFailedSeed,
     unset |-> {}]
parseUrlListConfig_upload(f) ==
    [seeds |-> IF f.seedListFormat = "json" THEN Map(PageSeed, f.urlList) ELSE <<>>,
     seedFileId |-> IF f.seedListFormat = "json" THEN Absent ELSE f.seedFile,
     scopeType |-> "page", extraHops |-> f.includeLinkedPages, useSitemap |-> FALSE,
     failOnFailedSeed |-> f.scopeType = "page-list" /\ f.failOnFailedSeed,
     unset |-> {}]
parseUrlListConfig(f) ==
    [seeds |-> IF f.seedListFormat = "json" THEN Map(PageSeed, f.urlList) ELSE <<>>,
     seedFileId |-> IF f.seedListFormat = "json" THEN Absent
                    ELSE IF f.seedFile # Absent THEN f.seedFile ELSE f.seedFileId,
     scopeType |-> "page", extraHops |-> f.includeLinkedPages, useSitemap |-> FALSE,
     failOnFailedSeed |-> f.scopeType = "page-list" /\ f.failOnFailedSeed,
     unset |-> {}]

parseSeededConfig(f) ==
    LET scope == IF f.scopeType = "regex" THEN "custom" ELSE f.scopeType IN
    [seeds |-> <<Seed(f.primarySeedUrl, scope,
                      CASE f.scopeType = "regex" -> f.customIncludeList
                        [] f.scopeType = "custom" -> Map(regexEscape, f.customIncludeList)
                        [] OTHER -> <<>>,
                      f.includeLinkedPages,
                      IF isDepthSupportedScopeType(f.scopeType) THEN f.maxScopeDepth ELSE Absent)>>
               \o (IF isPageScopeType(f.scopeType) THEN <<>> ELSE Map(PageSeed, f.urlList)),
     seedFileId |-> Absent, scopeType |-> scope, extraHops |-> FALSE,
     useSitemap |-> f.useSitemap, failOnFailedSeed |-> f.failOnFailedSeed,
     unset |-> {"seedFileId", "extraHops"}]

\* onSubmit drops failOnContentCheck where no profile is selected.
parseConfig(f) ==
    LET c == IF isUrlListScopeType(f.scopeType) THEN parseUrlListConfig(f) ELSE parseSeededConfig(f) IN
    [seeds |-> c.seeds, seedFileId |-> c.seedFileId, scopeType |-> c.scopeType,
     extraHops |-> c.extraHops, useSitemap |-> c.useSitemap,
     failOnFailedSeed |-> c.failOnFailedSeed, unset |-> c.unset,
     exclude |-> IF canExclude(f) THEN f.exclusions ELSE {},
     selectLinks |-> IF LinksShown(f) THEN f.linkTable ELSE {},
     failOnContentCheck |-> f.browserProfile # Absent /\ f.failOnContentCheck,
     profileid |-> f.browserProfile, proxyId |-> f.proxyId,
     dedupeCollId |-> f.dedupeCollection, autoAddCollections |-> f.autoAddCollections]

-----------------------------------------------------------------------------
(* The server.                                                               *)

RawFields == {"seeds", "seedFileId", "scopeType", "extraHops", "useSitemap",
              "failOnFailedSeed", "exclude", "selectLinks", "failOnContentCheck"}
MetaFields == {"dedupeCollId", "autoAddCollections"}
NoConfig == [x \in RawFields \cup MetaFields \cup {"profileid", "proxyId"} |-> Absent]

\* The collection for deduplication is one that crawls are added to.
AutoAdd(req) ==
    req.autoAddCollections \cup (IF req.dedupeCollId = Absent THEN {} ELSE {req.dedupeCollId})

\* add_crawl_config: a profile brings its own proxy.
add_crawl_config(req) ==
    [x \in DOMAIN NoConfig |->
        CASE x = "proxyId" -> (IF req.profileid # Absent THEN Absent ELSE req.proxyId)
          [] x = "autoAddCollections" -> AutoAdd(req)
          [] OTHER -> req[x]]

\* update_crawl_config: fields that are not sent keep their value; nothing is written
\* when nothing is taken for changed. An absent proxy is null, which says no change, an
\* absent collection is "", which differs from the stored null.
Merged(c, req) == [x \in RawFields |-> IF x \in req.unset THEN c[x] ELSE req[x]]
Changed(c, req) ==
    \/ \E x \in RawFields : Merged(c, req)[x] # c[x]
    \/ req.profileid # c.profileid
    \/ req.profileid = Absent /\ req.proxyId # Absent /\ req.proxyId # c.proxyId
MetadataChanged_dedupe(c, req) == req.dedupeCollId # c.dedupeCollId
MetadataChanged(c, req) ==
    \/ req.dedupeCollId = Absent \/ req.dedupeCollId # c.dedupeCollId
    \/ AutoAdd(req) # c.autoAddCollections
update_crawl_config(c, req) ==
    IF ~Changed(c, req) /\ ~MetadataChanged(c, req) THEN c
    ELSE [x \in DOMAIN NoConfig |->
            CASE x \in RawFields -> Merged(c, req)[x]
              [] x = "autoAddCollections" -> AutoAdd(req)
              [] OTHER -> req[x]]

-----------------------------------------------------------------------------
(* The form of a workflow: getInitialFormState. The proxy of a workflow with *)
(* a profile is that of the profile (get_crawl_config_out): none, here.      *)

SeedUrls(s) == Map(LAMBDA x : x.url, s)

Seeded(c) ==
    LET seed == c.seeds[1] IN
    [Default(seed.scopeType) EXCEPT
        !.scopeType = CASE seed.include = <<>> -> @
                        [] regexScopeConfig(seed.include) -> "regex"
                        [] OTHER -> "custom",
        !.customIncludeList = IF regexScopeConfig(seed.include) THEN seed.include
                              ELSE Map(unescapeCustomPrefix, seed.include),
        !.primarySeedUrl = seed.url,
        !.urlList = SeedUrls(Tail(c.seeds)),
        !.maxScopeDepth = IF seed.depth = 0 THEN Absent ELSE seed.depth,
        !.useSitemap = c.useSitemap,
        !.includeLinkedPages = seed.extraHops \/ c.extraHops]

Listed(c) ==
    [Default("page") EXCEPT
        !.scopeType = IF c.seedFileId # Absent \/ Len(c.seeds) > 1 THEN "page-list" ELSE "page",
        !.seedListFormat = IF c.seedFileId # Absent THEN "file" ELSE "json",
        !.seedFileId = c.seedFileId,
        !.urlList = IF c.seedFileId # Absent THEN <<>> ELSE SeedUrls(c.seeds),
        !.includeLinkedPages = c.extraHops]

getInitialFormState(c) ==
    [(IF c.scopeType = "page" THEN Listed(c) ELSE Seeded(c)) EXCEPT
        !.failOnFailedSeed = c.failOnFailedSeed, !.exclusions = c.exclude,
        !.selectLinks = c.selectLinks, !.linkTable = c.selectLinks,
        !.browserProfile = c.profileid,
        !.proxyId = IF c.profileid # Absent THEN Absent ELSE c.proxyId,
        !.failOnContentCheck = c.failOnContentCheck,
        !.dedupeCollection = c.dedupeCollId, !.autoAddCollections = c.autoAddCollections]

Init ==
    /\ \E s \in Scopes : form = Default(s)
    /\ config = NoConfig /\ exists = FALSE /\ open = TRUE
    /\ edits = 0 /\ shown = Absent /\ topic \in Topics /\ lapses = {}

-----------------------------------------------------------------------------
(* Edits.                                                                    *)

\* The table of link selectors starts anew, from selectLinks, whenever it is shown.
Rerendered(old, new) ==
    IF LinksShown(old) THEN new ELSE [new EXCEPT !.linkTable = new.selectLinks]
Lapse(set) ==
    /\ Cardinality(lapses \cup set) <= MaxLapses
    /\ lapses' = lapses \cup set
If(condition, what) == IF condition THEN {what} ELSE {}
Without(set) == lapses \cap set = {}
EditWith(group, new, set) ==
    /\ open /\ group \in topic /\ edits < MaxEdits /\ new # form
    /\ form' = Rerendered(form, new) /\ edits' = edits + 1 /\ Lapse(set)
    /\ UNCHANGED <<config, exists, open, shown, topic>>
Edit(group, new) == EditWith(group, new, {})

\* changeScopeType
UrlsAfter(f, v) ==
    IF isUrlListScopeType(v) = isUrlListScopeType(f.scopeType)
    THEN IF isUrlListScopeType(v) THEN Distinct(<<First(f.urlList)>>) ELSE f.urlList
    ELSE IF isUrlListScopeType(v) THEN Uniq(Distinct(<<f.primarySeedUrl>>) \o f.urlList)
    ELSE Rest(f.urlList)
PrimaryAfter(f, v) ==
    IF isUrlListScopeType(f.scopeType) /\ ~isUrlListScopeType(v) THEN First(f.urlList)
    ELSE f.primarySeedUrl
IncludeAfter(f, v) ==
    IF v \notin {"custom", "regex"} THEN f.customIncludeList
    ELSE CASE f.scopeType = "regex" -> OnlyUrls(f.customIncludeList)
           [] f.scopeType = "custom" -> Map(regexEscape, f.customIncludeList)
           [] OTHER -> customIncludeListFromSeed(PrimaryAfter(f, v), f.scopeType)
changeScopeType(v) ==
    /\ v # form.scopeType
    /\ EditWith("urls", [form EXCEPT !.scopeType = v, !.urlList = UrlsAfter(form, v),
                             !.primarySeedUrl = PrimaryAfter(form, v),
                             !.customIncludeList = IncludeAfter(form, v)],
                If(form.seedListFormat = "file" \/ config.seedFileId # Absent, "file_switch")
                \cup If(v = "page" /\ form.urlList # <<>> /\ form.scopeType # "page-list", "extra_urls")
                \cup If(~isUrlListScopeType(v) /\ exists /\ config.extraHops = TRUE, "linked")
                \cup If(v = "regex" /\ form.scopeType # "custom", "url_regex"))

EnterUrl(u) ==
    /\ form.scopeType = "page"
    /\ Edit("url", [form EXCEPT !.urlList = <<u>>])
\* URLs of a list, and additional URLs of a site.
EnterUrlList(s) ==
    /\ \/ form.scopeType = "page-list" /\ form.seedListFormat = "json"
       \/ ~isPageScopeType(form.scopeType)
    /\ Edit("urls", [form EXCEPT !.urlList = s])
\* When the input is left, an empty list of included pages is filled in.
EnterPrimarySeedUrl(u) ==
    /\ ~isUrlListScopeType(form.scopeType)
    /\ Edit("urls", [form EXCEPT !.primarySeedUrl = u,
                 !.customIncludeList = IF form.scopeType \in {"custom", "regex"} /\ @ = <<>>
                                       THEN customIncludeListFromSeed(u, form.scopeType) ELSE @])
EnterIncludeList(e) ==
    /\ form.scopeType = "custom" => e.kind = "url"
    /\ form.scopeType \in {"custom", "regex"} /\ Len(form.customIncludeList) < MaxIncludes
    /\ EditWith("includes", [form EXCEPT !.customIncludeList = Append(@, e)],
                If(form.scopeType = "regex" /\ e.kind = "url", "url_regex"))

SelectFormat(x) ==
    /\ form.scopeType = "page-list"
    /\ Edit("files", [form EXCEPT !.seedListFormat = x])
FileShown == form.scopeType = "page-list" /\ form.seedListFormat = "file"
ChooseFile(f) ==
    /\ FileShown /\ form.seedFileId = Absent
    /\ Edit("files", [form EXCEPT !.seedFile = f])
RemoveFile ==
    /\ FileShown
    /\ Edit("files", IF form.seedFileId # Absent THEN [form EXCEPT !.seedFileId = Absent]
                     ELSE [form EXCEPT !.seedFile = Absent])
UndoRemoval ==
    /\ FileShown /\ form.seedFileId = Absent /\ form.seedFile = Absent
    /\ Edit("files", [form EXCEPT !.seedFileId = config.seedFileId])
\* A long list that is pasted becomes a file.
PasteLongList(f) ==
    /\ form.scopeType = "page-list" /\ form.seedListFormat = "json"
    /\ Edit("files", [form EXCEPT !.urlList = <<>>, !.seedFileId = Absent,
                                  !.seedListFormat = "file", !.seedFile = f])

ToggleOption ==
    \/ Edit("options", [form EXCEPT !.includeLinkedPages = ~@])
    \/ ~isPageScopeType(form.scopeType) /\ Edit("site", [form EXCEPT !.useSitemap = ~@])
    \/ /\ form.scopeType = "page-list" \/ ~isPageScopeType(form.scopeType)
       /\ Edit("options", [form EXCEPT !.failOnFailedSeed = ~@])
EnterDepth(n) ==
    /\ isDepthSupportedScopeType(form.scopeType)
    /\ EditWith("site", [form EXCEPT !.maxScopeDepth = n], If(n = 0, "zero_depth"))
EnterExclusions(s) ==
    /\ LinksShown(form) \/ (form.scopeType # "page" /\ form.exclusions # {})
    /\ Edit("options", [form EXCEPT !.exclusions = s])
EnterSelectors(s) ==
    /\ LinksShown(form)
    /\ Edit("options", [form EXCEPT !.linkTable = s])

SelectProfile(p) ==
    /\ p # form.browserProfile
    /\ Edit("browser", [form EXCEPT !.browserProfile = p, !.proxyId = Absent])
\* The input is disabled where a profile is selected and some proxy is.
SelectProxy(p) ==
    /\ form.browserProfile # Absent => form.proxyId = Absent
    /\ EditWith("browser", [form EXCEPT !.proxyId = p],
                If(form.browserProfile # Absent, "profile_proxy"))
ToggleContentCheck ==
    /\ form.browserProfile # Absent
    /\ Edit("browser", [form EXCEPT !.failOnContentCheck = ~@])

\* A collection for deduplication is added to those that crawls are added to, and is
\* removed from them with it.
SelectDedupe(c) ==
    Edit("dedupe", [form EXCEPT !.dedupeCollection = c,
                       !.autoAddCollections = IF c = Absent THEN @ \ {form.dedupeCollection}
                                              ELSE @ \cup {c}])
SelectAutoAdd(s) ==
    /\ form.dedupeCollection # Absent => form.dedupeCollection \in s
    /\ Edit("dedupe", [form EXCEPT !.autoAddCollections = s])

-----------------------------------------------------------------------------
ClearsProxy ==
    /\ form.browserProfile = Absent /\ form.proxyId = Absent
    /\ exists /\ config.profileid = Absent /\ config.proxyId # Absent
Save ==
    /\ open /\ Valid(form)
    /\ Lapse(If(form.scopeType = "page-list" /\ form.seedListFormat = "json" /\ Len(form.urlList) = 1,
                "short_list")
             \cup If(ClearsProxy, "proxy"))
    /\ LET req == parseConfig(form) IN
       config' = IF exists THEN update_crawl_config(config, req) ELSE add_crawl_config(req)
    /\ exists' = TRUE /\ open' = FALSE /\ shown' = Visible(form)
    /\ UNCHANGED <<form, edits, topic>>

Reopen ==
    /\ ~open
    /\ form' = getInitialFormState(config)
    /\ open' = TRUE /\ edits' = 0
    /\ UNCHANGED <<config, exists, shown, topic, lapses>>

Next ==
    \/ \E v \in Scopes : changeScopeType(v)
    \/ \E u \in Urls : EnterUrl(u) \/ EnterPrimarySeedUrl(u)
    \/ \E s \in Lists : EnterUrlList(s)
    \/ \E u \in Urls : EnterIncludeList(Entry("url", u))
    \/ \E r \in Patterns : EnterIncludeList(Entry("regex", r))
    \/ \E x \in {"json", "file"} : SelectFormat(x)
    \/ \E f \in Files : ChooseFile(f) \/ PasteLongList(f)
    \/ RemoveFile \/ UndoRemoval \/ ToggleOption \/ ToggleContentCheck
    \/ \E n \in Depths \cup {Absent} : EnterDepth(n)
    \/ \E s \in SUBSET Excluded : EnterExclusions(s)
    \/ \E s \in SUBSET Selectors : EnterSelectors(s)
    \/ \E p \in Profiles \cup {Absent} : SelectProfile(p)
    \/ \E p \in Proxies \cup {Absent} : SelectProxy(p)
    \/ \E c \in Colls \cup {Absent} : SelectDedupe(c)
    \/ \E s \in SUBSET Colls : SelectAutoAdd(s)
    \/ Save \/ Reopen
Spec == Init /\ [][Next]_vars

-----------------------------------------------------------------------------
\* The values of the inputs, which follow the scope (changeScopeType), and a workflow that
\* has pages to crawl.
TypeOK ==
    /\ form.scopeType \in AllScopes /\ ToSet(form.urlList) \subseteq Urls
    /\ form.primarySeedUrl \in Urls \cup {Absent}
    /\ {e.kind : e \in ToSet(form.customIncludeList)} \subseteq {"url", "prefix", "regex"}
    /\ form.scopeType = "custom" => {e.kind : e \in ToSet(form.customIncludeList)} \subseteq {"url"}
    /\ form.maxScopeDepth \in Depths \cup {Absent}
    /\ exists => config.seeds # <<>> \/ config.seedFileId # Absent
    /\ edits \in 0..MaxEdits /\ topic \in Topics /\ lapses \subseteq Lapses

\* The editor that is opened again (getInitialFormState) shows what was saved
\* (parseConfig), after any edit but those named: a list of one URL, a depth of zero, a
\* scope that is changed where a file, additional URLs or linked pages were set, and
\* proxies that are cleared or set beside a profile.
FormKept ==
    [][Reopen /\ Without({"short_list", "linked", "zero_depth", "proxy", "profile_proxy", "file_switch",
                            "extra_urls"})
          => Visible(form') = shown]_vars

\* Opening the editor and saving without a change leaves the workflow alone: parseConfig
\* is the inverse of getInitialFormState on what the server stores, but for what the edits
\* named have stored.
SaveKeeps ==
    [][Save /\ exists /\ form = getInitialFormState(config) /\ Without({"short_list", "url_regex", "zero_depth",
                                                                       "linked", "profile_proxy"})
          => config' = config]_vars

\* The pages to crawl are those of a list or those of a file, never both, as long as the
\* scope is not changed where a file is chosen or stored (changeScopeType keeps the file,
\* update_crawl_config the stored one).
ListOrFile == exists /\ Without({"file_switch"}) => config.seeds = <<>> \/ config.seedFileId = Absent

\* A workflow saved with the scope of a single page has one seed (parseUrlListConfig), as
\* long as the scope is not changed where additional URLs or a file are entered.
SinglePage ==
    exists /\ shown.scopeType = "page" /\ Without({"extra_urls", "file_switch"}) => Len(config.seeds) = 1

\* The seeds that are stored fit the scope they were saved with (parseConfig).
SeedsFitScope == TypeOK /\ ListOrFile /\ SinglePage
=============================================================================
