---------------------------- MODULE ListPageProofs ----------------------------
(***************************************************************************)
(* Proofs about ListPage: the list at rest is the one that was asked for   *)
(* (ListAsAskedSafe), and list, pager and URL agree on a page that exists  *)
(* (PagesAgreeSafe).                                                       *)
(*                                                                         *)
(* The elements change through a few functions (GoTo, SetValue, SetSort,   *)
(* SetPage, SetAttribute, Render, Reset, Open).  What each of them leaves  *)
(* alone and what it sets is stated once, in the lemmas ...Facts, for any  *)
(* elements; the lemmas after them say that a page whose URLs say what was *)
(* asked there (Faithful) and whose copies of the page number are one      *)
(* (Aligned) stays so, and that a change is told (TellsAll).  An act is    *)
(* such a change (Prepared) followed by the elements' update (ActStep).    *)
(*                                                                         *)
(* That the page exists needs more: every entry of the history is a page   *)
(* of the list its filters give (AllExist), since the user may go back to  *)
(* any of them, and the pager, which a navigation may turn before the list *)
(* follows, is the list's again whenever the list is at rest (AtRest).     *)
(***************************************************************************)
EXTENDS ListPage, FiniteSetTheorems, TLAPS

-----------------------------------------------------------------------------
(***************************************************************************)
(* Page numbers.                                                           *)
(***************************************************************************)

\* Integer division.
LEMMA DivBounds ==
  ASSUME NEW a \in Nat, NEW b \in Nat \ {0}
  PROVE  /\ a \div b \in Nat
         /\ (a \div b) * b <= a
         /\ a < (a \div b) * b + b
  OBVIOUS

LEMMA ProductGrows ==
  ASSUME NEW q \in Nat, NEW r \in Nat, NEW b \in Nat \ {0}, q < r
  PROVE  q * b + b <= r * b
<1>1. PICK d \in Nat : r = q + 1 + d
  <2>1. r - q - 1 \in Nat /\ r = q + 1 + (r - q - 1)
    OBVIOUS
  <2> QED BY <2>1
<1>2. r * b = q * b + b + d * b
  BY <1>1
<1>3. d * b \in Nat /\ q * b \in Nat
  OBVIOUS
<1> QED BY <1>2, <1>3

LEMMA DivGrows ==
  ASSUME NEW a \in Nat, NEW c \in Nat, NEW b \in Nat \ {0}, a <= c
  PROVE  a \div b <= c \div b
<1> DEFINE q == a \div b
           r == c \div b
<1>1. /\ q \in Nat /\ r \in Nat
      /\ q * b <= a /\ c < r * b + b
  BY DivBounds
<1> HIDE DEF q, r
<1>2. ASSUME r < q PROVE FALSE
  <2>1. r * b + b <= q * b
    BY <1>1, <1>2, ProductGrows
  <2>2. r * b \in Nat /\ q * b \in Nat
    BY <1>1
  <2> QED BY <1>1, <2>1, <2>2
<1>3. q <= r
  BY <1>1, <1>2
<1> QED BY <1>3 DEF q, r

\* Items take no page when there are none and one when they fit on it.
LEMMA PagesFacts ==
  ASSUME NEW n \in Nat
  PROVE  /\ Pages(n) \in Nat
         /\ n = 0 => Pages(n) = 0
         /\ n <= PageSize => Pages(n) <= 1
         /\ n > 0 => Pages(n) >= 1
         /\ \A m \in Nat : n <= m => Pages(n) <= Pages(m)
<1> DEFINE b == PageSize
           q == Pages(n)
<1>0. b \in Nat /\ b > 0
  BY ListPageAssumption
<1>1. n + b - 1 \in Nat
  BY <1>0
<1>2. q \in Nat /\ q * b <= n + b - 1 /\ n + b - 1 < q * b + b
  BY <1>0, <1>1, DivBounds DEF Pages
<1>3. \A m \in Nat : n <= m => Pages(n) <= Pages(m)
  <2> TAKE m \in Nat
  <2> HAVE n <= m
  <2>1. m + b - 1 \in Nat /\ n + b - 1 <= m + b - 1
    BY <1>0
  <2> QED BY <1>0, <1>1, <2>1, DivGrows DEF Pages
<1> HIDE DEF q
<1>4. ASSUME n = 0 PROVE q = 0
  <2>1. CASE q > 0
    <3>1. 0 * b + b <= q * b
      BY <1>0, <1>2, <2>1, ProductGrows
    <3>2. q * b \in Nat
      BY <1>0, <1>2
    <3> QED BY <1>0, <1>2, <1>4, <3>1, <3>2
  <2> QED BY <1>2, <2>1
<1>5. ASSUME n <= b PROVE q <= 1
  <2>1. CASE q > 1
    <3>1. 1 * b + b <= q * b
      BY <1>0, <1>2, <2>1, ProductGrows
    <3>2. q * b \in Nat
      BY <1>0, <1>2
    <3> QED BY <1>0, <1>2, <1>5, <3>1, <3>2
  <2> QED BY <1>2, <2>1
<1>6. ASSUME n > 0 PROVE q >= 1
  <2>1. CASE q = 0
    BY <1>0, <1>2, <1>6, <2>1
  <2> QED BY <1>2, <2>1
<1>7. /\ q \in Nat
      /\ n = 0 => q = 0
      /\ n <= b => q <= 1
      /\ n > 0 => q >= 1
  BY <1>2, <1>4, <1>5, <1>6
<1> QED BY <1>3, <1>7 DEF q

LEMMA ConstrainFacts ==
  ASSUME NEW page \in Nat \ {0}, NEW pages \in Nat
  PROVE  /\ Constrain(page, pages) \in Nat \ {0}
         /\ page = 1 \/ page <= pages => Constrain(page, pages) = page
         /\ Constrain(page, pages) = 1 \/ Constrain(page, pages) <= pages
  BY DEF Constrain

-----------------------------------------------------------------------------
(***************************************************************************)
(* The values that are kept, and what the codecs make of them.             *)
(***************************************************************************)
Page == Nat \ {0}
FilterValues == [search : BOOLEAN, status : BOOLEAN, mine : BOOLEAN,
                 tags : {"none", "some", "undefined"}]
PlainFilters == [search : BOOLEAN, status : BOOLEAN, mine : BOOLEAN,
                 tags : {"none", "some"}]
SortValues == [field : {"default", "other"}, direction : Directions]
Params == [search : BOOLEAN, status : BOOLEAN, mine : BOOLEAN, tags : BOOLEAN,
           sortBy : BOOLEAN, sortDir : {""} \union Directions, page : Page]
Entry == [params : Params, wanted : [filters : PlainFilters, sort : SortValues]]
Pager == [there : BOOLEAN, page : Page, attribute : Page, total : Nat]
Tab == [history : Seq(Entry), at : Nat, stored : BOOLEAN, filters : FilterValues,
        sort : SortValues, page : Page, pager : Pager, dirty : BOOLEAN,
        reset : BOOLEAN]
ArgValues == [filters : PlainFilters, sort : SortValues, page : Page]

TabOK(t) == t \in Tab /\ t.at \in DOMAIN t.history

LEMMA CodecTypes ==
  /\ \A params \in Params : Decode(params) \in PlainFilters /\ DecodeSort(params) \in SortValues
  /\ \A sort \in SortValues, params \in Params : EncodeSort(sort, params) \in Params
  /\ \A filters \in FilterValues, params \in Params :
       /\ EncodeFilterBy(filters, params) \in Params
       /\ EncodeProfilesFilterBy(filters, params) \in Params
       /\ EncodeMine(filters, params) \in Params
       /\ EncodeTags(filters, params) \in Params
  /\ \A filters \in FilterValues : Norm(filters) \in PlainFilters
  /\ PlainFilters \subseteq FilterValues
<1>1. ASSUME NEW params \in Params
      PROVE  Decode(params) \in PlainFilters /\ DecodeSort(params) \in SortValues
  BY DEF Params, PlainFilters, SortValues, Decode, DecodeSort, Directions, DefaultDirection,
         DefaultSort
<1>2. ASSUME NEW sort \in SortValues, NEW params \in Params
      PROVE  EncodeSort(sort, params) \in Params
  BY DEF Params, SortValues, EncodeSort, Directions
<1>3. ASSUME NEW filters \in FilterValues, NEW params \in Params
      PROVE  /\ EncodeFilterBy(filters, params) \in Params
             /\ EncodeProfilesFilterBy(filters, params) \in Params
             /\ EncodeMine(filters, params) \in Params
             /\ EncodeTags(filters, params) \in Params
  <2>1. EncodeFilterBy(filters, params) \in Params
    BY DEF Params, FilterValues, EncodeFilterBy
  <2>2. EncodeProfilesFilterBy(filters, params) \in Params
    BY DEF Params, FilterValues, EncodeProfilesFilterBy
  <2>3. EncodeMine(filters, params) \in Params
    BY DEF Params, FilterValues, EncodeMine
  <2>4. EncodeTags(filters, params) \in Params
    BY DEF Params, FilterValues, EncodeTags
  <2> QED BY <2>1, <2>2, <2>3, <2>4
<1>4. ASSUME NEW filters \in FilterValues
      PROVE  Norm(filters) \in PlainFilters
  BY DEF FilterValues, PlainFilters, Norm
<1>5. PlainFilters \subseteq FilterValues
  BY DEF FilterValues, PlainFilters
<1> QED BY <1>1, <1>2, <1>3, <1>4, <1>5

LEMMA UrlType ==
  ASSUME NEW t, TabOK(t)
  PROVE  /\ t.history[t.at] \in Entry
         /\ Url(t) \in Params
         /\ Wanted(t).filters \in PlainFilters /\ Wanted(t).sort \in SortValues
<1>1. t.history[t.at] \in Entry
  BY DEF TabOK, Tab
<1> QED BY <1>1 DEF Entry, Url, Wanted

WithPage(record, page) == [record EXCEPT !.page = page]
WithAttribute(pager, page) == [pager EXCEPT !.page = page, !.attribute = page]

\* What a navigation to params makes of the elements of t.
Turned(t, params) == t.pager.there /\ t.pager.page # params.page
Navigated(t, params, n) ==
  /\ n.filters = Decode(params) /\ n.sort = DecodeSort(params)
  /\ n.page = IF Turned(t, params) THEN params.page ELSE t.page
  /\ n.pager = WithPage(t.pager, IF Turned(t, params) THEN params.page ELSE t.pager.page)
  /\ n.dirty <=> (t.dirty \/ Requests(t.filters, Decode(params))
                  \/ t.sort # DecodeSort(params) \/ Turned(t, params))

LEMMA NavigateFacts ==
  ASSUME NEW t, TabOK(t), NEW params \in Params
  PROVE  LET n == Navigate(t, params) IN
         /\ TabOK(n) /\ Navigated(t, params, n)
         /\ n.history = t.history /\ n.at = t.at
         /\ n.stored = t.stored /\ n.reset = t.reset
<1> DEFINE n == Navigate(t, params)
           turned == t.pager.there /\ t.pager.page # params.page
<1>1. /\ Decode(params) \in FilterValues /\ DecodeSort(params) \in SortValues
  BY CodecTypes
<1> DEFINE d == t.dirty \/ Requests(t.filters, Decode(params))
                \/ t.sort # DecodeSort(params) \/ turned
           f == Decode(params)
           s == DecodeSort(params)
           p == IF turned THEN params.page ELSE t.page
           q == WithPage(t.pager, IF turned THEN params.page ELSE t.pager.page)
<1>6. n = [t EXCEPT !.filters = f, !.sort = s, !.dirty = d, !.page = p, !.pager = q]
  BY DEF Navigate, WithPage
<1>7. d \in BOOLEAN
  BY Zenon
<1> HIDE DEF d, f, s, p, q, n
<1>2. n = [history |-> t.history, at |-> t.at, stored |-> t.stored, filters |-> f,
           sort |-> s, page |-> p, pager |-> q, dirty |-> d, reset |-> t.reset]
  BY <1>6 DEF TabOK, Tab
<1> USE DEF f, s, p, q
<1>3. WithPage(t.pager, IF turned THEN params.page ELSE t.pager.page) \in Pager
  BY DEF TabOK, Tab, Pager, Params, WithPage
<1>4. params.page \in Page /\ t.page \in Page
  BY DEF TabOK, Tab, Params
<1>5. n \in Tab
  BY <1>1, <1>2, <1>3, <1>4, <1>7 DEF TabOK, Tab
<1>8. d <=> (t.dirty \/ Requests(t.filters, Decode(params))
             \/ t.sort # DecodeSort(params) \/ turned)
  BY Zenon DEF d
<1> QED BY <1>2, <1>5, <1>7, <1>8 DEF TabOK, n, Navigated, Turned

Entries(t) == {t.history[i] : i \in DOMAIN t.history}

\* The other entries of the history of g are those of t.
OthersFrom(t, g) == \A i \in DOMAIN g.history : i # g.at => g.history[i] \in Entries(t)
SameOthers(t, g) ==
  /\ g.at = t.at /\ DOMAIN g.history = DOMAIN t.history
  /\ \A i \in DOMAIN t.history : i # t.at => g.history[i] = t.history[i]

LEMMA SameOthersFrom ==
  ASSUME NEW t, NEW g, SameOthers(t, g)
  PROVE  OthersFrom(t, g)
  BY DEF SameOthers, OthersFrom, Entries

LEMMA GoToFacts ==
  ASSUME NEW t, TabOK(t), NEW params \in Params, NEW replace \in BOOLEAN
  PROVE  LET g == GoTo(t, params, replace) IN
         /\ TabOK(g)
         /\ Url(g) = params /\ Wanted(g) = Wanted(t)
         /\ g.stored = t.stored /\ g.reset = t.reset
         /\ OthersFrom(t, g)
         /\ replace => SameOthers(t, g)
         /\ params = Url(t) => g = t
         /\ params # Url(t) => Navigated(t, params, g)
<1> DEFINE g == GoTo(t, params, replace)
           n == Navigate(t, params)
           entry == [params |-> params, wanted |-> Wanted(t)]
<1>1. /\ TabOK(n) /\ Navigated(t, params, n)
      /\ n.history = t.history /\ n.at = t.at
      /\ n.stored = t.stored /\ n.reset = t.reset
  BY NavigateFacts
<1>2. entry \in Entry
  BY UrlType DEF Entry, Wanted
<1>3. t.history \in Seq(Entry) /\ t.at \in 1 .. Len(t.history)
  BY DEF TabOK, Tab
<1>4. CASE params = Url(t)
  <2>1. g = t
    BY <1>4 DEF GoTo
  <2> QED BY <1>4, <2>1 DEF OthersFrom, SameOthers, Entries
<1>5. CASE params # Url(t) /\ replace
  <2> DEFINE h == [t.history EXCEPT ![t.at] = entry]
  <2>1. g = [n EXCEPT !.history = h]
    BY <1>1, <1>5 DEF GoTo
  <2>2. h \in Seq(Entry) /\ DOMAIN h = DOMAIN t.history /\ h[t.at] = entry
    BY <1>2, <1>3
  <2>3. \A i \in DOMAIN t.history : i # t.at => h[i] = t.history[i]
    OBVIOUS
  <2> HIDE DEF h, n, g, entry
  <2>4. /\ g \in Tab
        /\ g.history = h /\ g.at = t.at /\ g.stored = t.stored /\ g.reset = t.reset
        /\ g.filters = n.filters /\ g.sort = n.sort /\ g.page = n.page
        /\ g.pager = n.pager /\ g.dirty = n.dirty
    BY <1>1, <2>1, <2>2 DEF TabOK, Tab
  <2>5. TabOK(g)
    BY <1>3, <2>2, <2>4 DEF TabOK
  <2>6. SameOthers(t, g)
    BY <2>2, <2>3, <2>4 DEF SameOthers
  <2>7. OthersFrom(t, g)
    BY <2>6, SameOthersFrom
  <2>8. Url(g) = params /\ Wanted(g) = Wanted(t)
    BY <2>2, <2>4 DEF Url, Wanted, entry
  <2>9. Navigated(t, params, g)
    BY <1>1, <2>4 DEF Navigated
  <2> QED BY <1>5, <2>4, <2>5, <2>6, <2>7, <2>8, <2>9 DEF g
<1>6. CASE params # Url(t) /\ ~replace
  <2> DEFINE h == Append(SubSeq(t.history, 1, t.at), entry)
  <2>1. g = [n EXCEPT !.history = h, !.at = t.at + 1]
    BY <1>1, <1>6 DEF GoTo
  <2>2. /\ h \in Seq(Entry) /\ Len(h) = t.at + 1 /\ h[t.at + 1] = entry
        /\ \A i \in 1 .. t.at : h[i] = t.history[i]
    <3>1. /\ SubSeq(t.history, 1, t.at) \in Seq(Entry)
          /\ Len(SubSeq(t.history, 1, t.at)) = t.at
          /\ \A i \in 1 .. t.at : SubSeq(t.history, 1, t.at)[i] = t.history[i]
      BY <1>3
    <3> HIDE DEF entry
    <3> QED BY <1>2, <1>3, <3>1
  <2> HIDE DEF h, n, g, entry
  <2>4. /\ g \in Tab
        /\ g.history = h /\ g.at = t.at + 1 /\ g.stored = t.stored /\ g.reset = t.reset
        /\ g.filters = n.filters /\ g.sort = n.sort /\ g.page = n.page
        /\ g.pager = n.pager /\ g.dirty = n.dirty
    <3> DEFINE k == t.at + 1
    <3>1. k \in Nat
      BY <1>3
    <3> HIDE DEF k
    <3>2. g = [n EXCEPT !.history = h, !.at = k]
      BY <2>1 DEF k
    <3>3. /\ g \in Tab
          /\ g.history = h /\ g.at = k /\ g.stored = n.stored /\ g.reset = n.reset
          /\ g.filters = n.filters /\ g.sort = n.sort /\ g.page = n.page
          /\ g.pager = n.pager /\ g.dirty = n.dirty
      BY <1>1, <2>2, <3>1, <3>2 DEF TabOK, Tab
    <3> QED BY <1>1, <3>3 DEF k
  <2>5. TabOK(g)
    BY <1>3, <2>2, <2>4 DEF TabOK
  <2>6. OthersFrom(t, g)
    <3>1. \A i \in DOMAIN g.history : i # g.at => i \in 1 .. t.at /\ i \in DOMAIN t.history
      BY <1>3, <2>2, <2>4
    <3> QED BY <2>2, <2>4, <3>1 DEF OthersFrom, Entries
  <2>8. Url(g) = params /\ Wanted(g) = Wanted(t)
    BY <2>2, <2>4 DEF Url, Wanted, entry
  <2>9. Navigated(t, params, g)
    BY <1>1, <2>4 DEF Navigated
  <2> QED BY <1>6, <2>4, <2>5, <2>6, <2>8, <2>9 DEF g
<1> QED BY <1>4, <1>5, <1>6

\* The elements of r are those of t.
SameElements(t, r) ==
  /\ r.filters = t.filters /\ r.sort = t.sort /\ r.page = t.page /\ r.pager = t.pager
  /\ r.dirty = t.dirty /\ r.reset = t.reset /\ r.stored = t.stored

LEMMA WishFacts ==
  ASSUME NEW t, TabOK(t), NEW filters \in PlainFilters, NEW sort \in SortValues
  PROVE  LET w == Wish(t, filters, sort) IN
         /\ TabOK(w) /\ SameElements(t, w) /\ SameOthers(t, w)
         /\ Url(w) = Url(t) /\ Wanted(w) = [filters |-> filters, sort |-> sort]
<1> DEFINE w == Wish(t, filters, sort)
           wanted == [filters |-> filters, sort |-> sort]
           entry == [t.history[t.at] EXCEPT !.wanted = wanted]
           h == [t.history EXCEPT ![t.at] = entry]
<1>1. w = [t EXCEPT !.history = h]
  BY DEF Wish
<1>2. entry \in Entry /\ entry.params = Url(t) /\ entry.wanted = wanted
  <2>1. wanted \in [filters : PlainFilters, sort : SortValues]
    OBVIOUS
  <2> HIDE DEF wanted
  <2> QED BY <2>1, UrlType DEF Entry, Url
<1>3. t.history \in Seq(Entry) /\ t.at \in 1 .. Len(t.history)
  BY DEF TabOK, Tab
<1> HIDE DEF entry, w, wanted
<1>4. /\ h \in Seq(Entry) /\ DOMAIN h = DOMAIN t.history /\ h[t.at] = entry
      /\ \A i \in DOMAIN t.history : i # t.at => h[i] = t.history[i]
  BY <1>2, <1>3
<1> HIDE DEF h
<1>5. w \in Tab /\ w.history = h /\ w.at = t.at /\ SameElements(t, w)
  BY <1>1, <1>4 DEF TabOK, Tab, SameElements
<1>6. TabOK(w)
  BY <1>3, <1>4, <1>5 DEF TabOK
<1>7. SameOthers(t, w)
  BY <1>4, <1>5 DEF SameOthers
<1>8. Url(w) = Url(t) /\ Wanted(w) = wanted
  BY <1>2, <1>4, <1>5 DEF Url, Wanted
<1> QED BY <1>5, <1>6, <1>7, <1>8 DEF w, wanted

\* Another page in the URL changes nothing else in it.
LEMMA UrlPage ==
  ASSUME NEW params \in Params, NEW page \in Page
  PROVE  LET p == WithPage(params, page) IN
         /\ p \in Params /\ p.page = page
         /\ Decode(p) = Decode(params) /\ DecodeSort(p) = DecodeSort(params)
         /\ p.mine = params.mine /\ p.status = params.status /\ p.sortDir = params.sortDir
         /\ p = params <=> page = params.page
<1>1. WithPage(params, page) \in Params
  BY DEF Params, WithPage
<1>2. WithPage(params, page) = params <=> page = params.page
  BY DEF Params, WithPage
<1> QED BY <1>1, <1>2 DEF Params, Decode, DecodeSort, WithPage

LEMMA SetPageFacts ==
  ASSUME NEW t, TabOK(t), NEW page \in Page, NEW dispatch \in BOOLEAN, NEW replace \in BOOLEAN
  PROVE  LET r == SetPage(t, page, dispatch, replace)
             goes == Url(t).page # page IN
         /\ TabOK(r)
         /\ page = t.pager.page => r = t
         /\ Wanted(r) = Wanted(t) /\ r.stored = t.stored /\ r.reset = t.reset
         /\ OthersFrom(t, r) /\ (replace => SameOthers(t, r))
         /\ page # t.pager.page =>
              /\ Url(r) = WithPage(Url(t), page)
              /\ r.pager = WithPage(t.pager, page)
              /\ r.page = IF dispatch \/ (goes /\ t.pager.there) THEN page ELSE t.page
              /\ r.filters = IF goes THEN Decode(Url(t)) ELSE t.filters
              /\ r.sort = IF goes THEN DecodeSort(Url(t)) ELSE t.sort
              /\ r.dirty <=> \/ t.dirty \/ (dispatch /\ page # t.page)
                             \/ goes /\ \/ Requests(t.filters, Decode(Url(t)))
                                        \/ t.sort # DecodeSort(Url(t)) \/ t.pager.there
<1> DEFINE r == SetPage(t, page, dispatch, replace)
           goes == Url(t).page # page
           params == WithPage(Url(t), page)
           g == GoTo(t, params, replace)
<1>1. CASE page = t.pager.page
  <2>1. r = t
    BY <1>1 DEF SetPage
  <2> QED BY <1>1, <2>1 DEF OthersFrom, SameOthers, Entries
<1>2. CASE page # t.pager.page
  <2> DEFINE q == [g.pager EXCEPT !.page = page]
             p == IF dispatch THEN page ELSE g.page
             d == g.dirty \/ (dispatch /\ page # t.page)
  <2>1. r = [g EXCEPT !.pager = q, !.page = p, !.dirty = d]
    BY <1>2 DEF SetPage, WithPage
  <2>0. d \in BOOLEAN
    BY Zenon
  <2>2. Url(t) \in Params
    BY UrlType
  <2>3. /\ params \in Params /\ params.page = page
        /\ Decode(params) = Decode(Url(t)) /\ DecodeSort(params) = DecodeSort(Url(t))
        /\ params = Url(t) <=> ~goes
    BY <2>2, UrlPage
  <2> HIDE DEF params
  <2>4. /\ TabOK(g)
        /\ Url(g) = params /\ Wanted(g) = Wanted(t)
        /\ g.stored = t.stored /\ g.reset = t.reset
        /\ OthersFrom(t, g)
        /\ replace => SameOthers(t, g)
        /\ params = Url(t) => g = t
        /\ params # Url(t) => Navigated(t, params, g)
    BY <2>3, GoToFacts
  <2> HIDE DEF g
  <2>5. q \in Pager /\ p \in Page
    BY <2>4 DEF TabOK, Tab, Pager
  <2>6. q = WithPage(t.pager, page)
    BY <2>3, <2>4 DEF Navigated, TabOK, Tab, Pager, WithPage
  <2>7. p = IF dispatch \/ (goes /\ t.pager.there) THEN page ELSE t.page
    BY <1>2, <2>3, <2>4 DEF Navigated, Turned
  <2>8. d <=> \/ t.dirty \/ (dispatch /\ page # t.page)
              \/ goes /\ \/ Requests(t.filters, Decode(Url(t)))
                         \/ t.sort # DecodeSort(Url(t)) \/ t.pager.there
    <3>1. CASE ~goes
      <4>1. g = t
        BY <2>3, <2>4, <3>1
      <4> QED BY <3>1, <4>1, Zenon
    <3>2. CASE goes
      <4>1. /\ g.dirty <=> (t.dirty \/ Requests(t.filters, Decode(params))
                            \/ t.sort # DecodeSort(params) \/ Turned(t, params))
        BY <2>3, <2>4, <3>2, Zenon DEF Navigated
      <4>2. Turned(t, params) <=> t.pager.there
        BY <1>2, <2>3, Zenon DEF Turned
      <4> QED BY <2>3, <3>2, <4>1, <4>2, Zenon
    <3> QED BY <3>1, <3>2
  <2>9. /\ g.filters = IF goes THEN Decode(Url(t)) ELSE t.filters
        /\ g.sort = IF goes THEN DecodeSort(Url(t)) ELSE t.sort
    BY <2>3, <2>4 DEF Navigated
  <2> HIDE DEF d, p, q, r
  <2>10. /\ r \in Tab
         /\ r.history = g.history /\ r.at = g.at /\ r.stored = g.stored /\ r.reset = g.reset
         /\ r.filters = g.filters /\ r.sort = g.sort /\ r.page = p
         /\ r.pager = q /\ r.dirty = d
    BY <2>0, <2>1, <2>4, <2>5 DEF TabOK, Tab
  <2>11. TabOK(r) /\ Url(r) = params /\ Wanted(r) = Wanted(t)
    BY <2>4, <2>10 DEF TabOK, Url, Wanted
  <2>12. OthersFrom(t, r) /\ (replace => SameOthers(t, r))
    BY <2>4, <2>10 DEF OthersFrom, SameOthers
  <2> QED BY <1>2, <2>4, <2>6, <2>7, <2>8, <2>9, <2>10, <2>11, <2>12 DEF r, params
<1> QED BY <1>1, <1>2

LEMMA SetValueFacts ==
  ASSUME NEW t, TabOK(t), NEW filters \in FilterValues, NEW params \in Params,
         filters # t.filters
  PROVE  LET r == SetValue(t, filters, params)
             goes == params # Url(t) IN
         /\ TabOK(r)
         /\ Url(r) = params /\ Wanted(r) = Wanted(t) /\ OthersFrom(t, r)
         /\ r.stored = IF Kind = "profiles" THEN filters.mine ELSE t.stored
         /\ r.filters = IF goes THEN Decode(params) ELSE filters
         /\ r.sort = IF goes THEN DecodeSort(params) ELSE t.sort
         /\ r.page = IF goes /\ Turned(t, params) THEN params.page ELSE t.page
         /\ r.pager = WithPage(t.pager, IF goes /\ Turned(t, params)
                                        THEN params.page ELSE t.pager.page)
         /\ r.reset <=> t.reset \/ Requests(t.filters, filters)
         /\ r.dirty <=> \/ t.dirty \/ Requests(t.filters, filters)
                        \/ goes /\ \/ Requests(filters, Decode(params))
                                   \/ t.sort # DecodeSort(params) \/ Turned(t, params)
<1> DEFINE r == SetValue(t, filters, params)
           goes == params # Url(t)
           u == [t EXCEPT !.filters = filters]
           g == GoTo(u, params, FALSE)
           told == Requests(t.filters, filters)
           d == g.dirty \/ told
           e == g.reset \/ told
           m == IF Kind = "profiles" THEN filters.mine ELSE g.stored
<1>1. r = [g EXCEPT !.dirty = d, !.reset = e, !.stored = m]
  BY DEF SetValue
<1>2. /\ u \in Tab /\ u.history = t.history /\ u.at = t.at /\ u.stored = t.stored
      /\ u.filters = filters /\ u.sort = t.sort /\ u.page = t.page /\ u.pager = t.pager
      /\ u.dirty = t.dirty /\ u.reset = t.reset
  BY DEF TabOK, Tab
<1> HIDE DEF u
<1>3. TabOK(u) /\ Url(u) = Url(t) /\ Wanted(u) = Wanted(t) /\ Entries(u) = Entries(t)
  BY <1>2 DEF TabOK, Url, Wanted, Entries
<1>4. /\ TabOK(g)
      /\ Url(g) = params /\ Wanted(g) = Wanted(t)
      /\ g.stored = t.stored /\ g.reset = t.reset
      /\ OthersFrom(u, g)
      /\ ~goes => g = u
      /\ goes => Navigated(u, params, g)
  BY <1>2, <1>3, GoToFacts
<1> HIDE DEF g
<1>5. d \in BOOLEAN /\ e \in BOOLEAN
  BY Zenon DEF d, e
<1>6. m \in BOOLEAN /\ m = IF Kind = "profiles" THEN filters.mine ELSE t.stored
  BY <1>4 DEF TabOK, Tab, FilterValues
<1>7. Turned(u, params) <=> Turned(t, params)
  BY <1>2 DEF Turned
<1>8. /\ g.filters = IF goes THEN Decode(params) ELSE filters
      /\ g.sort = IF goes THEN DecodeSort(params) ELSE t.sort
      /\ g.page = IF goes /\ Turned(t, params) THEN params.page ELSE t.page
  BY <1>2, <1>4, <1>7 DEF Navigated
<1>9. g.pager = WithPage(t.pager, IF goes /\ Turned(t, params) THEN params.page
                                    ELSE t.pager.page)
  <2>1. CASE goes
    BY <1>2, <1>4, <1>7, <2>1 DEF Navigated
  <2>2. CASE ~goes
    <3>1. t.pager \in Pager
      BY DEF TabOK, Tab
    <3> QED BY <1>2, <1>4, <2>2, <3>1 DEF Pager, WithPage
  <2> QED BY <2>1, <2>2
<1>10. g.dirty <=> \/ t.dirty
                   \/ goes /\ \/ Requests(filters, Decode(params))
                              \/ t.sort # DecodeSort(params) \/ Turned(t, params)
  <2>1. CASE goes
    <3>1. g.dirty <=> (u.dirty \/ Requests(u.filters, Decode(params))
                       \/ u.sort # DecodeSort(params) \/ Turned(u, params))
      BY <1>4, <2>1, Zenon DEF Navigated
    <3> QED BY <1>2, <1>7, <2>1, <3>1, Zenon
  <2>2. CASE ~goes
    BY <1>2, <1>4, <2>2, Zenon
  <2> QED BY <2>1, <2>2
<1> HIDE DEF d, e, m, r, told
<1>11. /\ r \in Tab
       /\ r.history = g.history /\ r.at = g.at /\ r.stored = m /\ r.reset = e
       /\ r.filters = g.filters /\ r.sort = g.sort /\ r.page = g.page
       /\ r.pager = g.pager /\ r.dirty = d
  BY <1>1, <1>4, <1>5, <1>6 DEF TabOK, Tab
<1>12. TabOK(r) /\ Url(r) = params /\ Wanted(r) = Wanted(t) /\ OthersFrom(t, r)
  BY <1>3, <1>4, <1>11 DEF TabOK, Url, Wanted, OthersFrom
<1>13. d <=> \/ t.dirty \/ told
             \/ goes /\ \/ Requests(filters, Decode(params))
                        \/ t.sort # DecodeSort(params) \/ Turned(t, params)
  BY <1>10, Zenon DEF d
<1>14. e <=> t.reset \/ told
  BY <1>4, Zenon DEF e
<1> QED BY <1>6, <1>8, <1>9, <1>11, <1>12, <1>13, <1>14 DEF r, told

LEMMA SetSortFacts ==
  ASSUME NEW t, TabOK(t), NEW sort \in SortValues, sort # t.sort
  PROVE  LET r == SetSort(t, sort)
             params == EncodeSort(sort, Url(t))
             goes == params # Url(t) IN
         /\ TabOK(r)
         /\ Url(r) = params /\ Wanted(r) = Wanted(t) /\ OthersFrom(t, r)
         /\ r.stored = t.stored /\ r.dirty /\ r.reset
         /\ r.filters = IF goes THEN Decode(params) ELSE t.filters
         /\ r.sort = IF goes THEN DecodeSort(params) ELSE sort
         /\ r.page = IF goes /\ Turned(t, params) THEN params.page ELSE t.page
         /\ r.pager = WithPage(t.pager, IF goes /\ Turned(t, params)
                                        THEN params.page ELSE t.pager.page)
<1> DEFINE r == SetSort(t, sort)
           params == EncodeSort(sort, Url(t))
           goes == params # Url(t)
           u == [t EXCEPT !.sort = sort]
           g == GoTo(u, params, FALSE)
<1>2. /\ u \in Tab /\ u.history = t.history /\ u.at = t.at /\ u.stored = t.stored
      /\ u.filters = t.filters /\ u.sort = sort /\ u.page = t.page /\ u.pager = t.pager
      /\ u.dirty = t.dirty /\ u.reset = t.reset
  BY DEF TabOK, Tab
<1>1. r = [g EXCEPT !.dirty = TRUE, !.reset = TRUE]
  BY DEF SetSort
<1>3. params \in Params
  BY CodecTypes, UrlType
<1> HIDE DEF u
<1>4. TabOK(u) /\ Url(u) = Url(t) /\ Wanted(u) = Wanted(t) /\ Entries(u) = Entries(t)
  BY <1>2 DEF TabOK, Url, Wanted, Entries
<1> HIDE DEF params
<1>5. /\ TabOK(g)
      /\ Url(g) = params /\ Wanted(g) = Wanted(t)
      /\ g.stored = t.stored /\ g.reset = t.reset
      /\ OthersFrom(u, g)
      /\ ~goes => g = u
      /\ goes => Navigated(u, params, g)
  BY <1>2, <1>3, <1>4, GoToFacts
<1> HIDE DEF g
<1>7. Turned(u, params) <=> Turned(t, params)
  BY <1>2 DEF Turned
<1>8. /\ g.filters = IF goes THEN Decode(params) ELSE t.filters
      /\ g.sort = IF goes THEN DecodeSort(params) ELSE sort
      /\ g.page = IF goes /\ Turned(t, params) THEN params.page ELSE t.page
  BY <1>2, <1>5, <1>7 DEF Navigated
<1>9. g.pager = WithPage(t.pager, IF goes /\ Turned(t, params) THEN params.page
                                    ELSE t.pager.page)
  <2>1. CASE goes
    BY <1>2, <1>5, <1>7, <2>1 DEF Navigated
  <2>2. CASE ~goes
    <3>1. t.pager \in Pager
      BY DEF TabOK, Tab
    <3> QED BY <1>2, <1>5, <2>2, <3>1 DEF Pager, WithPage
  <2> QED BY <2>1, <2>2
<1> HIDE DEF r
<1>11. /\ r \in Tab
       /\ r.history = g.history /\ r.at = g.at /\ r.stored = g.stored /\ r.reset = TRUE
       /\ r.filters = g.filters /\ r.sort = g.sort /\ r.page = g.page
       /\ r.pager = g.pager /\ r.dirty = TRUE
  BY <1>1, <1>5 DEF TabOK, Tab
<1>12. TabOK(r) /\ Url(r) = params /\ Wanted(r) = Wanted(t) /\ OthersFrom(t, r)
  BY <1>4, <1>5, <1>11 DEF TabOK, Url, Wanted, OthersFrom
<1> QED BY <1>5, <1>8, <1>9, <1>11, <1>12 DEF r, params

LEMMA SetAttributeFacts ==
  ASSUME NEW t, TabOK(t), NEW page \in Page
  PROVE  LET r == SetAttribute(t, page)
             goes == page # t.pager.page /\ page # Url(t).page IN
         /\ TabOK(r)
         /\ Url(r) = IF page = t.pager.page THEN Url(t) ELSE WithPage(Url(t), page)
         /\ Wanted(r) = Wanted(t) /\ OthersFrom(t, r)
         /\ r.stored = t.stored
         /\ r.pager = WithAttribute(t.pager, page)
         /\ r.page = IF goes /\ t.pager.there THEN page ELSE t.page
         /\ r.filters = IF goes THEN Decode(Url(t)) ELSE t.filters
         /\ r.sort = IF goes THEN DecodeSort(Url(t)) ELSE t.sort
<1> DEFINE r == SetAttribute(t, page)
           goes == page # t.pager.page /\ page # Url(t).page
           params == WithPage(Url(t), page)
           n == IF page = t.pager.page THEN t ELSE GoTo(t, params, FALSE)
           q == [n.pager EXCEPT !.page = page, !.attribute = page]
<1>1. r = [n EXCEPT !.pager = q]
  BY DEF SetAttribute, WithPage
<1>2. /\ params \in Params /\ params.page = page
      /\ Decode(params) = Decode(Url(t)) /\ DecodeSort(params) = DecodeSort(Url(t))
      /\ params = Url(t) <=> page = Url(t).page
  BY UrlType, UrlPage
<1> HIDE DEF params
<1>3. /\ TabOK(n)
      /\ Url(n) = IF page = t.pager.page THEN Url(t) ELSE params
      /\ Wanted(n) = Wanted(t) /\ OthersFrom(t, n)
      /\ n.stored = t.stored
      /\ ~goes => n = t
      /\ goes => Navigated(t, params, n)
  <2>1. CASE page = t.pager.page
    BY <2>1 DEF OthersFrom, Entries
  <2>2. CASE page # t.pager.page
    BY <1>2, <2>2, GoToFacts
  <2> QED BY <2>1, <2>2
<1> HIDE DEF n
<1>4. q \in Pager /\ t.pager \in Pager /\ n.pager \in Pager
  BY <1>3 DEF TabOK, Tab, Pager
<1>5. n.pager = t.pager \/ n.pager = WithPage(t.pager, page)
  BY <1>2, <1>3, <1>4 DEF Navigated, Pager, WithPage
<1>6. q = WithAttribute(t.pager, page)
  BY <1>4, <1>5 DEF Pager, WithPage, WithAttribute
<1>7. /\ n.page = IF goes /\ t.pager.there THEN page ELSE t.page
      /\ n.filters = IF goes THEN Decode(Url(t)) ELSE t.filters
      /\ n.sort = IF goes THEN DecodeSort(Url(t)) ELSE t.sort
  BY <1>2, <1>3 DEF Navigated, Turned
<1> HIDE DEF q, r
<1>8. /\ r \in Tab
      /\ r.history = n.history /\ r.at = n.at /\ r.stored = n.stored
      /\ r.filters = n.filters /\ r.sort = n.sort /\ r.page = n.page /\ r.pager = q
  BY <1>1, <1>3, <1>4 DEF TabOK, Tab
<1>9. TabOK(r) /\ Url(r) = Url(n) /\ Wanted(r) = Wanted(t) /\ OthersFrom(t, r)
  BY <1>3, <1>8 DEF TabOK, Url, Wanted, OthersFrom
<1> QED BY <1>3, <1>6, <1>7, <1>8, <1>9 DEF r, params

-----------------------------------------------------------------------------
(***************************************************************************)
(* What was asked for.  In every entry of the history the URL says what the*)
(* user wanted there, and the controllers hold what the URL says.          *)
(***************************************************************************)
EntryOK(e) ==
  /\ e.wanted.filters = Decode(e.params) /\ e.wanted.sort = DecodeSort(e.params)
  /\ ~e.params.status /\ e.params.sortDir = ""
Faithful(t) ==
  /\ \A e \in Entries(t) : EntryOK(e)
  /\ Norm(t.filters) = Decode(Url(t)) /\ t.sort = DecodeSort(Url(t))

\* Tags are undefined only where the filters of the workflows were cleared.
Plain(t) == t.filters.tags # "undefined"

\* Whatever else it does, a step from t to r leaves a faithful page faithful.
Keeps(t, r) ==
  /\ TabOK(r) /\ r.stored = t.stored /\ Url(r).mine = Url(t).mine
  /\ Plain(t) => Plain(r)
  /\ Faithful(t) => Faithful(r)

LEMMA NormDecode ==
  ASSUME NEW params \in Params
  PROVE  Norm(Decode(params)) = Decode(params)
  BY DEF Norm, Decode, Params

LEMMA CurrentEntry ==
  ASSUME NEW t, TabOK(t)
  PROVE  /\ t.history[t.at] \in Entries(t)
         /\ Faithful(t) => /\ Wanted(t).filters = Decode(Url(t))
                           /\ Wanted(t).sort = DecodeSort(Url(t))
                           /\ ~Url(t).status /\ Url(t).sortDir = ""
<1>1. t.history[t.at] \in Entries(t)
  BY DEF TabOK, Entries
<1> QED BY <1>1 DEF Faithful, EntryOK, Url, Wanted

\* The entries of g are the others and the current one.
LEMMA AllEntries ==
  ASSUME NEW t, NEW g, TabOK(g), OthersFrom(t, g), \A e \in Entries(t) : EntryOK(e),
         Wanted(g).filters = Decode(Url(g)), Wanted(g).sort = DecodeSort(Url(g)),
         ~Url(g).status, Url(g).sortDir = ""
  PROVE  \A e \in Entries(g) : EntryOK(e)
<1>1. ASSUME NEW i \in DOMAIN g.history
      PROVE  EntryOK(g.history[i])
  <2>1. CASE i = g.at
    BY <2>1 DEF EntryOK, Url, Wanted
  <2>2. CASE i # g.at
    BY <1>1, <2>2 DEF OthersFrom
  <2> QED BY <2>1, <2>2
<1> QED BY <1>1 DEF Entries

\* A step that changes only the page in the URL.
LEMMA PageStepKeeps ==
  ASSUME NEW t, TabOK(t), NEW r, TabOK(r), NEW page \in Page,
         Url(r) = Url(t) \/ Url(r) = WithPage(Url(t), page),
         Wanted(r) = Wanted(t), OthersFrom(t, r), r.stored = t.stored,
         r.filters = t.filters \/ r.filters = Decode(Url(t)),
         r.sort = t.sort \/ r.sort = DecodeSort(Url(t))
  PROVE  Keeps(t, r)
<1>1. /\ Decode(Url(r)) = Decode(Url(t)) /\ DecodeSort(Url(r)) = DecodeSort(Url(t))
      /\ Url(r).mine = Url(t).mine /\ Url(r).status = Url(t).status
      /\ Url(r).sortDir = Url(t).sortDir
  <2>1. Url(t) \in Params
    BY UrlType
  <2> QED BY <2>1, UrlPage
<1>2. ASSUME Faithful(t)
      PROVE  Faithful(r)
  <2>1. /\ Wanted(t).filters = Decode(Url(t)) /\ Wanted(t).sort = DecodeSort(Url(t))
        /\ ~Url(t).status /\ Url(t).sortDir = ""
    BY <1>2, CurrentEntry
  <2>2. \A e \in Entries(r) : EntryOK(e)
    BY <1>1, <1>2, <2>1, AllEntries DEF Faithful
  <2>3. Norm(r.filters) = Decode(Url(t))
    BY <1>2, NormDecode, UrlType DEF Faithful
  <2> QED BY <1>1, <1>2, <2>2, <2>3 DEF Faithful
<1>3. Plain(t) => Plain(r)
  BY DEF Plain, Decode
<1> QED BY <1>1, <1>2, <1>3 DEF Keeps

LEMMA SetPageKeeps ==
  ASSUME NEW t, TabOK(t), NEW page \in Page, NEW dispatch \in BOOLEAN, NEW replace \in BOOLEAN
  PROVE  Keeps(t, SetPage(t, page, dispatch, replace))
<1> DEFINE r == SetPage(t, page, dispatch, replace)
<1>1. CASE page = t.pager.page
  <2>1. r = t
    BY <1>1, SetPageFacts
  <2> QED BY <2>1 DEF Keeps
<1>2. CASE page # t.pager.page
  <2>1. /\ TabOK(r) /\ Url(r) = WithPage(Url(t), page)
        /\ Wanted(r) = Wanted(t) /\ OthersFrom(t, r) /\ r.stored = t.stored
        /\ r.filters = t.filters \/ r.filters = Decode(Url(t))
        /\ r.sort = t.sort \/ r.sort = DecodeSort(Url(t))
    BY <1>2, SetPageFacts
  <2> HIDE DEF r
  <2>2. Keeps(t, r)
    BY <2>1, PageStepKeeps
  <2> QED BY <2>2 DEF r
<1> QED BY <1>1, <1>2

LEMMA SetAttributeKeeps ==
  ASSUME NEW t, TabOK(t), NEW page \in Page
  PROVE  Keeps(t, SetAttribute(t, page))
<1> DEFINE r == SetAttribute(t, page)
<1>1. /\ TabOK(r) /\ (Url(r) = Url(t) \/ Url(r) = WithPage(Url(t), page))
      /\ Wanted(r) = Wanted(t) /\ OthersFrom(t, r) /\ r.stored = t.stored
      /\ r.filters = t.filters \/ r.filters = Decode(Url(t))
      /\ r.sort = t.sort \/ r.sort = DecodeSort(Url(t))
  BY SetAttributeFacts
<1> HIDE DEF r
<1>2. Keeps(t, r)
  BY <1>1, PageStepKeeps
<1> QED BY <1>2 DEF r

\* Steps that leave history, filters and order alone.
Apart(t, r) ==
  /\ r.history = t.history /\ r.at = t.at /\ r.stored = t.stored
  /\ r.filters = t.filters /\ r.sort = t.sort

LEMMA ApartKeeps ==
  ASSUME NEW t, TabOK(t), NEW r, TabOK(r), Apart(t, r)
  PROVE  Keeps(t, r)
  BY DEF Keeps, Apart, Faithful, Entries, Url, Plain

LEMMA KeepsTransitive ==
  ASSUME NEW t, NEW r, NEW s, Keeps(t, r), Keeps(r, s)
  PROVE  Keeps(t, s)
  BY DEF Keeps

LEMMA SetFields ==
  ASSUME NEW t, TabOK(t), NEW page \in Page, NEW pager \in Pager
  PROVE  /\ LET r == [t EXCEPT !.page = page] IN
            /\ TabOK(r) /\ Apart(t, r) /\ r.page = page /\ r.pager = t.pager
            /\ r.dirty = t.dirty /\ r.reset = t.reset
         /\ LET r == [t EXCEPT !.pager = pager] IN
            /\ TabOK(r) /\ Apart(t, r) /\ r.page = t.page /\ r.pager = pager
            /\ r.dirty = t.dirty /\ r.reset = t.reset
         /\ LET r == [t EXCEPT !.dirty = FALSE, !.reset = FALSE] IN
            /\ TabOK(r) /\ Apart(t, r) /\ r.page = t.page /\ r.pager = t.pager
            /\ ~r.dirty /\ ~r.reset
<1>1. LET r == [t EXCEPT !.page = page] IN
      /\ r \in Tab /\ Apart(t, r) /\ r.page = page /\ r.pager = t.pager
      /\ r.dirty = t.dirty /\ r.reset = t.reset
  BY DEF TabOK, Tab, Apart
<1>2. LET r == [t EXCEPT !.pager = pager] IN
      /\ r \in Tab /\ Apart(t, r) /\ r.page = t.page /\ r.pager = pager
      /\ r.dirty = t.dirty /\ r.reset = t.reset
  BY DEF TabOK, Tab, Apart
<1>3. LET r == [t EXCEPT !.dirty = FALSE, !.reset = FALSE] IN
      /\ r \in Tab /\ Apart(t, r) /\ r.page = t.page /\ r.pager = t.pager
      /\ ~r.dirty /\ ~r.reset
  BY DEF TabOK, Tab, Apart
<1> QED BY <1>1, <1>2, <1>3 DEF TabOK, Apart

LEMMA SetPager ==
  ASSUME NEW t, TabOK(t), NEW pager \in Pager, NEW r, r = [t EXCEPT !.pager = pager]
  PROVE  TabOK(r) /\ Apart(t, r) /\ r.page = t.page /\ r.pager = pager
<1>1. 1 \in Page
  BY DEF Page
<1> QED BY <1>1, SetFields

-----------------------------------------------------------------------------
(***************************************************************************)
(* The pager's steps.  The page, the pager and the URL agree on the page   *)
(* number (Aligned); a connected pager keeps it so, and the first page is  *)
(* taken by all three where there is a pager to take back.                 *)
(***************************************************************************)
Aligned(t) ==
  /\ t.page = Url(t).page
  /\ t.pager.there => t.pager.page = t.page

LEMMA PageTypes ==
  ASSUME NEW t, TabOK(t)
  PROVE  /\ t.pager \in Pager /\ t.pager.page \in Page /\ t.pager.total \in Nat
         /\ Pages(t.pager.total) \in Nat
         /\ t.page \in Page /\ Url(t).page \in Page
         /\ 1 \in Page /\ NoPager \in Pager
<1>1. /\ t.pager \in Pager /\ t.pager.page \in Page /\ t.pager.total \in Nat
      /\ t.page \in Page /\ 1 \in Page /\ NoPager \in Pager
  BY DEF TabOK, Tab, Pager, Page, NoPager
<1>2. Url(t).page \in Page
  BY UrlType DEF Params
<1> QED BY <1>1, <1>2, PagesFacts

LEMMA ConstrainType ==
  ASSUME NEW page \in Page, NEW pages \in Nat
  PROVE  /\ Constrain(page, pages) \in Page
         /\ page = 1 \/ page <= pages => Constrain(page, pages) = page
  BY ConstrainFacts DEF Page

LEMMA SetPageAligned ==
  ASSUME NEW t, TabOK(t), NEW page \in Page, NEW dispatch \in BOOLEAN, NEW replace \in BOOLEAN,
         t.pager.there, Aligned(t)
  PROVE  /\ Aligned(SetPage(t, page, dispatch, replace))
         /\ SetPage(t, page, dispatch, replace).pager.there
<1> DEFINE r == SetPage(t, page, dispatch, replace)
<1>1. CASE page = t.pager.page
  <2>1. r = t
    BY <1>1, SetPageFacts
  <2> QED BY <2>1
<1>2. CASE page # t.pager.page
  <2>1. /\ Url(r) = WithPage(Url(t), page) /\ r.pager = WithPage(t.pager, page)
        /\ r.page = IF dispatch \/ (Url(t).page # page /\ t.pager.there) THEN page ELSE t.page
    BY <1>2, SetPageFacts
  <2>2. Url(t).page # page
    BY <1>2 DEF Aligned
  <2> HIDE DEF r
  <2>3. Url(r).page = page /\ r.pager.page = page /\ r.pager.there
    BY <2>1, PageTypes, UrlType, UrlPage DEF WithPage, Pager
  <2>4. Aligned(r)
    BY <2>1, <2>2, <2>3 DEF Aligned
  <2> QED BY <2>3, <2>4 DEF r
<1> QED BY <1>1, <1>2

LEMMA PagerUpdatesKeeps ==
  ASSUME NEW t, TabOK(t), NEW changed \in BOOLEAN
  PROVE  /\ Keeps(t, PagerUpdates(t, changed))
         /\ t.pager.there /\ Aligned(t) => Aligned(PagerUpdates(t, changed))
<1> DEFINE pages == Pages(t.pager.total)
           a == IF Url(t).page # t.pager.page
                THEN SetPage(t, Constrain(Url(t).page, pages), FALSE, FALSE) ELSE t
           b == SetPage(a, Constrain(a.pager.page, pages), TRUE, FALSE)
<1>1. PagerUpdates(t, changed) = IF changed /\ a.pager.page > pages THEN b ELSE a
  BY DEF PagerUpdates
<1>2. pages \in Nat /\ Constrain(Url(t).page, pages) \in Page
  BY PageTypes, ConstrainType
<1>3. Keeps(t, a)
  <2>1. Keeps(t, t)
    BY DEF Keeps
  <2> QED BY <1>2, <2>1, SetPageKeeps
<1>4. t.pager.there /\ Aligned(t) => a = t
  BY DEF Aligned
<1> HIDE DEF a
<1>5. TabOK(a)
  BY <1>3 DEF Keeps
<1>6. Constrain(a.pager.page, pages) \in Page
  BY <1>2, <1>5, PageTypes, ConstrainType
<1>7. Keeps(a, b)
  BY <1>5, <1>6, SetPageKeeps
<1>8. t.pager.there /\ Aligned(t) => Aligned(b)
  BY <1>4, <1>5, <1>6, SetPageAligned
<1> HIDE DEF b
<1>9. Keeps(t, b)
  BY <1>3, <1>7, KeepsTransitive
<1> QED BY <1>1, <1>3, <1>4, <1>8, <1>9

WithTotal(pager, total) == [pager EXCEPT !.total = total]
Connected(pager, total) == [pager EXCEPT !.there = TRUE, !.total = total]

LEMMA PagerTypes ==
  ASSUME NEW pager \in Pager, NEW total \in Nat, NEW page \in Page
  PROVE  /\ WithTotal(pager, total) \in Pager
         /\ WithTotal(pager, total).there = pager.there
         /\ WithTotal(pager, total).page = pager.page
         /\ WithTotal(pager, total).attribute = pager.attribute
         /\ WithTotal(pager, total).total = total
         /\ Connected(pager, total) \in Pager
         /\ Connected(pager, total).there
         /\ Connected(pager, total).page = pager.page
         /\ Connected(pager, total).attribute = pager.attribute
         /\ Connected(pager, total).total = total
         /\ WithAttribute(pager, page) \in Pager
         /\ WithAttribute(pager, page).there = pager.there
         /\ WithAttribute(pager, page).page = page
         /\ WithAttribute(pager, page).attribute = page
         /\ WithAttribute(pager, page).total = pager.total
         /\ WithPage(pager, page) \in Pager
         /\ WithPage(pager, page).there = pager.there
         /\ WithPage(pager, page).page = page
         /\ WithPage(pager, page).attribute = pager.attribute
         /\ WithPage(pager, page).total = pager.total
<1>1. /\ WithTotal(pager, total) \in Pager
      /\ WithTotal(pager, total).there = pager.there
      /\ WithTotal(pager, total).page = pager.page
      /\ WithTotal(pager, total).attribute = pager.attribute
      /\ WithTotal(pager, total).total = total
  BY DEF WithTotal, Pager
<1>2. /\ Connected(pager, total) \in Pager
      /\ Connected(pager, total).there
      /\ Connected(pager, total).page = pager.page
      /\ Connected(pager, total).attribute = pager.attribute
      /\ Connected(pager, total).total = total
  BY DEF Connected, Pager
<1>3. /\ WithAttribute(pager, page) \in Pager
      /\ WithAttribute(pager, page).there = pager.there
      /\ WithAttribute(pager, page).page = page
      /\ WithAttribute(pager, page).attribute = page
      /\ WithAttribute(pager, page).total = pager.total
  BY DEF WithAttribute, Pager
<1>4. /\ WithPage(pager, page) \in Pager
      /\ WithPage(pager, page).there = pager.there
      /\ WithPage(pager, page).page = page
      /\ WithPage(pager, page).attribute = pager.attribute
      /\ WithPage(pager, page).total = pager.total
  BY DEF WithPage, Pager
<1> QED BY <1>1, <1>2, <1>3, <1>4

LEMMA RenderKeeps ==
  ASSUME NEW t, TabOK(t), NEW page \in Page, NEW total \in Nat
  PROVE  /\ Keeps(t, Render(t, page, total))
         /\ Aligned(t) /\ page = t.page => Aligned(Render(t, page, total))
<1>1. t.pager \in Pager /\ NoPager \in Pager /\ 1 \in Page
  BY PageTypes
<1> DEFINE u == [t EXCEPT !.pager = NoPager]
<1>2. /\ TabOK(u) /\ Apart(t, u) /\ u.page = t.page /\ u.pager = NoPager
  BY <1>1, SetFields
<1> HIDE DEF u
<1>3. Keeps(t, u) /\ Url(u) = Url(t)
  BY <1>2, ApartKeeps DEF Apart, Url
<1>4. CASE ~HasPager(total)
  <2>1. Render(t, page, total) = u
    BY <1>4 DEF Render, u
  <2>2. Aligned(t) => Aligned(u)
    BY <1>2, <1>3 DEF Aligned, NoPager
  <2> QED BY <1>3, <2>1, <2>2
<1>5. CASE HasPager(total) /\ ~t.pager.there
  <2> DEFINE n == SetAttribute(u, page)
             v == [n EXCEPT !.pager = Connected(n.pager, total)]
             changed == page # 1
  <2>1. Render(t, page, total) = PagerUpdates(v, changed)
    BY <1>5 DEF Render, u, Connected
  <2>2. Keeps(u, n)
    BY <1>2, SetAttributeKeeps
  <2>3. /\ TabOK(n) /\ n.pager = WithAttribute(u.pager, page)
        /\ Url(n) = IF page = u.pager.page THEN Url(u) ELSE WithPage(Url(u), page)
        /\ n.page = IF (page # u.pager.page /\ page # Url(u).page) /\ u.pager.there
                    THEN page ELSE u.page
    BY <1>2, SetAttributeFacts
  <2> HIDE DEF n
  <2>4. n.pager \in Pager /\ n.pager.page = page
    BY <1>1, <1>2, <2>3, PagerTypes
  <2>5. Connected(n.pager, total) \in Pager
    BY <2>4, PagerTypes
  <2>6. TabOK(v) /\ Apart(n, v) /\ v.page = n.page /\ v.pager = Connected(n.pager, total)
    BY <2>3, <2>5, SetFields
  <2> HIDE DEF v
  <2>7. Keeps(n, v) /\ Url(v) = Url(n)
    BY <2>3, <2>6, ApartKeeps DEF Apart, Url
  <2>8. v.pager.there /\ v.pager.page = page
    BY <2>4, <2>6, PagerTypes
  <2>9. changed \in BOOLEAN
    BY Zenon
  <2> HIDE DEF changed
  <2>10. /\ Keeps(v, PagerUpdates(v, changed))
         /\ Aligned(v) => Aligned(PagerUpdates(v, changed))
    BY <2>6, <2>8, <2>9, PagerUpdatesKeeps
  <2>11. Keeps(t, PagerUpdates(v, changed))
    BY <1>3, <2>2, <2>7, <2>10, KeepsTransitive
  <2>12. ASSUME Aligned(t), page = t.page
         PROVE  Aligned(v)
    <3>1. v.page = page
      BY <1>2, <2>3, <2>6, <2>12 DEF NoPager
    <3>2. Url(v).page = page
      <4>1. Url(t) \in Params
        BY UrlType
      <4>2. WithPage(Url(t), page).page = page
        BY <4>1, UrlPage
      <4> QED BY <1>2, <1>3, <2>3, <2>7, <2>12, <4>2 DEF NoPager, Aligned
    <3> QED BY <2>8, <3>1, <3>2 DEF Aligned
  <2> QED BY <2>1, <2>10, <2>11, <2>12
<1>6. CASE HasPager(total) /\ t.pager.there
  <2> DEFINE turned == page # t.pager.attribute /\ page # t.pager.page
             n == IF page = t.pager.attribute THEN t ELSE SetAttribute(t, page)
             v == [n EXCEPT !.pager = WithTotal(n.pager, total)]
  <2>1. Render(t, page, total) = IF turned \/ total # t.pager.total
                                 THEN PagerUpdates(v, turned) ELSE n
    BY <1>6 DEF Render, WithTotal
  <2>2. Keeps(t, n) /\ TabOK(n)
    <3>1. Keeps(t, t)
      BY DEF Keeps
    <3> QED BY <3>1, SetAttributeKeeps DEF Keeps
  <2>3. n.pager.there /\ (Aligned(t) /\ page = t.page => Aligned(n))
    <3>1. CASE page = t.pager.attribute
      BY <1>6, <3>1
    <3>2. CASE page # t.pager.attribute
      <4>1. /\ n.pager = WithAttribute(t.pager, page)
            /\ Url(n) = IF page = t.pager.page THEN Url(t) ELSE WithPage(Url(t), page)
            /\ n.page = IF (page # t.pager.page /\ page # Url(t).page) /\ t.pager.there
                        THEN page ELSE t.page
        BY <3>2, SetAttributeFacts
      <4> HIDE DEF n
      <4>2. n.pager.there /\ n.pager.page = page
        <5>1. /\ WithAttribute(t.pager, page).there = t.pager.there
              /\ WithAttribute(t.pager, page).page = page
          BY <1>1 DEF WithAttribute, Pager
        <5> QED BY <1>6, <4>1, <5>1
      <4> QED BY <1>6, <4>1, <4>2 DEF Aligned
    <3> QED BY <3>1, <3>2
  <2> HIDE DEF n
  <2>4. n.pager \in Pager
    BY <2>2, PageTypes
  <2>5. /\ WithTotal(n.pager, total) \in Pager
        /\ WithTotal(n.pager, total).there = n.pager.there
        /\ WithTotal(n.pager, total).page = n.pager.page
    BY <2>4, PagerTypes
  <2>6. TabOK(v) /\ Apart(n, v) /\ v.page = n.page /\ v.pager = WithTotal(n.pager, total)
    BY <2>2, <2>5, SetFields
  <2> HIDE DEF v
  <2>7. Keeps(n, v) /\ Url(v) = Url(n)
    BY <2>2, <2>6, ApartKeeps DEF Apart, Url
  <2>8. v.pager.there /\ (Aligned(n) => Aligned(v))
    BY <2>3, <2>5, <2>6, <2>7 DEF Aligned
  <2>9. turned \in BOOLEAN
    BY Zenon
  <2> HIDE DEF turned
  <2>10. /\ Keeps(v, PagerUpdates(v, turned))
         /\ Aligned(v) => Aligned(PagerUpdates(v, turned))
    BY <2>6, <2>8, <2>9, PagerUpdatesKeeps
  <2>11. Keeps(t, PagerUpdates(v, turned))
    BY <2>2, <2>7, <2>10, KeepsTransitive
  <2> QED BY <2>1, <2>2, <2>3, <2>8, <2>10, <2>11
<1> QED BY <1>4, <1>5, <1>6

LEMMA ResetKeeps ==
  ASSUME NEW t, TabOK(t)
  PROVE  /\ Keeps(t, Reset(t))
         /\ /\ Aligned(t) /\ Kind \in {"workflows", "items", "crawls"}
            /\ Kind = "workflows" => t.pager.there \/ Url(t).page = 1
            => Aligned(Reset(t))
<1>1. 1 \in Page /\ t.pager \in Pager
  BY PageTypes
<1> DEFINE n == [t EXCEPT !.page = 1]
<1>2. TabOK(n) /\ Apart(t, n) /\ n.page = 1 /\ n.pager = t.pager
  BY <1>1, SetFields
<1> HIDE DEF n
<1>3. Keeps(t, n) /\ Url(n) = Url(t)
  BY <1>2, ApartKeeps DEF Apart, Url
<1>4. CASE Kind = "workflows"
  <2> DEFINE no == FALSE
             yes == TRUE
             r == SetPage(n, 1, no, yes)
  <2>1. Reset(t) = IF n.pager.there THEN r ELSE n
    BY <1>4 DEF Reset, ResetWorkflows, n
  <2>0. no \in BOOLEAN /\ yes \in BOOLEAN /\ ~no
    OBVIOUS
  <2> HIDE DEF no, yes
  <2>2. Keeps(n, r)
    BY <1>1, <1>2, <2>0, SetPageKeeps
  <2>3. ASSUME Aligned(t), t.pager.there
        PROVE  Aligned(r)
    <3>1. CASE t.pager.page = 1
      <4>1. r = n
        BY <1>1, <1>2, <2>0, <3>1, SetPageFacts
      <4> QED BY <1>2, <1>3, <2>3, <3>1, <4>1 DEF Aligned
    <3>2. CASE t.pager.page # 1
      <4>1. /\ Url(r) = WithPage(Url(n), 1) /\ r.pager = WithPage(n.pager, 1)
            /\ r.page = IF no \/ (Url(n).page # 1 /\ n.pager.there) THEN 1 ELSE n.page
        BY <1>1, <1>2, <2>0, <3>2, SetPageFacts
      <4> HIDE DEF r
      <4>2. Url(t) \in Params
        BY UrlType
      <4>3. Url(r).page = 1
        BY <1>1, <1>3, <4>1, <4>2, UrlPage
      <4>4. r.pager.page = 1
        BY <1>1, <1>2, <4>1, PagerTypes
      <4> QED BY <1>2, <2>0, <4>1, <4>3, <4>4 DEF Aligned
    <3> QED BY <3>1, <3>2
  <2>4. ASSUME Aligned(t), ~t.pager.there, Url(t).page = 1
        PROVE  Aligned(n)
    BY <1>2, <1>3, <2>4 DEF Aligned
  <2> HIDE DEF r
  <2>5. Keeps(t, r)
    BY <1>3, <2>2, KeepsTransitive
  <2> QED BY <1>2, <1>3, <1>4, <2>1, <2>3, <2>4, <2>5
<1>5. CASE Kind \in {"items", "crawls"}
  <2> DEFINE r == SetPage(t, 1, TRUE, TRUE)
  <2>1. Reset(t) = IF t.pager.there THEN r ELSE t
    BY <1>5 DEF Reset, ResetItems, ResetCrawls
  <2>2. Keeps(t, r) /\ Keeps(t, t)
    BY <1>1, SetPageKeeps DEF Keeps
  <2>3. t.pager.there /\ Aligned(t) => Aligned(r)
    BY <1>1, SetPageAligned
  <2> HIDE DEF r
  <2> QED BY <1>5, <2>1, <2>2, <2>3
<1>6. CASE Kind \notin {"workflows", "items", "crawls"}
  <2>1. Reset(t) = n
    BY <1>6 DEF Reset, ResetProfiles, n
  <2> QED BY <1>3, <1>6, <2>1
<1> QED BY <1>4, <1>5, <1>6

-----------------------------------------------------------------------------
(***************************************************************************)
(* What the user changes.                                                  *)
(***************************************************************************)
Asks(t, filters) ==
  [k \in DOMAIN filters |-> IF filters[k] # t.filters[k] THEN Norm(filters)[k]
                            ELSE Wanted(t).filters[k]]
Sets(t, filters, params) ==
  Wish(SetValue(t, filters, params), Asks(t, filters), Wanted(t).sort)

LEMMA PlainFacts ==
  ASSUME NEW filters \in FilterValues
  PROVE  /\ filters.tags # "undefined" => Norm(filters) = filters
         /\ \A params \in Params : Decode(params).tags # "undefined"
  BY DEF FilterValues, Norm, Decode

\* Of a value that is not undefined every change is requested.
LEMMA RequestsChange ==
  ASSUME NEW old \in FilterValues, NEW new \in FilterValues, old.tags # "undefined",
         old # new
  PROVE  Requests(old, new)
<1>1. DOMAIN old = {"search", "status", "mine", "tags"}
  BY DEF FilterValues
<1>2. \/ old.search # new.search \/ old.status # new.status
      \/ old.mine # new.mine \/ old.tags # new.tags
  BY DEF FilterValues
<1>3. CASE old["search"] # new["search"]
  BY <1>1, <1>3 DEF Requests
<1>4. CASE old["status"] # new["status"]
  BY <1>1, <1>4 DEF Requests
<1>5. CASE old["mine"] # new["mine"]
  BY <1>1, <1>5 DEF Requests
<1>6. CASE old["tags"] # new["tags"]
  BY <1>1, <1>6 DEF Requests
<1> QED BY <1>2, <1>3, <1>4, <1>5, <1>6

LEMMA AsksFacts ==
  ASSUME NEW t, TabOK(t), NEW filters \in FilterValues
  PROVE  /\ Asks(t, filters) \in PlainFilters
         /\ Faithful(t) => Asks(t, filters) = Norm(filters)
<1> DEFINE a == Asks(t, filters)
           b == Norm(filters)
           w == Wanted(t).filters
<1>1. b \in PlainFilters /\ w \in PlainFilters /\ t.filters \in FilterValues
  BY CodecTypes, UrlType DEF TabOK, Tab
<1>2. DOMAIN filters = {"search", "status", "mine", "tags"}
  BY DEF FilterValues
<1> HIDE DEF b, w
<1>3. a = [k \in {"search", "status", "mine", "tags"} |->
             IF filters[k] # t.filters[k] THEN b[k] ELSE w[k]]
  BY <1>2 DEF Asks, b, w
<1>4. a \in PlainFilters
  BY <1>1, <1>3 DEF PlainFilters
<1>5. ASSUME Faithful(t)
      PROVE  a = b
  <2>1. w = Norm(t.filters)
    BY <1>5, CurrentEntry DEF Faithful, w
  <2>2. \A k \in {"search", "status", "mine", "tags"} :
          filters[k] = t.filters[k] => b[k] = w[k]
    BY <1>1, <2>1 DEF FilterValues, Norm, b
  <2>3. \A k \in {"search", "status", "mine", "tags"} : a[k] = b[k]
    BY <1>3, <2>2
  <2>4. a.search = b.search /\ a.status = b.status /\ a.mine = b.mine /\ a.tags = b.tags
    BY <2>3
  <2> HIDE DEF a
  <2> QED BY <1>1, <1>4, <2>4 DEF PlainFilters
<1> QED BY <1>4, <1>5 DEF b

\* Both flags are set where something that matters has changed.
TellsPage(s, t) == (t.reset => t.dirty) /\ (t.dirty \/ t.page = s.page)
TellsAll(s, t) == Plain(t) /\ (t.dirty \/ Args(t) = Args(s))

LEMMA SetsFacts ==
  ASSUME NEW t, TabOK(t), NEW filters \in FilterValues, NEW params \in Params,
         filters # t.filters
  PROVE  LET r == Sets(t, filters, params)
             goes == params # Url(t) IN
         /\ TabOK(r)
         /\ Url(r) = params /\ OthersFrom(t, r)
         /\ Wanted(r).filters = Asks(t, filters) /\ Wanted(r).sort = Wanted(t).sort
         /\ r.stored = IF Kind = "profiles" THEN filters.mine ELSE t.stored
         /\ r.filters = IF goes THEN Decode(params) ELSE filters
         /\ r.sort = IF goes THEN DecodeSort(params) ELSE t.sort
         /\ r.page = IF goes /\ Turned(t, params) THEN params.page ELSE t.page
         /\ r.pager = WithPage(t.pager, IF goes /\ Turned(t, params)
                                        THEN params.page ELSE t.pager.page)
         /\ r.reset <=> t.reset \/ Requests(t.filters, filters)
         /\ r.dirty <=> \/ t.dirty \/ Requests(t.filters, filters)
                        \/ goes /\ \/ Requests(filters, Decode(params))
                                   \/ t.sort # DecodeSort(params) \/ Turned(t, params)
<1> DEFINE v == SetValue(t, filters, params)
           a == Asks(t, filters)
           b == Wanted(t).sort
           r == Wish(v, a, b)
<1>1. a \in PlainFilters /\ b \in SortValues
  BY AsksFacts, UrlType
<1>2. /\ TabOK(v) /\ Url(v) = params /\ OthersFrom(t, v)
      /\ v.stored = IF Kind = "profiles" THEN filters.mine ELSE t.stored
      /\ v.filters = IF params # Url(t) THEN Decode(params) ELSE filters
      /\ v.sort = IF params # Url(t) THEN DecodeSort(params) ELSE t.sort
      /\ v.page = IF params # Url(t) /\ Turned(t, params) THEN params.page ELSE t.page
      /\ v.pager = WithPage(t.pager, IF params # Url(t) /\ Turned(t, params)
                                     THEN params.page ELSE t.pager.page)
      /\ v.reset <=> t.reset \/ Requests(t.filters, filters)
      /\ v.dirty <=> \/ t.dirty \/ Requests(t.filters, filters)
                     \/ params # Url(t) /\ \/ Requests(filters, Decode(params))
                                           \/ t.sort # DecodeSort(params) \/ Turned(t, params)
  BY SetValueFacts
<1> HIDE DEF v, a, b
<1>3. /\ TabOK(r) /\ SameElements(v, r) /\ SameOthers(v, r)
      /\ Url(r) = Url(v) /\ Wanted(r) = [filters |-> a, sort |-> b]
  BY <1>1, <1>2, WishFacts
<1> HIDE DEF r
<1>4. OthersFrom(t, r)
  BY <1>2, <1>3 DEF SameOthers, OthersFrom
<1>5. Wanted(r).filters = a /\ Wanted(r).sort = b
  BY <1>3
<1>6. r = Sets(t, filters, params)
  BY DEF Sets, r, v, a, b
<1> QED BY <1>2, <1>3, <1>4, <1>5, <1>6 DEF SameElements, a, b

\* Nothing is set to the value it has.
LEMMA SetsNothing ==
  ASSUME NEW t, TabOK(t), NEW params \in Params
  PROVE  LET r == Sets(t, t.filters, params) IN
         /\ TabOK(r) /\ SameElements(t, r) /\ SameOthers(t, r)
         /\ Url(r) = Url(t)
         /\ Wanted(r).filters = Asks(t, t.filters) /\ Wanted(r).sort = Wanted(t).sort
<1> DEFINE a == Asks(t, t.filters)
           b == Wanted(t).sort
           r == Wish(t, a, b)
<1>1. a \in PlainFilters /\ b \in SortValues
  BY AsksFacts, UrlType DEF TabOK, Tab
<1>2. r = Sets(t, t.filters, params)
  BY DEF Sets, SetValue
<1> HIDE DEF a, b
<1>3. /\ TabOK(r) /\ SameElements(t, r) /\ SameOthers(t, r)
      /\ Url(r) = Url(t) /\ Wanted(r) = [filters |-> a, sort |-> b]
  BY <1>1, WishFacts
<1> QED BY <1>2, <1>3 DEF a, b

LEMMA SetsTells ==
  ASSUME NEW s, NEW t, TabOK(t), NEW filters \in FilterValues, NEW params \in Params
  PROVE  LET r == Sets(t, filters, params) IN
         /\ TabOK(r)
         /\ TellsPage(s, t) => TellsPage(s, r)
         /\ TellsAll(s, t) /\ filters.tags # "undefined" => TellsAll(s, r)
<1> DEFINE r == Sets(t, filters, params)
<1>1. CASE filters = t.filters
  <2>1. TabOK(r) /\ SameElements(t, r)
    BY <1>1, SetsNothing
  <2> HIDE DEF r
  <2>2. /\ TellsPage(s, t) => TellsPage(s, r)
        /\ TellsAll(s, t) => TellsAll(s, r)
    BY <2>1 DEF TellsPage, TellsAll, SameElements, Args, Plain
  <2> QED BY <2>1, <2>2 DEF r
<1>2. CASE filters # t.filters
  <2> DEFINE goes == params # Url(t)
  <2>1. /\ TabOK(r)
        /\ r.filters = IF goes THEN Decode(params) ELSE filters
        /\ r.page = IF goes /\ Turned(t, params) THEN params.page ELSE t.page
        /\ r.reset <=> t.reset \/ Requests(t.filters, filters)
        /\ r.dirty <=> \/ t.dirty \/ Requests(t.filters, filters)
                       \/ goes /\ \/ Requests(filters, Decode(params))
                                  \/ t.sort # DecodeSort(params) \/ Turned(t, params)
    BY <1>2, SetsFacts
  <2> HIDE DEF r, goes
  <2>2. TellsPage(s, t) => TellsPage(s, r)
    BY <2>1 DEF TellsPage
  <2>3. Decode(params).tags # "undefined"
    BY PlainFacts
  <2>4. ASSUME TellsAll(s, t), filters.tags # "undefined"
        PROVE  TellsAll(s, r)
    <3>1. Plain(r)
      BY <2>1, <2>3, <2>4 DEF Plain
    <3>2. t.filters \in FilterValues /\ t.filters.tags # "undefined"
      BY <2>4 DEF TabOK, Tab, TellsAll, Plain
    <3>3. Requests(t.filters, filters)
      BY <1>2, <3>2, RequestsChange
    <3>4. r.dirty
      BY <2>1, <3>3
    <3> QED BY <3>1, <3>4 DEF TellsAll
  <2> QED BY <2>1, <2>2, <2>4 DEF r
<1> QED BY <1>1, <1>2

\* The page stays as it is, on every copy.
LEMMA SetsAligned ==
  ASSUME NEW t, TabOK(t), NEW filters \in FilterValues, NEW params \in Params,
         params.page = Url(t).page, Aligned(t)
  PROVE  LET r == Sets(t, filters, params) IN
         /\ Aligned(r) /\ Url(r).page = Url(t).page
         /\ r.pager.there <=> t.pager.there
<1> DEFINE r == Sets(t, filters, params)
<1>1. CASE filters = t.filters
  <2>1. SameElements(t, r) /\ Url(r) = Url(t)
    BY <1>1, SetsNothing
  <2> HIDE DEF r
  <2>2. Aligned(r) /\ r.pager = t.pager
    BY <2>1 DEF SameElements, Aligned
  <2> QED BY <2>1, <2>2 DEF r
<1>2. CASE filters # t.filters
  <2>1. ~Turned(t, params)
    BY DEF Turned, Aligned
  <2>2. /\ Url(r) = params /\ r.page = t.page
        /\ r.pager = WithPage(t.pager, t.pager.page)
    BY <1>2, <2>1, SetsFacts
  <2>3. WithPage(t.pager, t.pager.page) = t.pager
    BY PageTypes DEF WithPage, Pager
  <2> HIDE DEF r
  <2>4. Aligned(r) /\ r.pager = t.pager
    BY <2>2, <2>3 DEF Aligned
  <2> QED BY <2>2, <2>4 DEF r
<1> QED BY <1>1, <1>2

\* The URL params says what the filters are, and nothing else has changed in it.
Encodes(t, filters, params) ==
  /\ Decode(params) = Norm(filters) /\ DecodeSort(params) = DecodeSort(Url(t))
  /\ ~params.status /\ params.sortDir = ""

LEMMA SetsFaithful ==
  ASSUME NEW t, TabOK(t), NEW filters \in FilterValues, NEW params \in Params,
         Faithful(t), Encodes(t, filters, params)
  PROVE  Faithful(Sets(t, filters, params))
<1> DEFINE r == Sets(t, filters, params)
<1>0. Asks(t, filters) = Norm(filters)
  BY AsksFacts
<1>c. /\ Wanted(t).filters = Decode(Url(t)) /\ Wanted(t).sort = DecodeSort(Url(t))
      /\ ~Url(t).status /\ Url(t).sortDir = ""
  BY CurrentEntry
<1>1. CASE filters = t.filters
  <2>1. /\ TabOK(r) /\ SameElements(t, r) /\ SameOthers(t, r) /\ Url(r) = Url(t)
        /\ Wanted(r).filters = Asks(t, filters) /\ Wanted(r).sort = Wanted(t).sort
    BY <1>1, SetsNothing
  <2> HIDE DEF r
  <2>2. Norm(filters) = Decode(Url(t)) /\ t.sort = DecodeSort(Url(t))
    BY <1>1 DEF Faithful
  <2>3. \A e \in Entries(r) : EntryOK(e)
    BY <1>0, <1>c, <2>1, <2>2, SameOthersFrom, AllEntries DEF Faithful
  <2>4. Faithful(r)
    BY <1>1, <2>1, <2>2, <2>3 DEF Faithful, SameElements
  <2> QED BY <2>4 DEF r
<1>2. CASE filters # t.filters
  <2>1. /\ TabOK(r) /\ Url(r) = params /\ OthersFrom(t, r)
        /\ Wanted(r).filters = Asks(t, filters) /\ Wanted(r).sort = Wanted(t).sort
        /\ r.filters = Decode(params) \/ r.filters = filters
        /\ r.sort = DecodeSort(params) \/ r.sort = t.sort
    BY <1>2, SetsFacts
  <2> HIDE DEF r
  <2>2. \A e \in Entries(r) : EntryOK(e)
    BY <1>0, <1>c, <2>1, AllEntries DEF Faithful, Encodes
  <2>3. Norm(r.filters) = Decode(params)
    BY <2>1, NormDecode DEF Encodes
  <2>4. r.sort = DecodeSort(params)
    BY <2>1 DEF Encodes, Faithful
  <2>5. Faithful(r)
    BY <2>1, <2>2, <2>3, <2>4 DEF Faithful
  <2> QED BY <2>5 DEF r
<1> QED BY <1>1, <1>2

\* Each encoder writes what the controller that has it may change.
LEMMA EncodersFaithful ==
  ASSUME NEW t, TabOK(t), Faithful(t), NEW filters \in FilterValues, ~filters.status
  PROVE  /\ filters.mine = t.filters.mine /\ filters.tags = t.filters.tags =>
              Encodes(t, filters, EncodeFilterBy(filters, Url(t)))
         /\ filters.search = t.filters.search /\ filters.tags = t.filters.tags =>
              Encodes(t, filters, EncodeMine(filters, Url(t)))
         /\ filters.search = t.filters.search /\ filters.mine = t.filters.mine =>
              Encodes(t, filters, EncodeTags(filters, Url(t)))
         /\ Encodes(t, filters, EncodeProfilesFilterBy(filters, Url(t)))
<1> DEFINE p == Url(t)
           f == t.filters
<1>1. p \in Params /\ f \in FilterValues /\ ~p.status /\ p.sortDir = ""
  BY UrlType, CurrentEntry DEF TabOK, Tab
<1>2. Norm(f) = Decode(p)
  BY DEF Faithful
<1> HIDE DEF p, f
<1>3. /\ p.search = f.search /\ p.mine = f.mine
      /\ p.tags = (f.tags = "some")
  BY <1>1, <1>2 DEF Norm, Decode, FilterValues, Params
<1>8. ASSUME NEW e \in Params, e.search = filters.search, e.mine = filters.mine,
             e.tags <=> filters.tags = "some", ~e.status,
             e.sortBy = p.sortBy, e.sortDir = p.sortDir
      PROVE  Encodes(t, filters, e)
  <2>1. Decode(e) = Norm(filters)
    <3>1. e.status = filters.status
      BY <1>8 DEF FilterValues, Params
    <3> DEFINE x == IF e.tags THEN "some" ELSE "none"
    <3>2. x = IF filters.tags = "undefined" THEN "none" ELSE filters.tags
      BY <1>8 DEF FilterValues
    <3> HIDE DEF x
    <3>3. Norm(filters) = [search |-> filters.search, status |-> filters.status,
                           mine |-> filters.mine, tags |-> x]
      BY <3>2 DEF Norm, FilterValues
    <3> QED BY <1>8, <3>1, <3>3 DEF Decode, x
  <2>2. DecodeSort(e) = DecodeSort(p)
    BY <1>8 DEF DecodeSort
  <2> QED BY <1>1, <1>8, <2>1, <2>2 DEF Encodes, p
<1>4. ASSUME filters.mine = f.mine, filters.tags = f.tags
      PROVE  Encodes(t, filters, EncodeFilterBy(filters, p))
  <2> DEFINE e == EncodeFilterBy(filters, p)
  <2>1. /\ e \in Params /\ e.search = filters.search /\ e.mine = p.mine /\ e.tags = p.tags
        /\ ~e.status /\ e.sortBy = p.sortBy /\ e.sortDir = p.sortDir
    BY <1>1 DEF EncodeFilterBy, FilterValues, Params
  <2> HIDE DEF e
  <2>2. Encodes(t, filters, e)
    BY <1>3, <1>4, <1>8, <2>1
  <2> QED BY <2>2 DEF e
<1>5. ASSUME filters.search = f.search, filters.tags = f.tags
      PROVE  Encodes(t, filters, EncodeMine(filters, p))
  <2> DEFINE e == EncodeMine(filters, p)
  <2>1. /\ e \in Params /\ e.search = p.search /\ e.mine = filters.mine /\ e.tags = p.tags
        /\ ~e.status /\ e.sortBy = p.sortBy /\ e.sortDir = p.sortDir
    BY <1>1 DEF EncodeMine, FilterValues, Params
  <2> HIDE DEF e
  <2>2. Encodes(t, filters, e)
    BY <1>3, <1>5, <1>8, <2>1
  <2> QED BY <2>2 DEF e
<1>6. ASSUME filters.search = f.search, filters.mine = f.mine
      PROVE  Encodes(t, filters, EncodeTags(filters, p))
  <2> DEFINE e == EncodeTags(filters, p)
  <2>1. /\ e \in Params /\ e.search = p.search /\ e.mine = p.mine
        /\ e.tags <=> filters.tags = "some"
        /\ ~e.status /\ e.sortBy = p.sortBy /\ e.sortDir = p.sortDir
    BY <1>1 DEF EncodeTags, FilterValues, Params
  <2> HIDE DEF e
  <2>2. Encodes(t, filters, e)
    BY <1>3, <1>6, <1>8, <2>1
  <2> QED BY <2>2 DEF e
<1>7. Encodes(t, filters, EncodeProfilesFilterBy(filters, p))
  <2> DEFINE e == EncodeProfilesFilterBy(filters, p)
  <2>1. /\ e \in Params /\ e.search = filters.search /\ e.mine = filters.mine
        /\ e.tags <=> filters.tags = "some"
        /\ ~e.status /\ e.sortBy = p.sortBy /\ e.sortDir = p.sortDir
    BY <1>1 DEF EncodeProfilesFilterBy, FilterValues, Params
  <2> HIDE DEF e
  <2>2. Encodes(t, filters, e)
    BY <1>8, <2>1
  <2> QED BY <2>2 DEF e
<1> QED BY <1>4, <1>5, <1>6, <1>7 DEF p, f

LEMMA EncodersKeepPage ==
  ASSUME NEW filters \in FilterValues, NEW params \in Params
  PROVE  /\ EncodeFilterBy(filters, params).page = params.page
         /\ EncodeMine(filters, params).page = params.page
         /\ EncodeTags(filters, params).page = params.page
         /\ EncodeProfilesFilterBy(filters, params).page = params.page
         /\ EncodeProfilesFilterBy(filters, params).mine = filters.mine
  BY DEF EncodeFilterBy, EncodeMine, EncodeTags, EncodeProfilesFilterBy, Params

Sorts(t, sort) == Wish(SetSort(t, sort), Wanted(t).filters, sort)

LEMMA EncodeSortFacts ==
  ASSUME NEW sort \in SortValues, NEW params \in Params
  PROVE  LET p == EncodeSort(sort, params) IN
         /\ p \in Params /\ p.page = params.page /\ p.mine = params.mine
         /\ p.status = params.status /\ Decode(p) = Decode(params)
         /\ sort.direction = DefaultDirection(sort.field) =>
              p.sortDir = "" /\ DecodeSort(p) = sort
<1> DEFINE p == EncodeSort(sort, params)
<1>1. p \in Params
  BY CodecTypes
<1>2. /\ p.page = params.page /\ p.mine = params.mine
      /\ p.status = params.status /\ p.search = params.search /\ p.tags = params.tags
      /\ p.sortBy <=> sort.field # "default"
      /\ sort.direction = DefaultDirection(sort.field) => p.sortDir = ""
  BY DEF EncodeSort, Params
<1> HIDE DEF p
<1>3. Decode(p) = Decode(params)
  BY <1>2 DEF Decode
<1>4. ASSUME sort.direction = DefaultDirection(sort.field)
      PROVE  DecodeSort(p) = sort
  <2>1. CASE sort.field = "default"
    BY <1>2, <1>4, <2>1 DEF DecodeSort, DefaultSort, DefaultDirection, SortValues
  <2>2. CASE sort.field = "other"
    BY <1>2, <1>4, <2>2 DEF DecodeSort, SortValues
  <2> QED BY <2>1, <2>2 DEF SortValues
<1> QED BY <1>1, <1>2, <1>3, <1>4 DEF p

LEMMA SortsFacts ==
  ASSUME NEW t, TabOK(t), NEW sort \in SortValues, sort # t.sort
  PROVE  LET r == Sorts(t, sort)
             params == EncodeSort(sort, Url(t))
             goes == params # Url(t) IN
         /\ TabOK(r)
         /\ Url(r) = params /\ OthersFrom(t, r)
         /\ Wanted(r).filters = Wanted(t).filters /\ Wanted(r).sort = sort
         /\ r.stored = t.stored /\ r.dirty /\ r.reset
         /\ r.filters = IF goes THEN Decode(params) ELSE t.filters
         /\ r.sort = IF goes THEN DecodeSort(params) ELSE sort
         /\ r.page = IF goes /\ Turned(t, params) THEN params.page ELSE t.page
         /\ r.pager = WithPage(t.pager, IF goes /\ Turned(t, params)
                                        THEN params.page ELSE t.pager.page)
<1> DEFINE v == SetSort(t, sort)
           a == Wanted(t).filters
           r == Wish(v, a, sort)
           params == EncodeSort(sort, Url(t))
           goes == params # Url(t)
<1>1. a \in PlainFilters
  BY UrlType
<1>2. /\ TabOK(v) /\ Url(v) = params /\ OthersFrom(t, v)
      /\ v.stored = t.stored /\ v.dirty /\ v.reset
      /\ v.filters = IF goes THEN Decode(params) ELSE t.filters
      /\ v.sort = IF goes THEN DecodeSort(params) ELSE sort
      /\ v.page = IF goes /\ Turned(t, params) THEN params.page ELSE t.page
      /\ v.pager = WithPage(t.pager, IF goes /\ Turned(t, params)
                                     THEN params.page ELSE t.pager.page)
  BY SetSortFacts
<1> HIDE DEF v, a, goes, params
<1>3. /\ TabOK(r) /\ SameElements(v, r) /\ SameOthers(v, r)
      /\ Url(r) = Url(v) /\ Wanted(r) = [filters |-> a, sort |-> sort]
  BY <1>1, <1>2, WishFacts
<1> HIDE DEF r
<1>4. OthersFrom(t, r)
  BY <1>2, <1>3 DEF SameOthers, OthersFrom
<1>5. Wanted(r).filters = a /\ Wanted(r).sort = sort
  BY <1>3
<1>6. r = Sorts(t, sort)
  BY DEF Sorts, r, v, a
<1> QED BY <1>2, <1>3, <1>4, <1>5, <1>6 DEF SameElements, a, goes, params

LEMMA SortsKeeps ==
  ASSUME NEW s, NEW t, TabOK(t), NEW sort \in SortValues, sort # t.sort
  PROVE  LET r == Sorts(t, sort) IN
         /\ TabOK(r) /\ r.stored = t.stored /\ Url(r).mine = Url(t).mine
         /\ TellsPage(s, r)
         /\ Plain(t) => TellsAll(s, r)
         /\ Aligned(t) => /\ Aligned(r) /\ Url(r).page = Url(t).page
                          /\ r.pager.there <=> t.pager.there
         /\ Faithful(t) /\ sort.direction = DefaultDirection(sort.field) => Faithful(r)
<1> DEFINE r == Sorts(t, sort)
           params == EncodeSort(sort, Url(t))
           goes == params # Url(t)
<1>1. /\ TabOK(r)
      /\ Url(r) = params /\ OthersFrom(t, r)
      /\ Wanted(r).filters = Wanted(t).filters /\ Wanted(r).sort = sort
      /\ r.stored = t.stored /\ r.dirty /\ r.reset
      /\ r.filters = IF goes THEN Decode(params) ELSE t.filters
      /\ r.sort = IF goes THEN DecodeSort(params) ELSE sort
      /\ r.page = IF goes /\ Turned(t, params) THEN params.page ELSE t.page
      /\ r.pager = WithPage(t.pager, IF goes /\ Turned(t, params)
                                     THEN params.page ELSE t.pager.page)
  BY SortsFacts
<1>2. /\ params \in Params /\ params.page = Url(t).page /\ params.mine = Url(t).mine
      /\ params.status = Url(t).status /\ Decode(params) = Decode(Url(t))
      /\ sort.direction = DefaultDirection(sort.field) =>
           params.sortDir = "" /\ DecodeSort(params) = sort
  <2>1. Url(t) \in Params
    BY UrlType
  <2> QED BY <2>1, EncodeSortFacts
<1> HIDE DEF r, params
<1>3. TellsPage(s, r)
  BY <1>1 DEF TellsPage
<1>4. Plain(t) => TellsAll(s, r)
  <2>1. Decode(params).tags # "undefined"
    BY <1>2 DEF Decode
  <2> QED BY <1>1, <2>1 DEF TellsAll, Plain
<1>5. ASSUME Aligned(t)
      PROVE  Aligned(r) /\ r.pager = t.pager
  <2>1. ~Turned(t, params)
    BY <1>2, <1>5 DEF Turned, Aligned
  <2>2. WithPage(t.pager, t.pager.page) = t.pager
    BY PageTypes DEF WithPage, Pager
  <2> QED BY <1>1, <1>2, <1>5, <2>1, <2>2 DEF Aligned
<1>6. ASSUME Faithful(t), sort.direction = DefaultDirection(sort.field)
      PROVE  Faithful(r)
  <2>1. /\ Wanted(t).filters = Decode(Url(t)) /\ ~Url(t).status
    BY <1>6, CurrentEntry
  <2>2. \A e \in Entries(r) : EntryOK(e)
    BY <1>1, <1>2, <1>6, <2>1, AllEntries DEF Faithful
  <2>3. Norm(r.filters) = Decode(params)
    BY <1>1, <1>2, <1>6, NormDecode DEF Faithful
  <2>4. r.sort = DecodeSort(params)
    BY <1>1, <1>2, <1>6
  <2> QED BY <1>1, <2>2, <2>3, <2>4 DEF Faithful
<1> QED BY <1>1, <1>2, <1>3, <1>4, <1>5, <1>6 DEF r, params

-----------------------------------------------------------------------------
(***************************************************************************)
(* A page that is opened.                                                  *)
(***************************************************************************)
Fresh(t) == ~t.pager.there /\ t.page = Url(t).page /\ Plain(t)

LEMMA OpeningSets ==
  ASSUME NEW t, TabOK(t), Fresh(t), NEW filters \in FilterValues, NEW params \in Params,
         filters.tags # "undefined", params.page = Url(t).page
  PROVE  LET r == SetValue(t, filters, params) IN
         /\ TabOK(r) /\ Fresh(r)
         /\ filters = t.filters => r = t
<1> DEFINE r == SetValue(t, filters, params)
<1>1. CASE filters = t.filters
  <2>1. r = t
    BY <1>1 DEF SetValue
  <2> QED BY <2>1
<1>2. CASE filters # t.filters
  <2>1. ~Turned(t, params)
    BY DEF Turned, Fresh
  <2>2. /\ TabOK(r) /\ Url(r) = params /\ r.page = t.page
        /\ r.filters = Decode(params) \/ r.filters = filters
        /\ r.pager = WithPage(t.pager, t.pager.page)
    BY <1>2, <2>1, SetValueFacts
  <2>3. WithPage(t.pager, t.pager.page) = t.pager
    BY PageTypes DEF WithPage, Pager
  <2>4. Decode(params).tags # "undefined"
    BY DEF Decode
  <2> HIDE DEF r
  <2>5. Fresh(r)
    BY <2>2, <2>3, <2>4 DEF Fresh, Plain
  <2> QED BY <1>2, <2>2, <2>5 DEF r
<1> QED BY <1>1, <1>2

Opening(history, at, stored) ==
  [history |-> history, at |-> at, stored |-> stored,
   filters |-> Decode(history[at].params), sort |-> DecodeSort(history[at].params),
   page |-> history[at].params.page, pager |-> NoPager, dirty |-> FALSE, reset |-> FALSE]

LEMMA OpeningFacts ==
  ASSUME NEW history \in Seq(Entry), NEW at \in DOMAIN history, NEW stored \in BOOLEAN
  PROVE  LET t == Opening(history, at, stored) IN
         /\ TabOK(t) /\ Fresh(t) /\ Url(t) = history[at].params
         /\ t.stored = stored /\ t.history = history /\ t.at = at
         /\ t.filters = Decode(Url(t)) /\ t.sort = DecodeSort(Url(t))
<1> DEFINE p == history[at].params
           t == Opening(history, at, stored)
<1>1. p \in Params /\ at \in Nat
  <2>1. history[at] \in Entry /\ at \in Nat
    OBVIOUS
  <2> QED BY <2>1 DEF Entry
<1>2. /\ Decode(p) \in FilterValues /\ DecodeSort(p) \in SortValues /\ p.page \in Page
      /\ Decode(p).tags # "undefined"
  BY <1>1, CodecTypes DEF Params, Decode
<1>3. NoPager \in Pager /\ ~NoPager.there
  BY DEF NoPager, Pager, Page
<1>4. /\ t.history = history /\ t.at = at /\ t.stored = stored /\ t.filters = Decode(p)
      /\ t.sort = DecodeSort(p) /\ t.page = p.page /\ t.pager = NoPager
  BY DEF Opening
<1>5. t \in Tab
  BY <1>1, <1>2, <1>3 DEF Opening, Tab
<1> HIDE DEF t
<1>6. Url(t) = p
  BY <1>4 DEF Url
<1> HIDE DEF p
<1>7. TabOK(t) /\ Fresh(t)
  BY <1>2, <1>3, <1>4, <1>5, <1>6 DEF TabOK, Fresh, Plain
<1> QED BY <1>4, <1>6, <1>7 DEF t, p

LEMMA SetMineFresh ==
  ASSUME NEW t, TabOK(t), Fresh(t)
  PROVE  LET r == OpenCrawls(t) IN
         /\ TabOK(r) /\ Fresh(r)
         /\ t.filters.mine = t.stored => r = t
<1> DEFINE f == [t.filters EXCEPT !.mine = t.stored]
           p == EncodeMine(f, Url(t))
<1>1. OpenCrawls(t) = SetValue(t, f, p)
  BY DEF OpenCrawls, SetFilters
<1>2. f \in FilterValues /\ f.tags # "undefined" /\ (t.filters.mine = t.stored => f = t.filters)
  BY DEF TabOK, Tab, Fresh, Plain, FilterValues
<1> HIDE DEF f
<1>3. p \in Params /\ p.page = Url(t).page
  BY <1>2, UrlType, CodecTypes, EncodersKeepPage
<1> HIDE DEF p
<1> QED BY <1>1, <1>2, <1>3, OpeningSets

LEMMA ClearSearchFresh ==
  ASSUME NEW t, TabOK(t), Fresh(t)
  PROVE  LET f == [t.filters EXCEPT !.search = FALSE, !.status = FALSE]
             r == SetFilters(t, f, EncodeFilterBy) IN
         /\ TabOK(r) /\ Fresh(r)
         /\ ~t.filters.search /\ ~t.filters.status => r = t
<1> DEFINE f == [t.filters EXCEPT !.search = FALSE, !.status = FALSE]
           p == EncodeFilterBy(f, Url(t))
<1>1. SetFilters(t, f, EncodeFilterBy) = SetValue(t, f, p)
  BY DEF SetFilters
<1>2. /\ f \in FilterValues /\ f.tags # "undefined"
      /\ ~t.filters.search /\ ~t.filters.status => f = t.filters
  BY DEF TabOK, Tab, Fresh, Plain, FilterValues
<1> HIDE DEF f
<1>3. p \in Params /\ p.page = Url(t).page
  BY <1>2, UrlType, CodecTypes, EncodersKeepPage
<1> HIDE DEF p
<1> QED BY <1>1, <1>2, <1>3, OpeningSets DEF f

\* Where the page is opened at a URL without what the page drops, nothing changes.
LEMMA OpenFacts ==
  ASSUME NEW history \in Seq(Entry), NEW at \in DOMAIN history, NEW stored \in BOOLEAN
  PROVE  LET o == Open(history, at, stored)
             p == history[at].params IN
         /\ TabOK(o) /\ Fresh(o) /\ ~o.dirty /\ ~o.reset
         /\ \/ Kind = "workflows"
            \/ Kind = "profiles" /\ stored = p.mine
            \/ Kind \in {"items", "crawls"} /\ ~p.search /\ ~p.status /\ stored = p.mine
            => /\ o.history = history /\ o.at = at /\ o.stored = stored
               /\ o.filters = Decode(p) /\ o.sort = DecodeSort(p)
<1> DEFINE o == Open(history, at, stored)
           p == history[at].params
           t == Opening(history, at, stored)
           m == OpenCrawls(t)
           i == OpenItems(t)
           f == OpenProfiles(t)
           n == CASE Kind = "items" -> i [] Kind = "crawls" -> m [] Kind = "profiles" -> f
                  [] OTHER -> t
           Same(x) == /\ x.history = history /\ x.at = at /\ x.stored = stored
                      /\ x.filters = Decode(p) /\ x.sort = DecodeSort(p)
<1>1. o = [n EXCEPT !.dirty = FALSE, !.reset = FALSE]
  BY DEF Open, Opening
<1>2. /\ TabOK(t) /\ Fresh(t) /\ Url(t) = p /\ Same(t)
  BY OpeningFacts
<1> HIDE DEF t
<1>3. TabOK(m) /\ Fresh(m) /\ (stored = p.mine => m = t)
  BY <1>2, SetMineFresh DEF Decode
<1>4. TabOK(i) /\ Fresh(i) /\ (stored = p.mine /\ ~p.search /\ ~p.status => i = t)
  <2> DEFINE g == [m.filters EXCEPT !.search = FALSE, !.status = FALSE]
             r == SetFilters(m, g, EncodeFilterBy)
  <2>1. i = r
    BY DEF OpenItems, OpenCrawls
  <2> HIDE DEF m
  <2>2. TabOK(r) /\ Fresh(r) /\ (~m.filters.search /\ ~m.filters.status => r = m)
    BY <1>3, ClearSearchFresh
  <2>3. ~p.search /\ ~p.status /\ m = t => ~m.filters.search /\ ~m.filters.status
    BY <1>2 DEF Decode
  <2> HIDE DEF r, i
  <2> QED BY <1>3, <2>1, <2>2, <2>3
<1>5. TabOK(f) /\ Fresh(f) /\ (stored = p.mine => Same(f))
  <2> DEFINE x == t.stored \/ t.filters.mine
             g == [t.filters EXCEPT !.mine = x]
  <2>1. f = [t EXCEPT !.filters = g]
    BY DEF OpenProfiles
  <2>2. x \in BOOLEAN
    BY Zenon
  <2>3. stored = p.mine => x = p.mine
    <3>1. t.filters.mine = p.mine /\ t.stored = stored
      BY <1>2 DEF Decode
    <3>2. p.mine \in BOOLEAN
      BY <1>2, UrlType DEF Params
    <3>3. CASE p.mine = TRUE
      BY <3>1, <3>3
    <3>4. CASE p.mine = FALSE
      BY <3>1, <3>4
    <3> QED BY <3>2, <3>3, <3>4
  <2> HIDE DEF x
  <2>4. g \in FilterValues /\ g.tags # "undefined"
    BY <1>2, <2>2 DEF TabOK, Tab, Fresh, Plain, FilterValues
  <2>5. stored = p.mine => g = Decode(p)
    BY <1>2, <2>3 DEF Decode
  <2> HIDE DEF g, f
  <2>6. /\ f \in Tab /\ f.history = t.history /\ f.at = t.at /\ f.stored = t.stored
        /\ f.filters = g /\ f.sort = t.sort /\ f.page = t.page /\ f.pager = t.pager
    BY <1>2, <2>1, <2>4 DEF TabOK, Tab
  <2>7. TabOK(f) /\ Url(f) = Url(t)
    BY <1>2, <2>6 DEF TabOK, Url
  <2>8. Fresh(f)
    BY <1>2, <2>4, <2>6, <2>7 DEF Fresh, Plain
  <2> QED BY <1>2, <2>5, <2>6, <2>7, <2>8
<1> HIDE DEF m, i, f, p
<1>6. TabOK(n) /\ Fresh(n)
  BY <1>2, <1>3, <1>4, <1>5
<1>7. \/ Kind = "workflows"
      \/ Kind = "profiles" /\ stored = p.mine
      \/ Kind \in {"items", "crawls"} /\ ~p.search /\ ~p.status /\ stored = p.mine
      => Same(n)
  BY <1>2, <1>3, <1>4, <1>5
<1> HIDE DEF n, o
<1>8. TabOK(o) /\ Apart(n, o) /\ o.page = n.page /\ o.pager = n.pager /\ ~o.dirty /\ ~o.reset
  <2>1. n.page \in Page /\ n.pager \in Pager
    BY <1>6, PageTypes
  <2> QED BY <1>1, <1>6, <2>1, SetFields
<1>9. Fresh(o)
  BY <1>6, <1>8 DEF Fresh, Plain, Apart, Url
<1>10. Same(n) => Same(o)
  BY <1>8 DEF Apart
<1> QED BY <1>7, <1>8, <1>9, <1>10 DEF o, p

-----------------------------------------------------------------------------
(***************************************************************************)
(* The state.                                                              *)
(***************************************************************************)
NeverCleared == Kind = "workflows" => Without({"clear"})

Typed ==
  /\ setup \in Setups
  /\ TabOK(tab) /\ ~tab.dirty /\ ~tab.reset
  /\ asked \in ArgValues /\ asked.page = tab.page
  /\ pending \in BOOLEAN /\ timer \in BOOLEAN
  /\ shown \in [there : BOOLEAN, args : ArgValues, total : Nat]
  /\ tab.pager.there => shown.there
  /\ live \subseteq Items

\* The last run of the task has the arguments in force, and what is shown is its result.
Current ==
  /\ ~pending /\ shown.there => shown.args = asked
  /\ NeverCleared => Plain(tab) /\ asked = Args(tab)

LEMMA ArgsFacts ==
  ASSUME NEW t, TabOK(t)
  PROVE  Args(t) \in ArgValues /\ Args(t).page = t.page /\ Args(t).filters = Norm(t.filters)
<1>1. Norm(t.filters) \in PlainFilters /\ t.sort \in SortValues /\ t.page \in Page
  BY CodecTypes DEF TabOK, Tab
<1> QED BY <1>1 DEF Args, ArgValues

LEMMA UpdatedFacts ==
  ASSUME TabOK(tab), asked \in ArgValues, asked.page = tab.page,
         pending \in BOOLEAN, timer \in BOOLEAN,
         NEW t, TabOK(t), TellsPage(tab, t), Updated(t)
  PROVE  /\ TabOK(tab') /\ ~tab'.dirty /\ ~tab'.reset
         /\ asked' \in ArgValues /\ asked'.page = tab'.page
         /\ pending' \in BOOLEAN /\ timer' \in BOOLEAN
         /\ pending' = TRUE \/ (pending' = pending /\ asked' = asked)
         /\ TellsAll(tab, t) /\ asked = Args(tab) => Plain(tab') /\ asked' = Args(tab')
         /\ Keeps(t, tab')
         /\ LET n == IF t.reset THEN Reset(t) ELSE t IN
            /\ TabOK(n) /\ Apart(n, tab') /\ tab'.page = n.page /\ tab'.pager = n.pager
<1> DEFINE n == IF t.reset THEN Reset(t) ELSE t
           clean == [n EXCEPT !.dirty = FALSE, !.reset = FALSE]
<1>1. /\ tab' = clean
      /\ IF t.dirty /\ Args(clean) # asked THEN Runs(Args(clean))
         ELSE UNCHANGED <<asked, pending, timer>>
  BY DEF Updated
<1>2. Keeps(t, n)
  <2>1. Keeps(t, t)
    BY DEF Keeps
  <2> QED BY <2>1, ResetKeeps
<1>r. ~t.dirty => n = t
  BY DEF TellsPage
<1> HIDE DEF n
<1>3. TabOK(n)
  BY <1>2 DEF Keeps
<1>4. n.page \in Page /\ n.pager \in Pager
  BY <1>3, PageTypes
<1>5. /\ TabOK(clean) /\ Apart(n, clean) /\ clean.page = n.page /\ clean.pager = n.pager
      /\ ~clean.dirty /\ ~clean.reset
  BY <1>3, <1>4, SetFields
<1> HIDE DEF clean
<1>6. Keeps(n, clean) /\ Args(clean) = Args(n)
  BY <1>3, <1>5, ApartKeeps DEF Args, Apart
<1>7. Keeps(t, clean)
  BY <1>2, <1>6, KeepsTransitive
<1>8. Args(clean) \in ArgValues /\ Args(clean).page = clean.page
  BY <1>5, ArgsFacts
<1>9. CASE t.dirty
  <2>1. asked' = Args(clean)
    BY <1>1, <1>9 DEF Runs
  <2>2. /\ pending' \in BOOLEAN /\ timer' \in BOOLEAN
        /\ pending' = TRUE \/ (pending' = pending /\ asked' = asked)
    BY <1>1 DEF Runs
  <2>3. TellsAll(tab, t) => Plain(clean)
    BY <1>7 DEF TellsAll, Keeps
  <2> QED BY <1>1, <1>5, <1>7, <1>8, <1>3, <2>1, <2>2, <2>3 DEF n
<1>10. CASE ~t.dirty
  <2>1. asked' = asked /\ pending' = pending /\ timer' = timer
    BY <1>1, <1>10
  <2>2. t.page = tab.page /\ n = t
    BY <1>10, <1>r DEF TellsPage
  <2>3. clean.page = tab.page
    BY <1>5, <2>2
  <2>4. TellsAll(tab, t) => Plain(clean) /\ Args(clean) = Args(tab)
    BY <1>6, <1>7, <1>10, <2>2 DEF TellsAll, Keeps
  <2> QED BY <1>1, <1>5, <1>7, <1>3, <2>1, <2>3, <2>4 DEF n
<1> QED BY <1>9, <1>10

\* Filters and order are as asked, where AsAsked says so.
AskedCondition ==
  /\ Without({"direction", "status"})
  /\ Kind \in {"items", "crawls"} => Without({"reload"})
  /\ Kind = "profiles" => ~({"history", "reload"} \subseteq did)
AskedInv ==
  AskedCondition =>
    /\ Faithful(tab)
    /\ Kind = "profiles" /\ Without({"history"}) => tab.stored = Url(tab).mine

\* Page, pager and URL agree, where PagerShowsPage says so.
AlignedCondition ==
  /\ Kind # "profiles" /\ Without({"history"})
  /\ Kind = "workflows" => Without({"unpaged"})
AlignedInv == AlignedCondition => Aligned(tab)

ListInv == Typed /\ Current /\ AskedInv /\ AlignedInv

LEMMA PrimeFaithful ==
  ASSUME setup' = setup
  PROVE  Faithful(tab)' <=> Faithful(tab')
  BY DEF Faithful, EntryOK, Entries, Norm, Decode, Url, DecodeSort, DefaultDirection, Kind,
         DefaultSort, Directions

LEMMA Conditions ==
  ASSUME NEW a, Does(a)
  PROVE  /\ setup' = setup /\ Kind' = Kind
         /\ NeverCleared' => NeverCleared
         /\ AskedCondition' => AskedCondition
         /\ AlignedCondition' => AlignedCondition
         /\ a \in Notable => a \in did'
         /\ did \subseteq did'
         /\ "unpaged" \notin did' => tab.pager.there \/ Url(tab).page = 1
         /\ "hurry" \notin did' => ~pending
<1>1. setup' = setup /\ did \subseteq did' /\ (a \in Notable => a \in did')
  BY DEF Does
<1>2. Kind' = Kind
  BY <1>1 DEF Kind
<1>3. \A set : did' \intersect set = {} => did \intersect set = {}
  BY <1>1
<1>4. "unpaged" \notin did' => tab.pager.there \/ Url(tab).page = 1
  BY DEF Does, Notable
<1>5. "hurry" \notin did' => ~pending
  BY DEF Does, Notable
<1>6. NeverCleared' => NeverCleared
  BY <1>2, <1>3 DEF NeverCleared, Without
<1>7. AskedCondition' => AskedCondition
  BY <1>1, <1>2, <1>3 DEF AskedCondition, Without
<1>8. AlignedCondition' => AlignedCondition
  BY <1>2, <1>3 DEF AlignedCondition, Without
<1> QED BY <1>1, <1>2, <1>4, <1>5, <1>6, <1>7, <1>8

\* What an act makes of the elements, before they update.
Prepared(t) ==
  /\ TabOK(t) /\ TellsPage(tab, t) /\ (t.pager.there => tab.pager.there)
  /\ NeverCleared' /\ Plain(tab) => TellsAll(tab, t)
  /\ AskedCondition' /\ Faithful(tab) => Faithful(t)
  /\ Kind = "profiles" /\ "history" \notin did' /\ tab.stored = Url(tab).mine =>
       t.stored = Url(t).mine
  /\ "history" \notin did' /\ Aligned(tab) =>
       /\ Aligned(t) /\ (t.pager.there <=> tab.pager.there)
       /\ tab.pager.there \/ Url(t).page = Url(tab).page

LEMMA ResetThere ==
  ASSUME NEW t, TabOK(t)
  PROVE  Reset(t).pager.there <=> t.pager.there
<1>1. 1 \in Page /\ t.pager \in Pager
  BY PageTypes
<1>2. ASSUME NEW u, TabOK(u), NEW d \in BOOLEAN, NEW e \in BOOLEAN
      PROVE  SetPage(u, 1, d, e).pager.there <=> u.pager.there
  <2> DEFINE r == SetPage(u, 1, d, e)
  <2>1. u.pager \in Pager
    BY <1>2, PageTypes
  <2>2. CASE u.pager.page = 1
    <3>1. r = u
      BY <1>1, <1>2, <2>2, SetPageFacts
    <3> QED BY <3>1
  <2>3. CASE u.pager.page # 1
    <3>1. r.pager = WithPage(u.pager, 1)
      BY <1>1, <1>2, <2>3, SetPageFacts
    <3> QED BY <2>1, <3>1 DEF WithPage, Pager
  <2> QED BY <2>2, <2>3
<1> DEFINE n == [t EXCEPT !.page = 1]
<1>3. TabOK(n) /\ n.pager = t.pager
  BY <1>1, SetFields
<1>4. Reset(t) \in {t, n, SetPage(n, 1, FALSE, TRUE), SetPage(t, 1, TRUE, TRUE)}
  BY DEF Reset, ResetWorkflows, ResetItems, ResetCrawls, ResetProfiles
<1> HIDE DEF n
<1>5. /\ SetPage(n, 1, FALSE, TRUE).pager.there <=> n.pager.there
      /\ SetPage(t, 1, TRUE, TRUE).pager.there <=> t.pager.there
  BY <1>2, <1>3
<1> QED BY <1>3, <1>4, <1>5

LEMMA ActStep ==
  ASSUME ListInv, NEW a, Does(a), NEW t, Prepared(t), Updated(t), shown' = shown, live' = live
  PROVE  ListInv'
<1> DEFINE n == IF t.reset THEN Reset(t) ELSE t
<1>1. /\ TabOK(tab) /\ asked \in ArgValues /\ asked.page = tab.page
      /\ pending \in BOOLEAN /\ timer \in BOOLEAN /\ TabOK(t) /\ TellsPage(tab, t)
  BY DEF ListInv, Typed, Prepared
<1>2. /\ TabOK(tab') /\ ~tab'.dirty /\ ~tab'.reset
      /\ asked' \in ArgValues /\ asked'.page = tab'.page
      /\ pending' \in BOOLEAN /\ timer' \in BOOLEAN
      /\ pending' = TRUE \/ (pending' = pending /\ asked' = asked)
      /\ TellsAll(tab, t) /\ asked = Args(tab) => Plain(tab') /\ asked' = Args(tab')
      /\ Keeps(t, tab')
      /\ TabOK(n) /\ Apart(n, tab') /\ tab'.page = n.page /\ tab'.pager = n.pager
  BY <1>1, UpdatedFacts
<1>3. /\ setup' = setup /\ Kind' = Kind
      /\ NeverCleared' => NeverCleared
      /\ AskedCondition' => AskedCondition
      /\ AlignedCondition' => AlignedCondition
      /\ did \subseteq did'
      /\ "unpaged" \notin did' => tab.pager.there \/ Url(tab).page = 1
  BY Conditions
<1>4. n.pager.there => shown.there
  <2>1. n.pager.there <=> t.pager.there
    BY <1>1, ResetThere
  <2> QED BY <2>1 DEF ListInv, Typed, Prepared
<1>5. Typed'
  BY <1>2, <1>3, <1>4 DEF ListInv, Typed
<1>6. Current'
  <2>1. ~pending' /\ shown'.there => shown'.args = asked'
    BY <1>2 DEF ListInv, Current
  <2>2. NeverCleared' => Plain(tab') /\ asked' = Args(tab')
    BY <1>2, <1>3 DEF ListInv, Current, Prepared
  <2> QED BY <2>1, <2>2 DEF Current, Plain, Args, Norm
<1>7. AskedInv'
  <2>1. ASSUME AskedCondition'
        PROVE  Faithful(tab')
    BY <1>2, <1>3, <2>1 DEF ListInv, AskedInv, Prepared, Keeps
  <2>2. ASSUME AskedCondition', Kind = "profiles", Without({"history"})'
        PROVE  tab'.stored = Url(tab').mine
    <3>1. Without({"history"}) /\ "history" \notin did'
      BY <1>3, <2>2 DEF Without
    <3>2. tab.stored = Url(tab).mine
      BY <1>3, <2>2, <3>1 DEF ListInv, AskedInv
    <3> QED BY <1>2, <2>2, <3>1, <3>2 DEF Prepared, Keeps
  <2>3. Faithful(tab)' <=> Faithful(tab')
    BY <1>3, PrimeFaithful
  <2> QED BY <1>3, <2>1, <2>2, <2>3 DEF AskedInv, Url
<1>8. AlignedInv'
  <2> SUFFICES ASSUME AlignedCondition'
               PROVE  Aligned(tab')
    BY DEF AlignedInv, Aligned, Url
  <2>1. "history" \notin did' /\ Aligned(tab)
    BY <1>3 DEF ListInv, AlignedInv, AlignedCondition, Without
  <2>2. /\ Aligned(t) /\ (t.pager.there <=> tab.pager.there)
        /\ tab.pager.there \/ Url(t).page = Url(tab).page
    BY <2>1 DEF Prepared
  <2>3. Kind = "workflows" => t.pager.there \/ Url(t).page = 1
    BY <1>3, <2>2 DEF AlignedCondition, Without
  <2>4. Kind \in {"workflows", "items", "crawls"}
    BY <1>3, ListPageAssumption DEF AlignedCondition, ListInv, Typed, Kind
  <2>5. Aligned(n)
    BY <1>1, <2>2, <2>3, <2>4, ResetKeeps
  <2> HIDE DEF n
  <2> QED BY <1>2, <2>5 DEF Aligned, Apart, Url
<1> QED BY <1>5, <1>6, <1>7, <1>8 DEF ListInv

-----------------------------------------------------------------------------
(***************************************************************************)
(* The acts.                                                               *)
(***************************************************************************)
LEMMA PreparedTab ==
  ASSUME Typed
  PROVE  Prepared(tab)
  BY DEF Prepared, Typed, TellsPage, TellsAll

LEMMA PreparedSets ==
  ASSUME NEW t, Prepared(t), NEW f \in FilterValues, NEW p \in Params, p.page = Url(t).page,
         NeverCleared' /\ Plain(t) => f.tags # "undefined",
         AskedCondition' /\ Faithful(t) => Encodes(t, f, p),
         Kind = "profiles" => p.mine = f.mine
  PROVE  Prepared(Sets(t, f, p))
<1> DEFINE r == Sets(t, f, p)
<1>0. TabOK(t) /\ TellsPage(tab, t)
  BY DEF Prepared
<1>1. /\ TabOK(r) /\ TellsPage(tab, r)
      /\ TellsAll(tab, t) /\ f.tags # "undefined" => TellsAll(tab, r)
  BY <1>0, SetsTells
<1>2. AskedCondition' /\ Faithful(t) => Faithful(r)
  BY <1>0, SetsFaithful
<1>3. /\ r.pager.there <=> t.pager.there
      /\ Kind = "profiles" /\ t.stored = Url(t).mine => r.stored = Url(r).mine
  <2>1. CASE f = t.filters
    <3>1. SameElements(t, r) /\ Url(r) = Url(t)
      BY <1>0, <2>1, SetsNothing
    <3> HIDE DEF r
    <3> QED BY <3>1 DEF SameElements
  <2>2. CASE f # t.filters
    <3>1. /\ Url(r) = p
          /\ r.stored = IF Kind = "profiles" THEN f.mine ELSE t.stored
          /\ r.pager = WithPage(t.pager, IF p # Url(t) /\ Turned(t, p)
                                         THEN p.page ELSE t.pager.page)
      BY <1>0, <2>2, SetsFacts
    <3>2. t.pager \in Pager
      BY <1>0, PageTypes
    <3> HIDE DEF r
    <3> QED BY <3>1, <3>2 DEF WithPage, Pager
  <2> QED BY <2>1, <2>2
<1>4. Aligned(t) => Aligned(r) /\ Url(r).page = Url(t).page
  BY <1>0, SetsAligned
<1> HIDE DEF r
<1>5. NeverCleared' /\ Plain(tab) => TellsAll(tab, r)
  BY <1>1 DEF Prepared, TellsAll
<1>6. Prepared(r)
  BY <1>1, <1>2, <1>3, <1>4, <1>5 DEF Prepared
<1> QED BY <1>6 DEF r

LEMMA PreparedSorts ==
  ASSUME Typed, NEW sort \in SortValues, sort # tab.sort,
         AskedCondition' => sort.direction = DefaultDirection(sort.field)
  PROVE  Prepared(Sorts(tab, sort))
<1> DEFINE r == Sorts(tab, sort)
<1>0. TabOK(tab)
  BY DEF Typed
<1>1. /\ TabOK(r) /\ r.stored = tab.stored /\ Url(r).mine = Url(tab).mine
      /\ TellsPage(tab, r)
      /\ Plain(tab) => TellsAll(tab, r)
      /\ Aligned(tab) => Aligned(r) /\ Url(r).page = Url(tab).page
      /\ Faithful(tab) /\ sort.direction = DefaultDirection(sort.field) => Faithful(r)
  BY <1>0, SortsKeeps
<1>2. r.pager.there <=> tab.pager.there
  <2> DEFINE params == EncodeSort(sort, Url(tab))
  <2>1. r.pager = WithPage(tab.pager, IF params # Url(tab) /\ Turned(tab, params)
                                      THEN params.page ELSE tab.pager.page)
    BY <1>0, SortsFacts
  <2>2. tab.pager \in Pager
    BY <1>0, PageTypes
  <2> HIDE DEF r, params
  <2> QED BY <2>1, <2>2 DEF WithPage, Pager
<1> HIDE DEF r
<1>3. Prepared(r)
  BY <1>1, <1>2 DEF Prepared
<1> QED BY <1>3 DEF r

LEMMA EncoderFacts ==
  ASSUME NEW t, TabOK(t), NEW f \in FilterValues
  PROVE  /\ FilterEncoder(f, Url(t)) \in Params
         /\ FilterEncoder(f, Url(t)).page = Url(t).page
         /\ Kind = "profiles" => FilterEncoder(f, Url(t)).mine = f.mine
         /\ MineEncoder(f, Url(t)) \in Params
         /\ MineEncoder(f, Url(t)).page = Url(t).page
         /\ Kind = "profiles" => MineEncoder(f, Url(t)).mine = f.mine
         /\ TagsEncoder(f, Url(t)) \in Params
         /\ TagsEncoder(f, Url(t)).page = Url(t).page
         /\ Kind = "profiles" => TagsEncoder(f, Url(t)).mine = f.mine
         /\ Faithful(t) /\ ~f.status =>
              /\ f.mine = t.filters.mine /\ f.tags = t.filters.tags =>
                   Encodes(t, f, FilterEncoder(f, Url(t)))
              /\ f.search = t.filters.search /\ f.tags = t.filters.tags =>
                   Encodes(t, f, MineEncoder(f, Url(t)))
              /\ f.search = t.filters.search /\ f.mine = t.filters.mine =>
                   Encodes(t, f, TagsEncoder(f, Url(t)))
<1>1. Url(t) \in Params
  BY UrlType
<1>2. /\ EncodeFilterBy(f, Url(t)) \in Params
      /\ EncodeProfilesFilterBy(f, Url(t)) \in Params
      /\ EncodeMine(f, Url(t)) \in Params
      /\ EncodeTags(f, Url(t)) \in Params
  BY <1>1, CodecTypes
<1>3. /\ EncodeFilterBy(f, Url(t)).page = Url(t).page
      /\ EncodeMine(f, Url(t)).page = Url(t).page
      /\ EncodeTags(f, Url(t)).page = Url(t).page
      /\ EncodeProfilesFilterBy(f, Url(t)).page = Url(t).page
      /\ EncodeProfilesFilterBy(f, Url(t)).mine = f.mine
  BY <1>1, EncodersKeepPage
<1>4. Faithful(t) /\ ~f.status =>
        /\ f.mine = t.filters.mine /\ f.tags = t.filters.tags =>
             Encodes(t, f, EncodeFilterBy(f, Url(t)))
        /\ f.search = t.filters.search /\ f.tags = t.filters.tags =>
             Encodes(t, f, EncodeMine(f, Url(t)))
        /\ f.search = t.filters.search /\ f.mine = t.filters.mine =>
             Encodes(t, f, EncodeTags(f, Url(t)))
        /\ Encodes(t, f, EncodeProfilesFilterBy(f, Url(t)))
  BY EncodersFaithful
<1> QED BY <1>2, <1>3, <1>4 DEF FilterEncoder, MineEncoder, TagsEncoder

\* A faithful page has no status.
LEMMA FaithfulStatus ==
  ASSUME NEW t, TabOK(t), Faithful(t)
  PROVE  ~t.filters.status
<1>1. ~Url(t).status
  BY CurrentEntry
<1> QED BY <1>1 DEF Faithful, TabOK, Tab, FilterValues, Norm, Decode

LEMMA UserStep ==
  ASSUME ListInv, NEW a, Does(a), NEW f \in FilterValues, NEW p \in Params,
         p.page = Url(tab).page, Plain(tab) => f.tags # "undefined",
         AskedCondition' /\ Faithful(tab) => Encodes(tab, f, p),
         Kind = "profiles" => p.mine = f.mine,
         Updated(Sets(tab, f, p)), shown' = shown, live' = live
  PROVE  ListInv'
<1>1. Prepared(tab)
  BY PreparedTab DEF ListInv
<1>2. Prepared(Sets(tab, f, p))
  BY <1>1, PreparedSets
<1> QED BY <1>2, ActStep

LEMMA SearchStep ==
  ASSUME ListInv, ChangeSearch
  PROVE  ListInv'
<1> DEFINE f == [tab.filters EXCEPT !.search = ~@]
           p == FilterEncoder(f, Url(tab))
<1>1. Does("search") /\ Updated(Sets(tab, f, p)) /\ shown' = shown /\ live' = live
  BY DEF ChangeSearch, UserSets, SetFilters, Sets, Asks
<1>2. TabOK(tab)
  BY DEF ListInv, Typed
<1>3. /\ f \in FilterValues /\ f.mine = tab.filters.mine /\ f.tags = tab.filters.tags
      /\ f.status = tab.filters.status
  BY <1>2 DEF TabOK, Tab, FilterValues
<1> HIDE DEF f
<1>4. /\ p \in Params /\ p.page = Url(tab).page /\ (Kind = "profiles" => p.mine = f.mine)
      /\ Faithful(tab) => Encodes(tab, f, p)
  BY <1>2, <1>3, EncoderFacts, FaithfulStatus
<1> HIDE DEF p
<1> QED BY <1>1, <1>3, <1>4, UserStep DEF Plain

LEMMA StatusStep ==
  ASSUME ListInv, ChangeStatus
  PROVE  ListInv'
<1> DEFINE f == [tab.filters EXCEPT !.status = ~@]
           p == FilterEncoder(f, Url(tab))
<1>1. Does("status") /\ Updated(Sets(tab, f, p)) /\ shown' = shown /\ live' = live
  BY DEF ChangeStatus, UserSets, SetFilters, Sets, Asks
<1>2. TabOK(tab)
  BY DEF ListInv, Typed
<1>3. f \in FilterValues /\ f.tags = tab.filters.tags
  BY <1>2 DEF TabOK, Tab, FilterValues
<1> HIDE DEF f
<1>4. p \in Params /\ p.page = Url(tab).page /\ (Kind = "profiles" => p.mine = f.mine)
  BY <1>2, <1>3, EncoderFacts
<1>5. ~AskedCondition'
  <2>1. "status" \in did'
    BY <1>1, Conditions DEF Notable
  <2> QED BY <2>1 DEF AskedCondition, Without
<1> HIDE DEF p
<1> QED BY <1>1, <1>3, <1>4, <1>5, UserStep DEF Plain

LEMMA MineStep ==
  ASSUME ListInv, ChangeMine
  PROVE  ListInv'
<1> DEFINE f == [tab.filters EXCEPT !.mine = ~@]
           p == MineEncoder(f, Url(tab))
<1>1. Does("mine") /\ Updated(Sets(tab, f, p)) /\ shown' = shown /\ live' = live
  BY DEF ChangeMine, UserSets, SetFilters, Sets, Asks
<1>2. TabOK(tab)
  BY DEF ListInv, Typed
<1>3. /\ f \in FilterValues /\ f.search = tab.filters.search /\ f.tags = tab.filters.tags
      /\ f.status = tab.filters.status
  BY <1>2 DEF TabOK, Tab, FilterValues
<1> HIDE DEF f
<1>4. /\ p \in Params /\ p.page = Url(tab).page /\ (Kind = "profiles" => p.mine = f.mine)
      /\ Faithful(tab) => Encodes(tab, f, p)
  BY <1>2, <1>3, EncoderFacts, FaithfulStatus
<1> HIDE DEF p
<1> QED BY <1>1, <1>3, <1>4, UserStep DEF Plain

LEMMA TagsStep ==
  ASSUME ListInv, ChangeTags
  PROVE  ListInv'
<1> DEFINE f == [tab.filters EXCEPT !.tags = IF @ = "some" THEN "none" ELSE "some"]
           p == TagsEncoder(f, Url(tab))
<1>1. Does("tags") /\ Updated(Sets(tab, f, p)) /\ shown' = shown /\ live' = live
  BY DEF ChangeTags, UserSets, SetFilters, Sets, Asks
<1>2. TabOK(tab)
  BY DEF ListInv, Typed
<1>3. /\ f \in FilterValues /\ f.search = tab.filters.search /\ f.mine = tab.filters.mine
      /\ f.status = tab.filters.status /\ f.tags # "undefined"
  BY <1>2 DEF TabOK, Tab, FilterValues
<1> HIDE DEF f
<1>4. /\ p \in Params /\ p.page = Url(tab).page /\ (Kind = "profiles" => p.mine = f.mine)
      /\ Faithful(tab) => Encodes(tab, f, p)
  BY <1>2, <1>3, EncoderFacts, FaithfulStatus
<1> HIDE DEF p
<1> QED BY <1>1, <1>3, <1>4, UserStep DEF Plain

LEMMA SortStep ==
  ASSUME ListInv, NEW a, Does(a), NEW sort \in SortValues, sort # tab.sort,
         AskedCondition' => sort.direction = DefaultDirection(sort.field),
         Updated(Sorts(tab, sort)), shown' = shown, live' = live
  PROVE  ListInv'
<1>1. Typed
  BY DEF ListInv
<1>2. Prepared(Sorts(tab, sort))
  BY <1>1, PreparedSorts
<1> QED BY <1>2, ActStep

LEMMA FieldStep ==
  ASSUME ListInv, ChangeField
  PROVE  ListInv'
<1> DEFINE field == IF tab.sort.field = "other" THEN "default" ELSE "other"
           sort == [field |-> field, direction |-> DefaultDirection(field)]
<1>1. Does("field") /\ Updated(Sorts(tab, sort)) /\ shown' = shown /\ live' = live
  BY DEF ChangeField, Sorts
<1>2. tab.sort \in SortValues
  BY DEF ListInv, Typed, TabOK, Tab
<1>3. /\ sort \in SortValues /\ sort # tab.sort
      /\ sort.direction = DefaultDirection(sort.field)
  BY <1>2 DEF SortValues, Directions, DefaultDirection
<1> HIDE DEF sort
<1> QED BY <1>1, <1>3, SortStep

LEMMA DirectionStep ==
  ASSUME ListInv, ToggleDirection
  PROVE  ListInv'
<1> DEFINE sort == [tab.sort EXCEPT !.direction = IF @ = "asc" THEN "desc" ELSE "asc"]
<1>1. Does("direction") /\ Updated(Sorts(tab, sort)) /\ shown' = shown /\ live' = live
  BY DEF ToggleDirection, Sorts
<1>2. tab.sort \in SortValues
  BY DEF ListInv, Typed, TabOK, Tab
<1>3. sort \in SortValues /\ sort # tab.sort
  BY <1>2 DEF SortValues, Directions
<1>4. ~AskedCondition'
  <2>1. "direction" \in did'
    BY <1>1, Conditions DEF Notable
  <2> QED BY <2>1 DEF AskedCondition, Without
<1> HIDE DEF sort
<1> QED BY <1>1, <1>3, <1>4, SortStep

\* The filters are cleared one controller after the other.
Unsearched(t) == [t.filters EXCEPT !.search = FALSE, !.status = FALSE]
Shared(t) == [t.filters EXCEPT !.mine = FALSE]
Tagged(t, tags) == [t.filters EXCEPT !.tags = tags]
Cleared(t, tags) ==
  LET a == Sets(t, Unsearched(t), EncodeFilterBy(Unsearched(t), Url(t)))
      b == Sets(a, Shared(a), EncodeMine(Shared(a), Url(a))) IN
  Sets(b, Tagged(b, tags), EncodeTags(Tagged(b, tags), Url(b)))

LEMMA ClearedFilters ==
  ASSUME NEW t, TabOK(t), NEW tags \in {"none", "undefined"}
  PROVE  /\ Unsearched(t) \in FilterValues /\ Unsearched(t).mine = t.filters.mine
         /\ Unsearched(t).tags = t.filters.tags /\ ~Unsearched(t).status
         /\ Shared(t) \in FilterValues /\ Shared(t).search = t.filters.search
         /\ Shared(t).tags = t.filters.tags /\ Shared(t).status = t.filters.status
         /\ Tagged(t, tags) \in FilterValues /\ Tagged(t, tags).search = t.filters.search
         /\ Tagged(t, tags).mine = t.filters.mine /\ Tagged(t, tags).tags = tags
         /\ Tagged(t, tags).status = t.filters.status
  BY DEF Unsearched, Shared, Tagged, TabOK, Tab, FilterValues

LEMMA PreparedCleared ==
  ASSUME Typed, Kind # "profiles", NEW tags \in {"none", "undefined"},
         NeverCleared' => tags # "undefined"
  PROVE  Prepared(Cleared(tab, tags))
<1> DEFINE a == Sets(tab, Unsearched(tab), EncodeFilterBy(Unsearched(tab), Url(tab)))
           b == Sets(a, Shared(a), EncodeMine(Shared(a), Url(a)))
           c == Sets(b, Tagged(b, tags), EncodeTags(Tagged(b, tags), Url(b)))
<1>1. Cleared(tab, tags) = c
  BY DEF Cleared
<1>2. ASSUME NEW t, Prepared(t), NEW f \in FilterValues
      PROVE  /\ EncodeFilterBy(f, Url(t)) \in Params
             /\ EncodeFilterBy(f, Url(t)).page = Url(t).page
             /\ EncodeMine(f, Url(t)) \in Params
             /\ EncodeMine(f, Url(t)).page = Url(t).page
             /\ EncodeTags(f, Url(t)) \in Params
             /\ EncodeTags(f, Url(t)).page = Url(t).page
  <2>1. Url(t) \in Params
    BY <1>2, UrlType DEF Prepared
  <2> QED BY <1>2, <2>1, CodecTypes, EncodersKeepPage
<1>3. Prepared(a)
  <2> DEFINE f == Unsearched(tab)
             p == EncodeFilterBy(f, Url(tab))
  <2>1. Prepared(tab) /\ TabOK(tab)
    BY PreparedTab DEF Typed
  <2>2. /\ f \in FilterValues /\ f.mine = tab.filters.mine /\ f.tags = tab.filters.tags
        /\ ~f.status
    BY <2>1, ClearedFilters
  <2> HIDE DEF f
  <2>3. p \in Params /\ p.page = Url(tab).page
    BY <1>2, <2>1, <2>2
  <2>4. Faithful(tab) => Encodes(tab, f, p)
    BY <2>1, <2>2, EncodersFaithful
  <2> HIDE DEF p
  <2>5. Prepared(Sets(tab, f, p))
    BY <2>1, <2>2, <2>3, <2>4, PreparedSets DEF Plain
  <2> QED BY <2>5 DEF f, p
<1> HIDE DEF a
<1>4. Prepared(b)
  <2> DEFINE f == Shared(a)
             p == EncodeMine(f, Url(a))
  <2>1. TabOK(a)
    BY <1>3 DEF Prepared
  <2>2. /\ f \in FilterValues /\ f.search = a.filters.search /\ f.tags = a.filters.tags
        /\ f.status = a.filters.status
    BY <2>1, ClearedFilters
  <2> HIDE DEF f
  <2>3. p \in Params /\ p.page = Url(a).page
    BY <1>2, <1>3, <2>2
  <2>4. Faithful(a) => Encodes(a, f, p)
    BY <2>1, <2>2, EncodersFaithful, FaithfulStatus
  <2> HIDE DEF p
  <2>5. Prepared(Sets(a, f, p))
    BY <1>3, <2>2, <2>3, <2>4, PreparedSets DEF Plain
  <2> QED BY <2>5 DEF f, p
<1> HIDE DEF b
<1>5. Prepared(c)
  <2> DEFINE f == Tagged(b, tags)
             p == EncodeTags(f, Url(b))
  <2>1. TabOK(b)
    BY <1>4 DEF Prepared
  <2>2. /\ f \in FilterValues /\ f.search = b.filters.search /\ f.mine = b.filters.mine
        /\ f.tags = tags /\ f.status = b.filters.status
    BY <2>1, ClearedFilters
  <2> HIDE DEF f
  <2>3. p \in Params /\ p.page = Url(b).page
    BY <1>2, <1>4, <2>2
  <2>4. Faithful(b) => Encodes(b, f, p)
    BY <2>1, <2>2, EncodersFaithful, FaithfulStatus
  <2> HIDE DEF p
  <2>5. Prepared(Sets(b, f, p))
    BY <1>4, <2>2, <2>3, <2>4, PreparedSets
  <2> QED BY <2>5 DEF f, p
<1> QED BY <1>1, <1>5

LEMMA ClearStep ==
  ASSUME ListInv, ClearFilters
  PROVE  ListInv'
<1>1. Does("clear") /\ shown' = shown /\ live' = live /\ Typed
  BY DEF ClearFilters, ListInv
<1>2. "clear" \in did' /\ Kind' = Kind
  BY <1>1, Conditions DEF Notable
<1>3. CASE Kind = "workflows"
  <2>1. Updated(Cleared(tab, "undefined"))
    <3>1. Updated(ClearWorkflows(tab))
      BY <1>3 DEF ClearFilters
    <3>2. ClearWorkflows(tab) = Cleared(tab, "undefined")
      BY DEF ClearWorkflows, UserSets, SetFilters, Cleared, Sets, Asks, Unsearched, Shared,
             Tagged
    <3> QED BY <3>1, <3>2
  <2>2. ~NeverCleared'
    BY <1>2, <1>3 DEF NeverCleared, Without
  <2>3. Prepared(Cleared(tab, "undefined"))
    BY <1>1, <1>3, <2>2, PreparedCleared
  <2> QED BY <1>1, <2>1, <2>3, ActStep
<1>4. CASE Kind = "profiles"
  <2> DEFINE p == EncodeProfilesFilterBy(NoFilters, Url(tab))
  <2>1. Updated(Sets(tab, NoFilters, p))
    <3>1. Updated(ClearProfiles(tab))
      BY <1>4 DEF ClearFilters
    <3>2. ClearProfiles(tab) = Sets(tab, NoFilters, p)
      BY DEF ClearProfiles, UserSets, SetFilters, Sets, Asks
    <3> QED BY <3>1, <3>2
  <2>2. /\ NoFilters \in FilterValues /\ NoFilters.tags # "undefined"
        /\ ~NoFilters.status
    BY DEF NoFilters, FilterValues
  <2>3. TabOK(tab) /\ Url(tab) \in Params
    BY <1>1, UrlType DEF Typed
  <2>4. p \in Params /\ p.page = Url(tab).page /\ p.mine = NoFilters.mine
    BY <2>2, <2>3, CodecTypes, EncodersKeepPage
  <2>5. Faithful(tab) => Encodes(tab, NoFilters, p)
    BY <2>2, <2>3, EncodersFaithful
  <2> HIDE DEF p
  <2> QED BY <1>1, <2>1, <2>2, <2>4, <2>5, UserStep
<1>5. CASE Kind \notin {"workflows", "profiles"}
  <2>1. Updated(Cleared(tab, "none"))
    <3>1. Updated(ClearItems(tab))
      BY <1>5 DEF ClearFilters
    <3>2. ClearItems(tab) = Cleared(tab, "none")
      BY DEF ClearItems, UserSets, SetFilters, Cleared, Sets, Asks, Unsearched, Shared,
             Tagged
    <3> QED BY <3>1, <3>2
  <2>2. Prepared(Cleared(tab, "none"))
    BY <1>1, <1>5, PreparedCleared
  <2> QED BY <1>1, <2>1, <2>2, ActStep
<1> QED BY <1>3, <1>4, <1>5

LEMMA PageStep ==
  ASSUME ListInv, NEW page \in 1 .. Cardinality(Items), ClickPage(page)
  PROVE  ListInv'
<1> DEFINE yes == TRUE
           no == FALSE
           t == SetPage(tab, page, yes, no)
<1>1. /\ Does("page") /\ tab.pager.there /\ page # tab.pager.page
      /\ Updated(t) /\ shown' = shown /\ live' = live
  BY DEF ClickPage
<1>2. page \in Page /\ yes \in BOOLEAN /\ no \in BOOLEAN
  <2>1. page \in Int /\ page >= 1
    <3>1. Cardinality(Items) \in Nat
      BY ListPageAssumption, FS_CardinalityType
    <3> QED BY <3>1
  <2> QED BY <2>1 DEF Page
<1>3. TabOK(tab)
  BY DEF ListInv, Typed
<1>y. yes
  OBVIOUS
<1> HIDE DEF yes, no
<1>4. Keeps(tab, t) /\ (Aligned(tab) => Aligned(t) /\ t.pager.there)
  BY <1>1, <1>2, <1>3, SetPageKeeps, SetPageAligned
<1>5. /\ t.reset = tab.reset
      /\ t.pager = WithPage(tab.pager, page)
      /\ t.filters = tab.filters \/ t.filters = Decode(Url(tab))
      /\ t.dirty \/ t.page = tab.page
      /\ t.dirty \/ (t.filters = tab.filters /\ t.sort = tab.sort)
  <2> DEFINE goes == Url(tab).page # page
  <2>1. /\ t.reset = tab.reset
        /\ t.pager = WithPage(tab.pager, page)
        /\ t.page = IF yes \/ (goes /\ tab.pager.there) THEN page ELSE tab.page
        /\ t.filters = IF goes THEN Decode(Url(tab)) ELSE tab.filters
        /\ t.sort = IF goes THEN DecodeSort(Url(tab)) ELSE tab.sort
        /\ t.dirty <=> \/ tab.dirty \/ (yes /\ page # tab.page)
                       \/ goes /\ \/ Requests(tab.filters, Decode(Url(tab)))
                                  \/ tab.sort # DecodeSort(Url(tab)) \/ tab.pager.there
    BY <1>1, <1>2, <1>3, SetPageFacts
  <2> HIDE DEF t, goes
  <2> QED BY <1>1, <1>y, <2>1
<1> HIDE DEF t
<1>6. t.pager.there <=> tab.pager.there
  BY <1>3, <1>5, PageTypes DEF WithPage, Pager
<1>7. ~t.reset
  BY <1>5 DEF ListInv, Typed
<1>8. Plain(tab) => TellsAll(tab, t)
  BY <1>4, <1>5 DEF TellsAll, Keeps, Args
<1>9. Prepared(t)
  BY <1>1, <1>4, <1>5, <1>6, <1>7, <1>8 DEF Prepared, TellsPage, Keeps
<1> QED BY <1>1, <1>9, ActStep

LEMMA TraverseStep ==
  ASSUME ListInv, NEW to \in 1 .. Len(tab.history), NEW early \in BOOLEAN, Traverse(to, early)
  PROVE  ListInv'
<1> DEFINE params == tab.history[to].params
           n == Navigate(tab, params)
           before == Url(tab).page
           q == WithPage(n.pager, IF early THEN before ELSE n.pager.page)
           t == [n EXCEPT !.at = to, !.pager = q]
<1>1. Does("history") /\ to \in DOMAIN tab.history /\ shown' = shown /\ live' = live
  BY DEF Traverse
<1>2. Updated(t)
  BY DEF Traverse, WithPage
<1>3. /\ TabOK(tab) /\ ~tab.reset
  BY DEF ListInv, Typed
<1>4. tab.history[to] \in Entry /\ params \in Params /\ before \in Page
  <2>1. tab.history[to] \in Entry
    BY <1>1, <1>3 DEF TabOK, Tab
  <2> QED BY <1>3, <2>1, PageTypes DEF Entry
<1> HIDE DEF params, before
<1>5. /\ TabOK(n) /\ Navigated(tab, params, n)
      /\ n.history = tab.history /\ n.at = tab.at
      /\ n.stored = tab.stored /\ n.reset = tab.reset
  BY <1>3, <1>4, NavigateFacts
<1> HIDE DEF n
<1>6. q \in Pager /\ (q.there <=> n.pager.there)
  <2> DEFINE x == IF early THEN before ELSE n.pager.page
  <2>1. n.pager \in Pager /\ x \in Page
    BY <1>4, <1>5, PageTypes
  <2> HIDE DEF x
  <2>2. WithPage(n.pager, x) \in Pager /\ WithPage(n.pager, x).there = n.pager.there
    BY <2>1, PagerTypes
  <2> QED BY <2>2 DEF x
<1> HIDE DEF q
<1>7. /\ t \in Tab /\ t.history = n.history /\ t.at = to /\ t.stored = n.stored
      /\ t.filters = n.filters /\ t.sort = n.sort /\ t.page = n.page /\ t.pager = q
      /\ t.dirty = n.dirty /\ t.reset = n.reset
  <2>1. to \in Nat
    OBVIOUS
  <2> QED BY <1>5, <1>6, <2>1 DEF TabOK, Tab
<1> HIDE DEF t
<1>8. TabOK(t) /\ Url(t) = params
  BY <1>1, <1>5, <1>7 DEF TabOK, Url, params
<1>9. t.pager.there <=> tab.pager.there
  <2> DEFINE x == IF Turned(tab, params) THEN params.page ELSE tab.pager.page
  <2>1. tab.pager \in Pager /\ x \in Page /\ n.pager = WithPage(tab.pager, x)
    BY <1>3, <1>4, <1>5, PageTypes DEF Params, Navigated
  <2> HIDE DEF x
  <2>2. WithPage(tab.pager, x).there = tab.pager.there
    BY <2>1, PagerTypes
  <2>3. n.pager.there <=> tab.pager.there
    BY <2>1, <2>2
  <2> QED BY <1>6, <1>7, <2>3
<1>10. TellsPage(tab, t)
  BY <1>3, <1>5, <1>7 DEF TellsPage, Navigated
<1>11. Plain(tab) => TellsAll(tab, t)
  <2>1. Decode(params).tags # "undefined" /\ Decode(params) \in FilterValues
    BY <1>4, CodecTypes DEF Decode
  <2>2. Plain(tab) /\ ~t.dirty => tab.filters = Decode(params)
    BY <1>3, <1>5, <1>7, <2>1, RequestsChange DEF Navigated, Plain, TabOK, Tab
  <2> QED BY <1>5, <1>7, <2>1, <2>2 DEF TellsAll, Navigated, Plain, Args
<1>12. Faithful(tab) => Faithful(t)
  <2>1. Entries(t) = Entries(tab)
    BY <1>5, <1>7 DEF Entries
  <2>2. Norm(t.filters) = Decode(params) /\ t.sort = DecodeSort(params)
    BY <1>4, <1>5, <1>7, NormDecode DEF Navigated
  <2> QED BY <1>8, <2>1, <2>2 DEF Faithful
<1>13. "history" \in did'
  BY <1>1, Conditions DEF Notable
<1>14. Prepared(t)
  BY <1>8, <1>9, <1>10, <1>11, <1>12, <1>13 DEF Prepared
<1> QED BY <1>1, <1>2, <1>14, ActStep

LEMMA ReloadStep ==
  ASSUME ListInv, Reload
  PROVE  ListInv'
<1> DEFINE o == Open(tab.history, tab.at, tab.stored)
           p == tab.history[tab.at].params
<1>1. /\ Does("reload") /\ tab' = o /\ shown' = NothingShown /\ live' = live
      /\ asked' = Args(o) /\ pending' = TRUE /\ timer' = FALSE
  BY DEF Reload, Runs, Args, Norm
<1>2. TabOK(tab) /\ tab.history \in Seq(Entry) /\ tab.at \in DOMAIN tab.history
      /\ tab.stored \in BOOLEAN
  BY DEF ListInv, Typed, TabOK, Tab
<1>3. /\ TabOK(o) /\ Fresh(o) /\ ~o.dirty /\ ~o.reset
      /\ \/ Kind = "workflows"
         \/ Kind = "profiles" /\ tab.stored = p.mine
         \/ Kind \in {"items", "crawls"} /\ ~p.search /\ ~p.status /\ tab.stored = p.mine
         => /\ o.history = tab.history /\ o.at = tab.at /\ o.stored = tab.stored
            /\ o.filters = Decode(p) /\ o.sort = DecodeSort(p)
  BY <1>2, OpenFacts
<1> HIDE DEF o
<1>4. /\ setup' = setup /\ Kind' = Kind /\ "reload" \in did' /\ did \subseteq did'
      /\ AskedCondition' => AskedCondition
  BY <1>1, Conditions DEF Notable
<1>5. NothingShown \in [there : BOOLEAN, args : ArgValues, total : Nat] /\ ~NothingShown.there
  BY DEF NothingShown, ArgValues, NoFilters, PlainFilters, DefaultSort, SortValues, Directions,
         Page
<1>6. Typed'
  <2>1. Args(o) \in ArgValues /\ Args(o).page = o.page
    BY <1>3, ArgsFacts
  <2>2. setup' \in Setups /\ live' \subseteq Items
    BY <1>1, <1>4 DEF ListInv, Typed
  <2> QED BY <1>1, <1>3, <1>5, <2>1, <2>2 DEF Typed, Fresh
<1>7. Current'
  <2>1. Plain(tab') /\ asked' = Args(tab')
    BY <1>1, <1>3 DEF Fresh
  <2> QED BY <1>1, <2>1 DEF Current, Plain, Args, Norm
<1>8. AskedInv'
  <2> SUFFICES ASSUME AskedCondition'
               PROVE  /\ Faithful(tab)'
                      /\ Kind = "profiles" /\ "history" \notin did' =>
                           tab'.stored = Url(tab').mine
    BY <1>4 DEF AskedInv, Without, Url
  <2>1. Kind \notin {"items", "crawls"}
    BY <1>4 DEF AskedCondition, Without
  <2>2. Kind \in {"workflows", "profiles"}
    BY <2>1, ListPageAssumption DEF ListInv, Typed, Kind
  <2>3. Faithful(tab)
    BY <1>4 DEF ListInv, AskedInv
  <2>4. Kind = "profiles" => tab.stored = p.mine
    <3>1. Kind = "profiles" => Without({"history"})
      BY <1>4 DEF AskedCondition, Without
    <3> QED BY <1>4, <3>1 DEF ListInv, AskedInv, Url
  <2>5. /\ o.history = tab.history /\ o.at = tab.at /\ o.stored = tab.stored
        /\ o.filters = Decode(p) /\ o.sort = DecodeSort(p)
    BY <1>3, <2>2, <2>4
  <2>6. Url(o) = p /\ Entries(o) = Entries(tab)
    BY <2>5 DEF Url, Entries
  <2>7. Norm(Decode(p)) = Decode(p)
    BY <1>2, UrlType, NormDecode DEF Url
  <2>8. Faithful(o)
    BY <2>3, <2>5, <2>6, <2>7 DEF Faithful
  <2>9. Faithful(tab)'
    BY <1>1, <1>4, <2>8, PrimeFaithful
  <2> QED BY <1>1, <2>4, <2>5, <2>6, <2>9
<1>9. AlignedInv'
  <2>1. Aligned(tab')
    BY <1>1, <1>3 DEF Fresh, Aligned
  <2> QED BY <2>1 DEF AlignedInv, Aligned, Url
<1> QED BY <1>6, <1>7, <1>8, <1>9 DEF ListInv

LEMMA DeleteStep ==
  ASSUME ListInv, NEW item \in Items, DeleteItem(item)
  PROVE  ListInv'
<1> DEFINE t == IF Kind = "profiles" THEN [tab EXCEPT !.page = 1] ELSE tab
<1>1. /\ Does("delete") /\ tab' = t /\ shown' = shown /\ live' = live \ {item}
      /\ asked' = Args(t) /\ pending' = TRUE /\ timer' = FALSE
  BY DEF DeleteItem, Runs, Args, Norm
<1>2. TabOK(tab) /\ ~tab.dirty /\ ~tab.reset
  BY DEF ListInv, Typed
<1>3. TabOK(t) /\ Apart(tab, t) /\ t.pager = tab.pager /\ ~t.dirty /\ ~t.reset
  <2>1. 1 \in Page /\ tab.pager \in Pager
    BY <1>2, PageTypes
  <2> DEFINE r == [tab EXCEPT !.page = 1]
  <2>2. /\ TabOK(r) /\ Apart(tab, r) /\ r.pager = tab.pager
        /\ r.dirty = tab.dirty /\ r.reset = tab.reset
    BY <1>2, <2>1, SetFields
  <2>3. t \in {r, tab}
    OBVIOUS
  <2> HIDE DEF r, t
  <2> QED BY <1>2, <2>2, <2>3 DEF Apart
<1>4. Kind # "profiles" => t = tab
  OBVIOUS
<1> HIDE DEF t
<1>5. Keeps(tab, t)
  BY <1>2, <1>3, ApartKeeps
<1>6. /\ setup' = setup /\ Kind' = Kind /\ did \subseteq did'
      /\ NeverCleared' => NeverCleared
      /\ AskedCondition' => AskedCondition
      /\ AlignedCondition' => AlignedCondition
  BY <1>1, Conditions
<1>7. Typed'
  <2>1. Args(t) \in ArgValues /\ Args(t).page = t.page
    BY <1>3, ArgsFacts
  <2> QED BY <1>1, <1>3, <1>6, <2>1 DEF ListInv, Typed
<1>8. Current'
  <2>1. asked' = Args(tab') /\ (NeverCleared' => Plain(tab'))
    BY <1>1, <1>5, <1>6 DEF Keeps, ListInv, Current
  <2> QED BY <1>1, <2>1 DEF Current, Plain, Args, Norm
<1>9. AskedInv'
  <2>1. AskedCondition' => Faithful(tab)'
    BY <1>1, <1>5, <1>6, PrimeFaithful DEF ListInv, AskedInv, Keeps
  <2>2. AskedCondition' /\ Kind' = "profiles" /\ Without({"history"})' =>
          tab'.stored = Url(tab').mine
    BY <1>1, <1>5, <1>6 DEF ListInv, AskedInv, Keeps, Without
  <2> QED BY <2>1, <2>2 DEF AskedInv, Url
<1>10. AlignedInv'
  <2>1. AlignedCondition' => Aligned(tab')
    BY <1>1, <1>4, <1>6 DEF ListInv, AlignedInv, AlignedCondition
  <2> QED BY <2>1 DEF AlignedInv, Aligned, Url
<1> QED BY <1>7, <1>8, <1>9, <1>10 DEF ListInv

-----------------------------------------------------------------------------
(***************************************************************************)
(* The task.                                                               *)
(***************************************************************************)
LEMMA SameConditions ==
  ASSUME setup' = setup, did \subseteq did'
  PROVE  /\ Kind' = Kind
         /\ NeverCleared' => NeverCleared
         /\ AskedCondition' => AskedCondition
         /\ AlignedCondition' => AlignedCondition
         /\ Without({"history"})' => Without({"history"})
<1>2. Kind' = Kind
  BY DEF Kind
<1>3. \A set : did' \intersect set = {} => did \intersect set = {}
  OBVIOUS
<1>6. NeverCleared' => NeverCleared
  BY <1>2, <1>3 DEF NeverCleared, Without
<1>7. AskedCondition' => AskedCondition
  BY <1>2, <1>3 DEF AskedCondition, Without
<1>8. AlignedCondition' => AlignedCondition
  BY <1>2, <1>3 DEF AlignedCondition, Without
<1> QED BY <1>2, <1>3, <1>6, <1>7, <1>8 DEF Without

LEMMA EndedStep ==
  ASSUME ListInv, setup' = setup, did \subseteq did', live' = live,
         NEW t, Keeps(tab, t), Aligned(tab) => Aligned(t), t.pager.there => shown'.there,
         shown' \in [there : BOOLEAN, args : ArgValues, total : Nat],
         shown'.there => shown'.args = asked, NEW polls \in BOOLEAN, Ended(t, polls)
  PROVE  ListInv'
<1> DEFINE c == [t EXCEPT !.dirty = FALSE, !.reset = FALSE]
<1>1. /\ tab' = c
      /\ IF Args(t) # asked THEN Runs(Args(t))
         ELSE pending' = FALSE /\ timer' = polls /\ asked' = asked
  BY DEF Ended
<1>2. /\ TabOK(c) /\ Apart(t, c) /\ c.page = t.page /\ c.pager = t.pager
      /\ ~c.dirty /\ ~c.reset
  <2>1. TabOK(t) /\ t.page \in Page /\ t.pager \in Pager
    BY PageTypes DEF Keeps
  <2> QED BY <2>1, SetFields
<1> HIDE DEF c
<1>3. Keeps(tab, c) /\ Args(c) = Args(t) /\ (Aligned(t) => Aligned(c))
  <2>1. Keeps(t, c)
    BY <1>2, ApartKeeps DEF Keeps
  <2>2. Args(c) = Args(t) /\ (Aligned(t) => Aligned(c))
    BY <1>2 DEF Args, Apart, Aligned, Url
  <2> QED BY <2>1, <2>2, KeepsTransitive
<1>4. asked' = Args(c) /\ pending' \in BOOLEAN /\ timer' \in BOOLEAN
  BY <1>1, <1>3 DEF Runs
<1>5. ~pending' => asked' = asked
  BY <1>1 DEF Runs
<1>6. /\ Kind' = Kind
      /\ NeverCleared' => NeverCleared
      /\ AskedCondition' => AskedCondition
      /\ AlignedCondition' => AlignedCondition
      /\ Without({"history"})' => Without({"history"})
  BY SameConditions
<1>7. Typed'
  <2>1. Args(c) \in ArgValues /\ Args(c).page = c.page
    BY <1>2, ArgsFacts
  <2> QED BY <1>1, <1>2, <1>4, <2>1 DEF ListInv, Typed
<1>8. Current'
  <2>1. NeverCleared' => Plain(tab') /\ asked' = Args(tab')
    BY <1>1, <1>3, <1>4, <1>6 DEF Keeps, ListInv, Current
  <2> QED BY <1>5, <2>1 DEF Current, Plain, Args, Norm
<1>9. AskedInv'
  <2>1. AskedCondition' => Faithful(tab)'
    BY <1>1, <1>3, <1>6, PrimeFaithful DEF ListInv, AskedInv, Keeps
  <2>2. AskedCondition' /\ Kind' = "profiles" /\ Without({"history"})' =>
          tab'.stored = Url(tab').mine
    BY <1>1, <1>3, <1>6 DEF ListInv, AskedInv, Keeps
  <2> QED BY <2>1, <2>2 DEF AskedInv, Url
<1>10. AlignedInv'
  <2>1. AlignedCondition' => Aligned(tab')
    BY <1>1, <1>3, <1>6 DEF ListInv, AlignedInv
  <2> QED BY <2>1 DEF AlignedInv, Aligned, Url
<1> QED BY <1>7, <1>8, <1>9, <1>10 DEF ListInv

LEMMA MatchingFinite ==
  ASSUME live \subseteq Items, NEW args
  PROVE  /\ IsFiniteSet(Matching(args)) /\ Cardinality(Matching(args)) \in Nat
         /\ Cardinality(Matching(args)) <= Cardinality(Items) /\ Cardinality(Items) \in Nat
<1>1. Matching(args) \subseteq Items
  BY DEF Matching
<1> QED BY <1>1, ListPageAssumption, FS_Subset, FS_CardinalityType

LEMMA ArriveStep ==
  ASSUME ListInv, Arrive
  PROVE  ListInv'
<1> DEFINE total == Cardinality(Matching(asked))
           t == Render(tab, asked.page, total)
           polls == Kind # "profiles"
<1>1. /\ shown' = [there |-> TRUE, args |-> asked, total |-> total]
      /\ Ended(t, polls) /\ setup' = setup /\ live' = live /\ did' = did
  BY DEF Arrive
<1>2. /\ total \in Nat /\ TabOK(tab) /\ asked \in ArgValues /\ asked.page \in Page
      /\ asked.page = tab.page
  BY MatchingFinite DEF ListInv, Typed, ArgValues
<1>3. polls \in BOOLEAN
  OBVIOUS
<1> HIDE DEF total, polls
<1>4. Keeps(tab, t) /\ (Aligned(tab) => Aligned(t))
  BY <1>2, RenderKeeps
<1> HIDE DEF t
<1>5. /\ shown' \in [there : BOOLEAN, args : ArgValues, total : Nat]
      /\ shown'.there /\ shown'.args = asked
  BY <1>1, <1>2
<1> QED BY <1>1, <1>3, <1>4, <1>5, EndedStep

LEMMA FailStep ==
  ASSUME ListInv, Fail
  PROVE  ListInv'
<1> DEFINE t == [tab EXCEPT !.pager = NoPager]
           polls == FALSE
<1>1. /\ shown' = NothingShown
      /\ Ended(t, polls) /\ setup' = setup /\ live' = live /\ did \subseteq did'
  BY DEF Fail
<1>2. TabOK(tab) /\ tab.page \in Page /\ NoPager \in Pager
  BY PageTypes DEF ListInv, Typed
<1>3. TabOK(t) /\ Apart(tab, t) /\ t.page = tab.page /\ t.pager = NoPager
  BY <1>2, SetFields
<1> HIDE DEF t
<1>4. Keeps(tab, t) /\ ~t.pager.there /\ (Aligned(tab) => Aligned(t))
  <2>1. Keeps(tab, t)
    BY <1>2, <1>3, ApartKeeps
  <2>2. ~t.pager.there
    BY <1>3 DEF NoPager
  <2> QED BY <1>3, <2>1, <2>2 DEF Aligned, Apart, Url
<1>5. NothingShown \in [there : BOOLEAN, args : ArgValues, total : Nat] /\ ~NothingShown.there
  BY DEF NothingShown, ArgValues, NoFilters, PlainFilters, DefaultSort, SortValues, Directions,
         Page
<1>6. polls \in BOOLEAN
  OBVIOUS
<1> HIDE DEF polls
<1> QED BY <1>1, <1>4, <1>5, <1>6, EndedStep

LEMMA PollStep ==
  ASSUME ListInv, Poll
  PROVE  ListInv'
<1>1. /\ tab' = tab /\ setup' = setup /\ shown' = shown /\ live' = live /\ did' = did
      /\ asked' = Args(tab) /\ pending' = TRUE /\ timer' = FALSE
  BY DEF Poll, Runs
<1>2. Args(tab) \in ArgValues /\ Args(tab).page = tab.page
  BY ArgsFacts DEF ListInv, Typed
<1>3. Typed'
  BY <1>1, <1>2 DEF ListInv, Typed
<1>4. Current'
  BY <1>1 DEF ListInv, Current, NeverCleared, Without, Kind, Plain, Args, Norm
<1>5. AskedInv'
  <2>1. Faithful(tab)' <=> Faithful(tab)
    BY <1>1, PrimeFaithful
  <2> QED BY <1>1, <2>1 DEF ListInv, AskedInv, AskedCondition, Without, Kind, Url
<1>6. AlignedInv'
  BY <1>1 DEF ListInv, AlignedInv, AlignedCondition, Without, Kind, Aligned, Url
<1> QED BY <1>3, <1>4, <1>5, <1>6 DEF ListInv

-----------------------------------------------------------------------------
(***************************************************************************)
(* The invariant, and what it says.                                        *)
(***************************************************************************)
FirstEntry == [params |-> NoParams, wanted |-> [filters |-> NoFilters, sort |-> DefaultSort]]

LEMMA FirstHistory ==
  /\ FirstEntry \in Entry /\ EntryOK(FirstEntry)
  /\ <<FirstEntry>> \in Seq(Entry) /\ 1 \in DOMAIN <<FirstEntry>>
  /\ <<FirstEntry>>[1] = FirstEntry /\ DOMAIN <<FirstEntry>> = {1}
<1>1. NoParams \in Params
  BY DEF NoParams, Params, Directions, Page
<1>2. NoFilters \in PlainFilters /\ DefaultSort \in SortValues
  BY DEF NoFilters, PlainFilters, DefaultSort, SortValues, Directions
<1>3. FirstEntry \in Entry
  BY <1>1, <1>2 DEF FirstEntry, Entry
<1>4. EntryOK(FirstEntry)
  BY DEF EntryOK, FirstEntry, NoParams, NoFilters, Decode, DecodeSort
<1> HIDE DEF FirstEntry
<1> QED BY <1>3, <1>4

LEMMA OpenFirst ==
  LET o == Open(<<FirstEntry>>, 1, FALSE) IN
  /\ setup \in Setups
  => /\ TabOK(o) /\ Fresh(o) /\ ~o.dirty /\ ~o.reset
     /\ o.history = <<FirstEntry>> /\ o.at = 1 /\ ~o.stored
     /\ o.filters = Decode(NoParams) /\ o.sort = DecodeSort(NoParams)
<1> DEFINE h == <<FirstEntry>>
           no == FALSE
           o == Open(h, 1, no)
           p == h[1].params
<1>1. h \in Seq(Entry) /\ 1 \in DOMAIN h /\ no \in BOOLEAN
  BY FirstHistory
<1>2. p = NoParams
  BY FirstHistory DEF FirstEntry
<1>3. ~p.search /\ ~p.status /\ no = p.mine /\ ~no
  <2>1. ~NoParams.search /\ ~NoParams.status /\ NoParams.mine = FALSE
    BY DEF NoParams
  <2> HIDE DEF p
  <2> QED BY <1>2, <2>1
<1>4. setup \in Setups => Kind \in {"workflows", "items", "crawls", "profiles"}
  BY ListPageAssumption DEF Kind
<1> HIDE DEF no, h
<1>5. /\ TabOK(o) /\ Fresh(o) /\ ~o.dirty /\ ~o.reset
      /\ \/ Kind = "workflows"
         \/ Kind = "profiles" /\ no = p.mine
         \/ Kind \in {"items", "crawls"} /\ ~p.search /\ ~p.status /\ no = p.mine
         => /\ o.history = h /\ o.at = 1 /\ o.stored = no
            /\ o.filters = Decode(p) /\ o.sort = DecodeSort(p)
  BY <1>1, OpenFacts
<1> HIDE DEF o, p
<1>6. setup \in Setups => /\ o.history = h /\ o.at = 1 /\ ~o.stored
                          /\ o.filters = Decode(p) /\ o.sort = DecodeSort(p)
  BY <1>3, <1>4, <1>5
<1> QED BY <1>2, <1>5, <1>6 DEF o, h, no

LEMMA InitInv ==
  ASSUME Init
  PROVE  ListInv
<1> DEFINE o == Open(<<FirstEntry>>, 1, FALSE)
<1>1. /\ setup \in Setups /\ tab = o /\ asked = Args(tab) /\ pending = TRUE /\ timer = FALSE
      /\ shown = NothingShown /\ live = Items /\ did = {}
  BY DEF Init, FirstEntry
<1>2. /\ TabOK(o) /\ Fresh(o) /\ ~o.dirty /\ ~o.reset
      /\ o.history = <<FirstEntry>> /\ o.at = 1 /\ ~o.stored
      /\ o.filters = Decode(NoParams) /\ o.sort = DecodeSort(NoParams)
  BY <1>1, OpenFirst
<1> HIDE DEF o
<1>3. NothingShown \in [there : BOOLEAN, args : ArgValues, total : Nat] /\ ~NothingShown.there
  BY DEF NothingShown, ArgValues, NoFilters, PlainFilters, DefaultSort, SortValues, Directions,
         Page
<1>4. Typed
  <2>1. Args(o) \in ArgValues /\ Args(o).page = o.page
    BY <1>2, ArgsFacts
  <2> QED BY <1>1, <1>2, <1>3, <2>1 DEF Typed, Fresh
<1>5. Current
  BY <1>1, <1>2 DEF Current, Fresh
<1>6. Url(tab) = NoParams
  BY <1>1, <1>2, FirstHistory DEF Url, FirstEntry
<1>7. AskedInv
  <2>1. Entries(tab) = {FirstEntry}
    BY <1>1, <1>2, FirstHistory DEF Entries
  <2>2. NoParams \in Params
    BY <1>1, <1>2, <1>6, UrlType
  <2>3. Norm(Decode(NoParams)) = Decode(NoParams)
    BY <2>2, NormDecode
  <2>4. Faithful(tab)
    BY <1>1, <1>2, <1>6, <2>1, <2>3, FirstHistory DEF Faithful
  <2>5. tab.stored = NoParams.mine
    BY <1>1, <1>2 DEF NoParams, TabOK, Tab
  <2> QED BY <1>6, <2>4, <2>5 DEF AskedInv
<1>8. AlignedInv
  BY <1>1, <1>2 DEF AlignedInv, Aligned, Fresh
<1> QED BY <1>4, <1>5, <1>7, <1>8 DEF ListInv

LEMMA NextInv ==
  ASSUME ListInv, [Next]_vars
  PROVE  ListInv'
<1>1. CASE Reload
  BY <1>1, ReloadStep
<1>2. CASE ChangeSearch
  BY <1>2, SearchStep
<1>3. CASE ChangeStatus
  BY <1>3, StatusStep
<1>4. CASE ChangeMine
  BY <1>4, MineStep
<1>5. CASE ChangeTags
  BY <1>5, TagsStep
<1>6. CASE ChangeField
  BY <1>6, FieldStep
<1>7. CASE ToggleDirection
  BY <1>7, DirectionStep
<1>8. CASE ClearFilters
  BY <1>8, ClearStep
<1>9. CASE \E page \in 1 .. Cardinality(Items) : ClickPage(page)
  BY <1>9, PageStep
<1>10. CASE \E to \in 1 .. Len(tab.history), early \in BOOLEAN : Traverse(to, early)
  BY <1>10, TraverseStep
<1>11. CASE \E item \in Items : DeleteItem(item)
  BY <1>11, DeleteStep
<1>12. CASE Arrive
  BY <1>12, ArriveStep
<1>13. CASE Fail
  BY <1>13, FailStep
<1>14. CASE Poll
  BY <1>14, PollStep
<1>15. CASE UNCHANGED vars
  <2>1. Faithful(tab)' <=> Faithful(tab)
    BY <1>15, PrimeFaithful DEF vars
  <2> QED BY <1>15, <2>1 DEF vars, ListInv, Typed, Current, NeverCleared, Without, Kind, Plain, Args, Norm,
           AskedInv, AskedCondition, Url, AlignedInv, AlignedCondition, Aligned
<1> QED BY <1>1, <1>2, <1>3, <1>4, <1>5, <1>6, <1>7, <1>8, <1>9, <1>10, <1>11, <1>12, <1>13,
           <1>14, <1>15 DEF Next

LEMMA InvAsAsked ==
  ASSUME ListInv
  PROVE  ListAsAsked
<1>1. TypeOK
  BY DEF ListInv, Typed, TabOK, Tab, TypeOK, FilterValues, SortValues, Pager, Page
<1>2. AsAsked
  <2> SUFFICES ASSUME AskedCondition
               PROVE  [filters |-> Norm(tab.filters), sort |-> tab.sort] = Wanted(tab)
    BY DEF AsAsked, AskedCondition
  <2>1. TabOK(tab) /\ Faithful(tab)
    BY DEF ListInv, Typed, AskedInv
  <2>2. Wanted(tab).filters = Norm(tab.filters) /\ Wanted(tab).sort = tab.sort
    BY <2>1, CurrentEntry DEF Faithful
  <2>3. Wanted(tab) \in [filters : PlainFilters, sort : SortValues]
    BY <2>1, UrlType DEF Wanted, Entry
  <2> QED BY <2>2, <2>3
<1>3. ListIsCurrent
  BY DEF ListInv, Current, NeverCleared, ListIsCurrent
<1> QED BY <1>1, <1>2, <1>3 DEF ListAsAsked

LEMMA InvPager ==
  ASSUME ListInv
  PROVE  PagerShowsPage
<1> SUFFICES ASSUME ~pending, tab.pager.there, AlignedCondition
             PROVE  tab.pager.page = shown.args.page /\ Url(tab).page = shown.args.page
  BY DEF PagerShowsPage, AlignedCondition
<1>1. Aligned(tab) /\ shown.args = asked /\ asked.page = tab.page
  BY DEF ListInv, AlignedInv, Typed, Current
<1> QED BY <1>1 DEF Aligned

LEMMA ListInvariant == Spec => []ListInv
<1>1. Init => ListInv
  BY InitInv
<1>2. ListInv /\ [Next]_vars => ListInv'
  BY NextInv
<1> QED BY <1>1, <1>2, PTL DEF Spec

\* The filters and the order in force are those the user asked for at this entry
\* of the history (SearchParamsValue encodes what it decodes again), and a list at
\* rest is the result of a run with them (the arguments of the page's task), with
\* the exceptions AsAsked and ListIsCurrent make.
THEOREM ListAsAskedSafe == Spec => []ListAsAsked
<1>1. ListInv => ListAsAsked
  BY InvAsAsked
<1> QED BY <1>1, ListInvariant, PTL

-----------------------------------------------------------------------------
(***************************************************************************)
(* The page exists.  For a user who waits, every entry of the history has a*)
(* page of the list its filters give, however the user came there; the     *)
(* pager, which is told of a page before the list is, is the one of the    *)
(* list again when the list is at rest.                                    *)
(***************************************************************************)
Passes(item, filters) ==
  /\ filters.mine => item \in MineItems
  /\ filters.tags = "some" => item \in TagItems
  /\ filters.status => item \in StatusItems
  /\ filters.search => item \in NamedItems
Count(filters) == Cardinality({item \in Items : Passes(item, filters)})

Exists(params) ==
  ~params.status /\ (params.page = 1 \/ params.page <= Pages(Count(Decode(params))))
AllExist(t) == \A e \in Entries(t) : Exists(e.params)

Bounded(t) ==
  /\ AllExist(t)
  /\ t.filters = Decode(Url(t)) /\ ~t.stored
  /\ t.page = 1 \/ t.page = Url(t).page
  /\ t.pager.there /\ t.pager.attribute = t.page /\ t.page # 1 =>
       t.pager.page = Url(t).page

AtRest ==
  /\ shown.there /\ shown.total = Count(tab.filters)
  /\ tab.pager.there <=> HasPager(shown.total)
  /\ tab.pager.there => tab.pager.total = shown.total /\ tab.pager.attribute = tab.page
  /\ tab.page # 1 => tab.pager.there /\ tab.pager.page = Url(tab).page

BoundedCondition ==
  Kind # "profiles" /\ did \subseteq {"direction", "reload", "history", "unpaged"}
BoundsInv ==
  BoundedCondition => live = Items /\ Bounded(tab) /\ (~pending => AtRest)

LEMMA CountFacts ==
  ASSUME NEW f
  PROVE  /\ Count(f) \in Nat
         /\ \A g : (\A item \in Items : Passes(item, f) => Passes(item, g)) =>
              Count(f) <= Count(g)
         /\ \A args : live = Items /\ args.filters = f =>
              Cardinality(Matching(args)) = Count(f)
<1> DEFINE S(g) == {item \in Items : Passes(item, g)}
<1>1. \A g : IsFiniteSet(S(g)) /\ Cardinality(S(g)) \in Nat
  <2>1. \A g : S(g) \subseteq Items
    OBVIOUS
  <2> HIDE DEF S
  <2> QED BY <2>1, ListPageAssumption, FS_Subset, FS_CardinalityType
<1>2. ASSUME NEW g, \A item \in Items : Passes(item, f) => Passes(item, g)
      PROVE  Cardinality(S(f)) <= Cardinality(S(g))
  <2>1. S(f) \subseteq S(g)
    BY <1>2
  <2> HIDE DEF S
  <2> QED BY <1>1, <2>1, FS_Subset
<1>3. ASSUME NEW args, live = Items, args.filters = f
      PROVE  Matching(args) = S(f)
  BY <1>3 DEF Matching, Passes
<1> QED BY <1>1, <1>2, <1>3 DEF Count

LEMMA ExistAll ==
  ASSUME NEW t, NEW g, TabOK(g), OthersFrom(t, g), AllExist(t), Exists(Url(g))
  PROVE  AllExist(g)
<1> SUFFICES ASSUME NEW i \in DOMAIN g.history
             PROVE  Exists(g.history[i].params)
  BY DEF AllExist, Entries
<1>1. CASE i = g.at
  BY <1>1 DEF Url
<1>2. CASE i # g.at
  BY <1>2 DEF OthersFrom, AllExist
<1> QED BY <1>1, <1>2

LEMMA UrlExists ==
  ASSUME NEW t, TabOK(t), AllExist(t)
  PROVE  Exists(Url(t))
<1>1. t.history[t.at] \in Entries(t)
  BY CurrentEntry
<1> QED BY <1>1 DEF AllExist, Url

\* Another page with the same filters.
LEMMA ExistsPage ==
  ASSUME NEW params \in Params, ~params.status, NEW page \in Page,
         page = 1 \/ page <= Pages(Count(Decode(params)))
  PROVE  Exists(WithPage(params, page)) /\ Decode(WithPage(params, page)) = Decode(params)
<1> DEFINE p == WithPage(params, page)
<1>1. p.page = page /\ Decode(p) = Decode(params) /\ p.status = params.status
  BY UrlPage
<1> HIDE DEF p
<1>2. Exists(p)
  BY <1>1 DEF Exists
<1> QED BY <1>1, <1>2 DEF p

LEMMA BoundedApart ==
  ASSUME NEW t, NEW r, Apart(t, r), r.page = t.page, r.pager = t.pager
  PROVE  Bounded(t) => Bounded(r)
  BY DEF Bounded, AllExist, Entries, Apart, Url

\* A pager with another page.
SamePager(p, q) == /\ q.there <=> p.there
                   /\ q.total = p.total /\ q.attribute = p.attribute

LEMMA SamePagerPage ==
  ASSUME NEW p \in Pager, NEW page \in Page
  PROVE  SamePager(p, WithPage(p, page)) /\ WithPage(p, page).page = page
  BY PagerTypes DEF SamePager

\* The list is taken to its first page.
FirstPage(t, r) ==
  /\ TabOK(r) /\ SameOthers(t, r) /\ r.page = 1 /\ Exists(Url(r))
  /\ r.filters = Decode(Url(r)) /\ r.stored = t.stored
  /\ r.filters = t.filters /\ SamePager(t.pager, r.pager)

LEMMA SetFirstPage ==
  ASSUME NEW t, TabOK(t), t.filters = Decode(Url(t)), ~Url(t).status,
         NEW dispatch \in BOOLEAN, NEW replace \in BOOLEAN,
         t.page = 1 \/ (dispatch /\ t.pager.page # 1),
         t.pager.page = 1 => Exists(Url(t))
  PROVE  replace => FirstPage(t, SetPage(t, 1, dispatch, replace))
<1> DEFINE r == SetPage(t, 1, dispatch, replace)
           goes == Url(t).page # 1
<1>0. 1 \in Page /\ t.pager \in Pager /\ Url(t) \in Params
  BY PageTypes, UrlType
<1>1. CASE t.pager.page = 1
  <2>1. r = t
    BY <1>0, <1>1, SetPageFacts
  <2>2. FirstPage(t, t)
    BY <1>1 DEF FirstPage, SameOthers, SamePager
  <2> QED BY <2>1, <2>2
<1>2. CASE t.pager.page # 1
  <2>1. /\ TabOK(r) /\ r.stored = t.stored /\ (replace => SameOthers(t, r))
        /\ Url(r) = WithPage(Url(t), 1)
        /\ r.pager = WithPage(t.pager, 1)
        /\ r.page = IF dispatch \/ (goes /\ t.pager.there) THEN 1 ELSE t.page
        /\ r.filters = IF goes THEN Decode(Url(t)) ELSE t.filters
    BY <1>0, <1>2, SetPageFacts
  <2>2. Exists(WithPage(Url(t), 1)) /\ Decode(WithPage(Url(t), 1)) = Decode(Url(t))
    BY <1>0, ExistsPage
  <2>3. SamePager(t.pager, WithPage(t.pager, 1))
    BY <1>0, SamePagerPage
  <2> HIDE DEF r
  <2>4. replace => FirstPage(t, r)
    BY <1>2, <2>1, <2>2, <2>3 DEF FirstPage
  <2> QED BY <2>4 DEF r
<1> QED BY <1>1, <1>2

LEMMA ResetFirstPage ==
  ASSUME NEW t, TabOK(t), Kind \in {"workflows", "items", "crawls"},
         t.filters = Decode(Url(t)), ~Url(t).status,
         ~t.pager.there => t.page = 1 /\ Url(t).page = 1,
         t.pager.there /\ t.pager.page = 1 => t.page = 1 /\ Exists(Url(t))
  PROVE  FirstPage(t, Reset(t))
<1> DEFINE u == [t EXCEPT !.page = 1]
           yes == TRUE
           no == FALSE
<1>0. 1 \in Page /\ t.pager \in Pager /\ yes \in BOOLEAN /\ no \in BOOLEAN /\ yes
  BY PageTypes
<1>1. Reset(t) = IF Kind = "workflows"
                 THEN IF u.pager.there THEN SetPage(u, 1, no, yes) ELSE u
                 ELSE IF t.pager.there THEN SetPage(t, 1, yes, yes) ELSE t
  BY DEF Reset, ResetWorkflows, ResetItems, ResetCrawls
<1>2. TabOK(u) /\ Apart(t, u) /\ u.page = 1 /\ u.pager = t.pager
  BY <1>0, SetFields
<1> HIDE DEF u, yes, no
<1>3. Url(u) = Url(t) /\ u.filters = t.filters /\ u.stored = t.stored /\ u.history = t.history
      /\ u.at = t.at
  BY <1>2 DEF Apart, Url
<1>4. CASE t.pager.there /\ Kind = "workflows"
  <2>1. FirstPage(u, SetPage(u, 1, no, yes))
    BY <1>0, <1>2, <1>3, <1>4, SetFirstPage
  <2>2. FirstPage(t, SetPage(u, 1, no, yes))
    BY <1>2, <1>3, <2>1 DEF FirstPage, SameOthers
  <2> QED BY <1>1, <1>2, <1>4, <2>2
<1>5. CASE t.pager.there /\ Kind # "workflows"
  <2>1. FirstPage(t, SetPage(t, 1, yes, yes))
    BY <1>0, <1>5, SetFirstPage
  <2> QED BY <1>1, <1>5, <2>1
<1>6. CASE ~t.pager.there
  <2>1. Exists(Url(t))
    BY <1>6 DEF Exists
  <2>2. FirstPage(t, t) /\ FirstPage(t, u)
    BY <1>2, <1>3, <1>6, <2>1 DEF FirstPage, SameOthers, SamePager
  <2> QED BY <1>1, <1>2, <1>6, <2>2
<1> QED BY <1>4, <1>5, <1>6

LEMMA PrimeBounded ==
  Bounded(tab)' <=> Bounded(tab')
  BY DEF Bounded, AllExist, Exists, Count, Passes, Entries, Url, Decode, Pages

\* An act of a user who waits starts at rest.
Resting ==
  /\ BoundedCondition /\ ~pending /\ AtRest /\ Bounded(tab) /\ live = Items
  /\ Kind \in {"workflows", "items", "crawls"} /\ TabOK(tab) /\ Plain(tab)
  /\ ~tab.pager.there => tab.page = 1 /\ Url(tab).page = 1
  /\ asked = Args(tab)

LEMMA ActStarts ==
  ASSUME ListInv, BoundsInv, NEW a, Does(a), BoundedCondition'
  PROVE  /\ Resting /\ NeverCleared'
         /\ a \in Notable => a \in {"direction", "reload", "history", "unpaged"}
<1>1. /\ Kind' = Kind /\ did \subseteq did' /\ (a \in Notable => a \in did')
      /\ "hurry" \notin did' => ~pending
  BY Conditions
<1>2. /\ BoundedCondition /\ ~pending
      /\ a \in Notable => a \in {"direction", "reload", "history", "unpaged"}
  BY <1>1 DEF BoundedCondition
<1>3. AtRest /\ Bounded(tab) /\ live = Items /\ TabOK(tab)
  BY <1>2 DEF BoundsInv, ListInv, Typed
<1>4. Kind \in {"workflows", "items", "crawls"}
  BY <1>2, ListPageAssumption DEF BoundedCondition, ListInv, Typed, Kind
<1>5. ASSUME ~tab.pager.there
      PROVE  tab.page = 1 /\ Url(tab).page = 1
  <2> DEFINE c == Count(tab.filters)
  <2>1. c \in Nat /\ Pages(c) \in Nat /\ Url(tab).page \in Page /\ PageSize \in Nat
    BY <1>3, CountFacts, PagesFacts, PageTypes, ListPageAssumption
  <2>2. ~HasPager(c)
    BY <1>3, <1>5 DEF AtRest
  <2>3. c <= PageSize \/ c = 0
    <3> HIDE DEF c
    <3> QED BY <2>1, <2>2 DEF HasPager
  <2>4. Pages(c) <= 1
    <3> HIDE DEF c
    <3> QED BY <2>1, <2>3, PagesFacts
  <2>5. Url(tab).page = 1 \/ Url(tab).page <= Pages(c)
    BY <1>3, UrlExists DEF Bounded, Exists
  <2> HIDE DEF c
  <2> QED BY <1>3, <1>5, <2>1, <2>4, <2>5 DEF AtRest, Page
<1>6. Plain(tab)
  BY <1>3 DEF Bounded, Plain, Decode
<1>7. NeverCleared' /\ NeverCleared
  BY <1>2 DEF BoundedCondition, NeverCleared, Without
<1>8. asked = Args(tab)
  BY <1>7 DEF ListInv, Current
<1> QED BY <1>2, <1>3, <1>4, <1>5, <1>6, <1>7, <1>8 DEF Resting

\* What the elements have come to after an act.
Settled(n) ==
  /\ Bounded(n) /\ SamePager(tab.pager, n.pager)
  /\ n.page = tab.page /\ n.page # 1 => n.pager.page = Url(n).page

LEMMA ActBounds ==
  ASSUME ListInv, ListInv', BoundsInv, NEW a, Does(a), NEW t, TabOK(t), TellsPage(tab, t),
         Updated(t), shown' = shown, live' = live,
         BoundedCondition' => Settled(IF t.reset THEN Reset(t) ELSE t)
  PROVE  BoundsInv'
<1> SUFFICES ASSUME BoundedCondition'
             PROVE  live' = Items /\ Bounded(tab)' /\ (~pending' => AtRest')
  BY DEF BoundsInv
<1> DEFINE n == IF t.reset THEN Reset(t) ELSE t
<1>1. Resting /\ NeverCleared' /\ setup' = setup
  BY ActStarts, Conditions
<1>2. Settled(n)
  OBVIOUS
<1>3. /\ pending' = TRUE \/ (pending' = pending /\ asked' = asked)
      /\ Apart(n, tab') /\ tab'.page = n.page /\ tab'.pager = n.pager
  BY UpdatedFacts DEF ListInv, Typed
<1> HIDE DEF n
<1>4. Bounded(tab') /\ Url(tab') = Url(n)
  BY <1>2, <1>3, BoundedApart DEF Settled, Apart, Url
<1>5. ASSUME ~pending'
      PROVE  AtRest'
  <2>1. asked' = asked /\ asked = Args(tab)
    BY <1>1, <1>3, <1>5 DEF Resting
  <2>2. asked' = Args(tab')
    <3>1. NeverCleared' => asked' = Args(tab)'
      BY DEF ListInv, Current
    <3> QED BY <1>1, <3>1 DEF Args, Norm
  <2>3. tab'.page = tab.page /\ Norm(tab'.filters) = Norm(tab.filters)
    BY <2>1, <2>2 DEF Args
  <2>4. Norm(tab'.filters) = tab'.filters /\ Norm(tab.filters) = tab.filters
    <3>1. TabOK(tab) /\ TabOK(tab')
      BY DEF ListInv, Typed, TabOK
    <3>2. Norm(Decode(Url(tab))) = Decode(Url(tab)) /\ Norm(Decode(Url(tab'))) = Decode(Url(tab'))
      BY <3>1, UrlType, NormDecode
    <3> QED BY <1>1, <1>4, <3>2 DEF Resting, Bounded
  <2>5. /\ shown.there /\ shown.total = Count(tab'.filters)
        /\ tab'.pager.there <=> HasPager(shown.total)
        /\ tab'.pager.there => tab'.pager.total = shown.total /\ tab'.pager.attribute = tab'.page
    BY <1>1, <1>2, <1>3, <2>3, <2>4 DEF Resting, AtRest, Settled, SamePager
  <2>6. tab'.page # 1 => tab'.pager.there /\ tab'.pager.page = Url(tab').page
    BY <1>1, <1>2, <1>3, <1>4, <2>3 DEF Resting, AtRest, Settled, SamePager
  <2> QED BY <1>1, <2>5, <2>6 DEF AtRest, HasPager, Kind, Url, Count, Passes
<1>6. live' = Items
  BY <1>1 DEF Resting
<1> QED BY <1>4, <1>5, <1>6, PrimeBounded

LEMMA FirstPageSettled ==
  ASSUME Resting, NEW t, OthersFrom(tab, t), ~t.stored, SamePager(tab.pager, t.pager),
         NEW r, FirstPage(t, r)
  PROVE  Settled(r)
<1>1. OthersFrom(tab, r)
  BY DEF SameOthers, OthersFrom, FirstPage
<1>2. AllExist(r)
  BY <1>1, ExistAll DEF Resting, Bounded, FirstPage
<1>3. Bounded(r)
  BY <1>2 DEF Bounded, FirstPage
<1> QED BY <1>3 DEF Settled, FirstPage, SamePager

LEMMA FilterBounds ==
  ASSUME ListInv, ListInv', BoundsInv, NEW a, Does(a), NEW f \in FilterValues, NEW p \in Params,
         f # tab.filters, p.page = Url(tab).page,
         Resting => Decode(p) = f /\ ~p.status,
         Updated(Sets(tab, f, p)), shown' = shown, live' = live
  PROVE  BoundsInv'
<1> DEFINE t == Sets(tab, f, p)
           x == IF p # Url(tab) /\ Turned(tab, p) THEN p.page ELSE tab.pager.page
<1>1. TabOK(tab) /\ tab.pager \in Pager /\ tab.pager.page \in Page /\ ~tab.dirty /\ ~tab.reset
  BY PageTypes DEF ListInv, Typed
<1>2. TabOK(t) /\ TellsPage(tab, t)
  <2>1. TellsPage(tab, tab)
    BY <1>1 DEF TellsPage
  <2> QED BY <1>1, <2>1, SetsTells
<1>3. /\ Url(t) = p /\ OthersFrom(tab, t)
      /\ t.stored = IF Kind = "profiles" THEN f.mine ELSE tab.stored
      /\ t.filters = IF p # Url(tab) THEN Decode(p) ELSE f
      /\ t.page = IF p # Url(tab) /\ Turned(tab, p) THEN p.page ELSE tab.page
      /\ t.pager = WithPage(tab.pager, x)
      /\ t.reset <=> tab.reset \/ Requests(tab.filters, f)
  BY <1>1, SetsFacts
<1>4. SamePager(tab.pager, t.pager) /\ t.pager.page = x
  <2>1. x \in Page
    BY <1>1 DEF Params
  <2> HIDE DEF x, t
  <2> QED BY <1>1, <1>3, <2>1, SamePagerPage
<1> HIDE DEF t
<1>5. ASSUME BoundedCondition'
      PROVE  Settled(IF t.reset THEN Reset(t) ELSE t)
  <2>1. Resting
    BY <1>5, ActStarts
  <2>2. Decode(p) = f /\ ~p.status /\ p # Url(tab) /\ t.filters = Decode(Url(t))
    BY <1>3, <2>1 DEF Resting, Bounded
  <2>3. Requests(tab.filters, f)
    <3>1. tab.filters \in FilterValues /\ tab.filters.tags # "undefined"
      BY <2>1 DEF Resting, Plain, TabOK, Tab
    <3> QED BY <3>1, RequestsChange
  <2>4. t.reset
    BY <1>3, <2>3
  <2>5. ~t.pager.there => t.page = 1 /\ Url(t).page = 1
    BY <1>3, <1>4, <2>1 DEF Resting, SamePager, Turned
  <2>6. ASSUME t.pager.there, t.pager.page = 1
        PROVE  t.page = 1 /\ Exists(Url(t))
    <3>1. p.page = 1
      BY <1>4, <2>2, <2>6 DEF SamePager, Turned
    <3>2. t.page = 1
      BY <1>3, <2>1, <3>1 DEF Resting, Bounded
    <3> QED BY <1>3, <2>2, <3>1, <3>2 DEF Exists
  <2>7. FirstPage(t, Reset(t))
    BY <1>2, <1>3, <2>1, <2>2, <2>5, <2>6, ResetFirstPage DEF Resting
  <2>8. ~t.stored
    BY <1>3, <2>1 DEF Resting, Bounded
  <2>9. Settled(Reset(t))
    BY <1>3, <1>4, <2>1, <2>7, <2>8, FirstPageSettled
  <2> QED BY <2>4, <2>9
<1> QED BY <1>2, <1>5, ActBounds DEF t

LEMMA SortBounds ==
  ASSUME ListInv, ListInv', BoundsInv, NEW a, Does(a), NEW sort \in SortValues,
         sort # tab.sort, Updated(Sorts(tab, sort)), shown' = shown, live' = live
  PROVE  BoundsInv'
<1> DEFINE t == Sorts(tab, sort)
           p == EncodeSort(sort, Url(tab))
           x == IF p # Url(tab) /\ Turned(tab, p) THEN p.page ELSE tab.pager.page
<1>1. TabOK(tab) /\ tab.pager \in Pager /\ tab.pager.page \in Page /\ Url(tab) \in Params
  BY PageTypes, UrlType DEF ListInv, Typed
<1>2. TabOK(t) /\ TellsPage(tab, t)
  BY <1>1, SortsKeeps
<1>3. /\ Url(t) = p /\ OthersFrom(tab, t)
      /\ t.stored = tab.stored /\ t.reset
      /\ t.filters = IF p # Url(tab) THEN Decode(p) ELSE tab.filters
      /\ t.page = IF p # Url(tab) /\ Turned(tab, p) THEN p.page ELSE tab.page
      /\ t.pager = WithPage(tab.pager, x)
  BY <1>1, SortsFacts
<1>4. /\ p \in Params /\ p.page = Url(tab).page /\ p.status = Url(tab).status
      /\ Decode(p) = Decode(Url(tab))
  BY <1>1, EncodeSortFacts
<1>5. SamePager(tab.pager, t.pager) /\ t.pager.page = x
  <2>1. x \in Page
    BY <1>1, <1>4 DEF Params
  <2> HIDE DEF x, t
  <2> QED BY <1>1, <1>3, <2>1, SamePagerPage
<1> HIDE DEF t, p
<1>6. ASSUME BoundedCondition'
      PROVE  Settled(IF t.reset THEN Reset(t) ELSE t)
  <2>1. Resting
    BY <1>6, ActStarts
  <2>2. Exists(Url(tab))
    BY <2>1, UrlExists DEF Resting, Bounded
  <2>3. Exists(p) /\ t.filters = Decode(p)
    BY <1>3, <1>4, <2>1, <2>2 DEF Resting, Bounded, Exists
  <2>4. ~t.pager.there => t.page = 1 /\ Url(t).page = 1
    BY <1>3, <1>4, <1>5, <2>1 DEF Resting, SamePager, Turned
  <2>5. ASSUME t.pager.there, t.pager.page = 1
        PROVE  t.page = 1
    <3>1. CASE Turned(tab, p) /\ p # Url(tab)
      BY <1>3, <1>5, <2>5, <3>1
    <3>2. CASE ~(Turned(tab, p) /\ p # Url(tab))
      BY <1>3, <1>5, <2>1, <2>5, <3>2 DEF Resting, Bounded, AtRest, SamePager
    <3> QED BY <3>1, <3>2
  <2>6. FirstPage(t, Reset(t))
    BY <1>2, <1>3, <2>1, <2>3, <2>4, <2>5, ResetFirstPage DEF Resting, Exists
  <2>7. ~t.stored
    BY <1>3, <2>1 DEF Resting, Bounded
  <2>8. Settled(Reset(t))
    BY <1>3, <1>5, <2>1, <2>6, <2>7, FirstPageSettled
  <2> QED BY <1>3, <2>8
<1> QED BY <1>2, <1>6, ActBounds DEF t

LEMMA ClickBounds ==
  ASSUME ListInv, ListInv', BoundsInv, NEW page \in 1 .. Cardinality(Items), ClickPage(page)
  PROVE  BoundsInv'
<1> DEFINE yes == TRUE
           no == FALSE
           t == SetPage(tab, page, yes, no)
           goes == Url(tab).page # page
<1>1. /\ Does("page") /\ tab.pager.there /\ page # tab.pager.page
      /\ page \in 1 .. Pages(tab.pager.total)
      /\ Updated(t) /\ shown' = shown /\ live' = live
  BY DEF ClickPage
<1>2. /\ page \in Page /\ yes \in BOOLEAN /\ no \in BOOLEAN
  <2>1. page \in Int /\ page >= 1
    <3>1. Cardinality(Items) \in Nat
      BY ListPageAssumption, FS_CardinalityType
    <3> QED BY <3>1
  <2> QED BY <2>1 DEF Page
<1>3. /\ TabOK(tab) /\ ~tab.reset /\ ~tab.dirty /\ tab.pager \in Pager /\ Url(tab) \in Params
      /\ Pages(tab.pager.total) \in Nat
  BY PageTypes, UrlType DEF ListInv, Typed
<1>y. yes
  OBVIOUS
<1> HIDE DEF yes, no
<1>4. /\ TabOK(t) /\ t.reset = tab.reset /\ t.stored = tab.stored /\ OthersFrom(tab, t)
      /\ Url(t) = WithPage(Url(tab), page)
      /\ t.pager = WithPage(tab.pager, page)
      /\ t.page = IF yes \/ (goes /\ tab.pager.there) THEN page ELSE tab.page
      /\ t.filters = IF goes THEN Decode(Url(tab)) ELSE tab.filters
      /\ t.dirty <=> \/ tab.dirty \/ (yes /\ page # tab.page)
                     \/ goes /\ \/ Requests(tab.filters, Decode(Url(tab)))
                                \/ tab.sort # DecodeSort(Url(tab)) \/ tab.pager.there
  BY <1>1, <1>2, <1>3, SetPageFacts
<1> HIDE DEF t
<1>5. TellsPage(tab, t) /\ ~t.reset /\ t.page = page
  BY <1>y, <1>3, <1>4 DEF TellsPage
<1>6. ASSUME BoundedCondition'
      PROVE  Settled(t)
  <2>1. Resting
    BY <1>1, <1>6, ActStarts
  <2>2. Exists(Url(tab)) /\ tab.filters = Decode(Url(tab))
    BY <2>1, UrlExists DEF Resting, Bounded
  <2>3. tab.pager.total = Count(Decode(Url(tab)))
    BY <1>1, <2>1, <2>2 DEF Resting, AtRest
  <2>4. page <= Pages(Count(Decode(Url(tab))))
    BY <1>1, <1>3, <2>3
  <2>5. Exists(Url(t)) /\ Decode(Url(t)) = Decode(Url(tab))
    BY <1>2, <1>3, <1>4, <2>2, <2>4, ExistsPage DEF Exists
  <2>6. AllExist(t)
    BY <1>4, <2>1, <2>5, ExistAll DEF Resting, Bounded
  <2>7. Url(t).page = page
    BY <1>2, <1>3, <1>4, UrlPage
  <2>8. SamePager(tab.pager, t.pager) /\ t.pager.page = page
    BY <1>2, <1>3, <1>4, SamePagerPage
  <2>9. t.filters = Decode(Url(t)) /\ ~t.stored
    BY <1>4, <2>1, <2>2, <2>5 DEF Resting, Bounded
  <2> QED BY <1>5, <2>6, <2>7, <2>8, <2>9 DEF Settled, Bounded
<1>7. BoundedCondition' => Settled(IF t.reset THEN Reset(t) ELSE t)
  BY <1>5, <1>6
<1> QED BY <1>1, <1>4, <1>5, <1>7, ActBounds

\* Each encoder, where no status is set.
LEMMA EncodersDecode ==
  ASSUME NEW params \in Params, ~params.status, NEW f \in FilterValues, ~f.status,
         f.tags # "undefined"
  PROVE  /\ f.mine = params.mine /\ f.tags = Decode(params).tags =>
              LET p == EncodeFilterBy(f, params) IN Decode(p) = f /\ ~p.status
         /\ f.search = params.search /\ f.tags = Decode(params).tags =>
              LET p == EncodeMine(f, params) IN Decode(p) = f /\ ~p.status
         /\ f.search = params.search /\ f.mine = params.mine =>
              LET p == EncodeTags(f, params) IN Decode(p) = f /\ ~p.status
<1>1. ASSUME NEW p \in Params, p.search = f.search, p.mine = f.mine, ~p.status,
             p.tags <=> f.tags = "some"
      PROVE  Decode(p) = f
  <2> DEFINE x == IF p.tags THEN "some" ELSE "none"
  <2>1. x = f.tags /\ p.status = f.status
    BY <1>1 DEF FilterValues, Params
  <2>2. Decode(p) = [search |-> p.search, status |-> p.status, mine |-> p.mine, tags |-> x]
    BY DEF Decode
  <2> HIDE DEF x
  <2> QED BY <1>1, <2>1, <2>2 DEF FilterValues
<1>2. /\ EncodeFilterBy(f, params) \in Params /\ EncodeMine(f, params) \in Params
      /\ EncodeTags(f, params) \in Params
  BY CodecTypes
<1>3. Decode(params).tags = "some" <=> params.tags
  BY DEF Decode
<1>4. ASSUME f.mine = params.mine, f.tags = Decode(params).tags
      PROVE  LET p == EncodeFilterBy(f, params) IN Decode(p) = f /\ ~p.status
  <2> DEFINE p == EncodeFilterBy(f, params)
  <2>1. /\ p.search = f.search /\ p.mine = params.mine /\ ~p.status
        /\ p.tags = params.tags
    BY DEF EncodeFilterBy, Params, FilterValues
  <2>2. p \in Params
    BY <1>2
  <2> HIDE DEF p
  <2>3. Decode(p) = f
    BY <1>1, <1>3, <1>4, <2>1, <2>2
  <2> QED BY <2>1, <2>3 DEF p
<1>5. ASSUME f.search = params.search, f.tags = Decode(params).tags
      PROVE  LET p == EncodeMine(f, params) IN Decode(p) = f /\ ~p.status
  <2> DEFINE p == EncodeMine(f, params)
  <2>1. /\ p.search = params.search /\ p.mine = f.mine /\ ~p.status
        /\ p.tags = params.tags
    BY DEF EncodeMine, Params, FilterValues
  <2>2. p \in Params
    BY <1>2
  <2> HIDE DEF p
  <2>3. Decode(p) = f
    BY <1>1, <1>3, <1>5, <2>1, <2>2
  <2> QED BY <2>1, <2>3 DEF p
<1>6. ASSUME f.search = params.search, f.mine = params.mine
      PROVE  LET p == EncodeTags(f, params) IN Decode(p) = f /\ ~p.status
  <2> DEFINE p == EncodeTags(f, params)
  <2>1. /\ p.search = params.search /\ p.mine = params.mine /\ ~p.status
        /\ p.tags <=> f.tags = "some"
    BY DEF EncodeTags, Params, FilterValues
  <2>2. p \in Params
    BY <1>2
  <2> HIDE DEF p
  <2>3. Decode(p) = f
    BY <1>1, <1>6, <2>1, <2>2
  <2> QED BY <2>1, <2>3 DEF p
<1> QED BY <1>4, <1>5, <1>6

\* At rest the filters are what the URL says, and no status is set.
LEMMA RestingFilters ==
  ASSUME Resting
  PROVE  /\ ~Url(tab).status /\ ~tab.filters.status /\ Plain(tab)
         /\ tab.filters.search = Url(tab).search /\ tab.filters.mine = Url(tab).mine
         /\ tab.filters.tags = Decode(Url(tab)).tags
<1>1. tab.filters = Decode(Url(tab)) /\ Exists(Url(tab)) /\ Plain(tab)
  BY UrlExists DEF Resting, Bounded
<1> QED BY <1>1 DEF Exists, Decode

LEMMA SearchBounds ==
  ASSUME ListInv, ListInv', BoundsInv, ChangeSearch
  PROVE  BoundsInv'
<1> DEFINE f == [tab.filters EXCEPT !.search = ~@]
           p == FilterEncoder(f, Url(tab))
<1>1. Does("search") /\ Updated(Sets(tab, f, p)) /\ shown' = shown /\ live' = live
  BY DEF ChangeSearch, UserSets, SetFilters, Sets, Asks
<1>2. TabOK(tab) /\ Url(tab) \in Params
  BY UrlType DEF ListInv, Typed
<1>3. /\ f \in FilterValues /\ f.mine = tab.filters.mine /\ f.tags = tab.filters.tags
      /\ f.status = tab.filters.status /\ f # tab.filters
  BY <1>2 DEF TabOK, Tab, FilterValues
<1> HIDE DEF f
<1>4. p \in Params /\ p.page = Url(tab).page
  BY <1>2, <1>3, EncoderFacts
<1>5. Resting => Decode(p) = f /\ ~p.status
  <2> SUFFICES ASSUME Resting PROVE Decode(p) = f /\ ~p.status
    OBVIOUS
  <2>1. p = EncodeFilterBy(f, Url(tab))
    BY DEF FilterEncoder, Resting
  <2> QED BY <1>2, <1>3, <2>1, RestingFilters, EncodersDecode DEF Plain
<1> HIDE DEF p
<1> QED BY <1>1, <1>3, <1>4, <1>5, FilterBounds

LEMMA MineBounds ==
  ASSUME ListInv, ListInv', BoundsInv, ChangeMine
  PROVE  BoundsInv'
<1> DEFINE f == [tab.filters EXCEPT !.mine = ~@]
           p == MineEncoder(f, Url(tab))
<1>1. Does("mine") /\ Updated(Sets(tab, f, p)) /\ shown' = shown /\ live' = live
  BY DEF ChangeMine, UserSets, SetFilters, Sets, Asks
<1>2. TabOK(tab) /\ Url(tab) \in Params
  BY UrlType DEF ListInv, Typed
<1>3. /\ f \in FilterValues /\ f.search = tab.filters.search /\ f.tags = tab.filters.tags
      /\ f.status = tab.filters.status /\ f # tab.filters
  BY <1>2 DEF TabOK, Tab, FilterValues
<1> HIDE DEF f
<1>4. p \in Params /\ p.page = Url(tab).page
  BY <1>2, <1>3, EncoderFacts
<1>5. Resting => Decode(p) = f /\ ~p.status
  <2> SUFFICES ASSUME Resting PROVE Decode(p) = f /\ ~p.status
    OBVIOUS
  <2>1. p = EncodeMine(f, Url(tab))
    BY DEF MineEncoder, Resting
  <2> QED BY <1>2, <1>3, <2>1, RestingFilters, EncodersDecode DEF Plain
<1> HIDE DEF p
<1> QED BY <1>1, <1>3, <1>4, <1>5, FilterBounds

LEMMA TagsBounds ==
  ASSUME ListInv, ListInv', BoundsInv, ChangeTags
  PROVE  BoundsInv'
<1> DEFINE f == [tab.filters EXCEPT !.tags = IF @ = "some" THEN "none" ELSE "some"]
           p == TagsEncoder(f, Url(tab))
<1>1. Does("tags") /\ Updated(Sets(tab, f, p)) /\ shown' = shown /\ live' = live
  BY DEF ChangeTags, UserSets, SetFilters, Sets, Asks
<1>2. TabOK(tab) /\ Url(tab) \in Params
  BY UrlType DEF ListInv, Typed
<1>3. /\ f \in FilterValues /\ f.search = tab.filters.search /\ f.mine = tab.filters.mine
      /\ f.status = tab.filters.status /\ f # tab.filters /\ f.tags # "undefined"
  BY <1>2 DEF TabOK, Tab, FilterValues
<1> HIDE DEF f
<1>4. p \in Params /\ p.page = Url(tab).page
  BY <1>2, <1>3, EncoderFacts
<1>5. Resting => Decode(p) = f /\ ~p.status
  <2> SUFFICES ASSUME Resting PROVE Decode(p) = f /\ ~p.status
    OBVIOUS
  <2>1. p = EncodeTags(f, Url(tab))
    BY DEF TagsEncoder, Resting
  <2> QED BY <1>2, <1>3, <2>1, RestingFilters, EncodersDecode
<1> HIDE DEF p
<1> QED BY <1>1, <1>3, <1>4, <1>5, FilterBounds

LEMMA OrderBounds ==
  ASSUME ListInv, ListInv', BoundsInv, ChangeField \/ ToggleDirection
  PROVE  BoundsInv'
<1>0. tab.sort \in SortValues
  BY DEF ListInv, Typed, TabOK, Tab
<1>1. CASE ChangeField
  <2> DEFINE field == IF tab.sort.field = "other" THEN "default" ELSE "other"
             sort == [field |-> field, direction |-> DefaultDirection(field)]
  <2>1. Does("field") /\ Updated(Sorts(tab, sort)) /\ shown' = shown /\ live' = live
    BY <1>1 DEF ChangeField, Sorts
  <2>2. sort \in SortValues /\ sort # tab.sort
    BY <1>0 DEF SortValues, Directions, DefaultDirection
  <2> HIDE DEF sort
  <2> QED BY <2>1, <2>2, SortBounds
<1>2. CASE ToggleDirection
  <2> DEFINE sort == [tab.sort EXCEPT !.direction = IF @ = "asc" THEN "desc" ELSE "asc"]
  <2>1. Does("direction") /\ Updated(Sorts(tab, sort)) /\ shown' = shown /\ live' = live
    BY <1>2 DEF ToggleDirection, Sorts
  <2>2. sort \in SortValues /\ sort # tab.sort
    BY <1>0 DEF SortValues, Directions
  <2> HIDE DEF sort
  <2> QED BY <2>1, <2>2, SortBounds
<1> QED BY <1>1, <1>2

LEMMA TraverseBounds ==
  ASSUME ListInv, ListInv', BoundsInv, NEW to \in 1 .. Len(tab.history), NEW early \in BOOLEAN,
         Traverse(to, early)
  PROVE  BoundsInv'
<1> DEFINE params == tab.history[to].params
           n == Navigate(tab, params)
           before == Url(tab).page
           turned == Turned(tab, params)
           x == IF turned THEN params.page ELSE tab.pager.page
           y == IF early THEN before ELSE x
           q == WithPage(n.pager, IF early THEN before ELSE n.pager.page)
           t == [n EXCEPT !.at = to, !.pager = q]
<1>1. Does("history") /\ to \in DOMAIN tab.history /\ shown' = shown /\ live' = live
  BY DEF Traverse
<1>2. Updated(t) /\ (early => n.pager # tab.pager)
  BY DEF Traverse, WithPage
<1>3. TabOK(tab) /\ ~tab.reset /\ tab.pager \in Pager /\ tab.pager.page \in Page
  BY PageTypes DEF ListInv, Typed
<1>4. tab.history[to] \in Entries(tab) /\ params \in Params /\ before \in Page
      /\ params.page \in Page
  <2>1. tab.history[to] \in Entry
    BY <1>1, <1>3 DEF TabOK, Tab
  <2> QED BY <1>1, <1>3, <2>1, PageTypes DEF Entry, Entries, Params
<1>e. tab.history[to].params = params
  OBVIOUS
<1> HIDE DEF params, before
<1>5. /\ TabOK(n) /\ Navigated(tab, params, n)
      /\ n.history = tab.history /\ n.at = tab.at
      /\ n.stored = tab.stored /\ n.reset = tab.reset
  BY <1>3, <1>4, NavigateFacts
<1> HIDE DEF n
<1>6. n.pager = WithPage(tab.pager, x) /\ x \in Page /\ y \in Page
  BY <1>3, <1>4, <1>5 DEF Navigated
<1> HIDE DEF x
<1>7. SamePager(tab.pager, n.pager) /\ n.pager.page = x /\ n.pager \in Pager
  <2>1. SamePager(tab.pager, WithPage(tab.pager, x)) /\ WithPage(tab.pager, x).page = x
    BY <1>3, <1>6, SamePagerPage
  <2> QED BY <1>5, <1>6, <2>1, PageTypes
<1>8. q = WithPage(n.pager, y)
  BY <1>7
<1> HIDE DEF y, q
<1>9. q \in Pager /\ SamePager(tab.pager, q) /\ q.page = y
  <2>1. SamePager(n.pager, WithPage(n.pager, y)) /\ WithPage(n.pager, y).page = y
        /\ WithPage(n.pager, y) \in Pager
    <3>1. n.pager \in Pager
      BY <1>7
    <3>2. y \in Page
      BY <1>6
    <3>3. WithPage(n.pager, y) \in Pager
      BY <3>1, <3>2 DEF WithPage, Pager
    <3> QED BY <3>1, <3>2, <3>3, SamePagerPage
  <2> QED BY <1>7, <1>8, <2>1 DEF SamePager
<1>10. /\ t \in Tab /\ t.history = n.history /\ t.at = to /\ t.stored = n.stored
       /\ t.filters = n.filters /\ t.page = n.page /\ t.pager = q
       /\ t.dirty = n.dirty /\ t.reset = n.reset
  <2>1. to \in Nat
    OBVIOUS
  <2> QED BY <1>5, <1>9, <2>1 DEF TabOK, Tab
<1> HIDE DEF t
<1>11. TabOK(t) /\ Url(t) = params /\ Entries(t) = Entries(tab)
  BY <1>1, <1>5, <1>10, <1>e DEF TabOK, Url, Entries
<1>12. TellsPage(tab, t) /\ ~t.reset
  BY <1>3, <1>5, <1>10 DEF TellsPage, Navigated
<1>13. t.page = IF turned THEN params.page ELSE tab.page
  BY <1>5, <1>10 DEF Navigated
<1>14. early => turned
  <2>1. WithPage(tab.pager, tab.pager.page) = tab.pager
    BY <1>3 DEF WithPage, Pager
  <2> QED BY <1>2, <1>6, <2>1 DEF x
<1>15. ASSUME BoundedCondition'
       PROVE  Settled(t)
  <2>1. Resting
    BY <1>1, <1>15, ActStarts
  <2>2. AllExist(t)
    BY <1>11, <2>1 DEF Resting, Bounded, AllExist
  <2>3. t.filters = Decode(Url(t)) /\ ~t.stored
    BY <1>5, <1>10, <1>11, <2>1 DEF Navigated, Resting, Bounded
  <2>4. tab.page # 1 => tab.pager.there /\ tab.pager.page = tab.page
    BY <2>1 DEF Resting, AtRest, Bounded
  <2>5. t.page = 1 \/ t.page = params.page
    BY <1>13, <2>4 DEF Turned
  <2>6. t.page = tab.page /\ t.page # 1 => ~turned /\ t.pager.page = params.page
    BY <1>9, <1>10, <1>13, <1>14, <2>4 DEF Turned, x, y
  <2>7. t.pager.there => t.pager.attribute = tab.page
    BY <1>9, <1>10, <2>1 DEF Resting, AtRest, SamePager
  <2>8. Bounded(t)
    BY <1>11, <2>2, <2>3, <2>5, <2>6, <2>7 DEF Bounded
  <2> QED BY <1>9, <1>10, <1>11, <2>6, <2>8 DEF Settled
<1>16. BoundedCondition' => Settled(IF t.reset THEN Reset(t) ELSE t)
  BY <1>12, <1>15
<1> QED BY <1>1, <1>2, <1>11, <1>12, <1>16, ActBounds

\* A page that is opened where its list exists.
FreshBounded(t) ==
  /\ TabOK(t) /\ Fresh(t) /\ AllExist(t)
  /\ t.filters = Decode(Url(t)) /\ ~t.stored

LEMMA OpeningBounds ==
  ASSUME NEW t, FreshBounded(t), Kind # "profiles", NEW f \in FilterValues, NEW p \in Params,
         f.tags # "undefined", p.page = Url(t).page, Decode(p) = f, ~p.status,
         \A item \in Items : Passes(item, t.filters) => Passes(item, f)
  PROVE  FreshBounded(SetValue(t, f, p))
<1> DEFINE r == SetValue(t, f, p)
<1>1. TabOK(t) /\ Fresh(t) /\ AllExist(t) /\ t.filters = Decode(Url(t)) /\ ~t.stored
  BY DEF FreshBounded
<1>2. TabOK(r) /\ Fresh(r) /\ (f = t.filters => r = t)
  BY <1>1, OpeningSets
<1>3. CASE f = t.filters
  BY <1>2, <1>3
<1>4. CASE f # t.filters
  <2>1. p # Url(t)
    BY <1>1, <1>4
  <2>2. /\ Url(r) = p /\ OthersFrom(t, r) /\ r.stored = t.stored /\ r.filters = Decode(p)
    BY <1>1, <1>4, <2>1, SetValueFacts
  <2>3. Exists(p)
    <3> DEFINE c == Count(t.filters)
               d == Count(f)
    <3>1. c \in Nat /\ d \in Nat /\ c <= d
      BY CountFacts
    <3>2. Url(t).page = 1 \/ Url(t).page <= Pages(c)
      BY <1>1, UrlExists DEF Exists
    <3>3. Url(t).page \in Page
      BY <1>1, PageTypes
    <3> HIDE DEF c, d
    <3>4. Pages(c) <= Pages(d) /\ Pages(c) \in Nat /\ Pages(d) \in Nat
      BY <3>1, PagesFacts
    <3>5. p.page = 1 \/ p.page <= Pages(d)
      BY <3>2, <3>3, <3>4 DEF Page
    <3> QED BY <3>5 DEF Exists, d
  <2> HIDE DEF r
  <2>4. AllExist(r)
    BY <1>1, <1>2, <2>2, <2>3, ExistAll
  <2>5. FreshBounded(r)
    BY <1>1, <1>2, <2>2, <2>4 DEF FreshBounded
  <2> QED BY <2>5 DEF r
<1> QED BY <1>3, <1>4

LEMMA OpenCrawlsBounds ==
  ASSUME NEW t, FreshBounded(t), Kind # "profiles"
  PROVE  FreshBounded(OpenCrawls(t))
<1> DEFINE f == [t.filters EXCEPT !.mine = t.stored]
           p == EncodeMine(f, Url(t))
<1>1. OpenCrawls(t) = SetValue(t, f, p)
  BY DEF OpenCrawls, SetFilters
<1>2. TabOK(t) /\ ~t.stored /\ t.filters = Decode(Url(t)) /\ Url(t) \in Params /\ ~Url(t).status
  BY UrlExists, UrlType DEF FreshBounded, Exists
<1>3. /\ f \in FilterValues /\ f.search = t.filters.search /\ f.tags = t.filters.tags
      /\ f.status = t.filters.status /\ f.mine = t.stored
  BY <1>2 DEF TabOK, Tab, FilterValues
<1> HIDE DEF f
<1>4. /\ f.tags # "undefined" /\ f.search = Url(t).search /\ f.tags = Decode(Url(t)).tags
      /\ ~f.status
  BY <1>2, <1>3 DEF Decode
<1>5. p \in Params /\ p.page = Url(t).page
  BY <1>2, <1>3, CodecTypes, EncodersKeepPage
<1>6. Decode(p) = f /\ ~p.status
  BY <1>2, <1>3, <1>4, EncodersDecode
<1>7. \A item \in Items : Passes(item, t.filters) => Passes(item, f)
  BY <1>2, <1>3 DEF Passes
<1> HIDE DEF p
<1> QED BY <1>1, <1>3, <1>4, <1>5, <1>6, <1>7, OpeningBounds

LEMMA OpenItemsBounds ==
  ASSUME NEW t, FreshBounded(t), Kind # "profiles"
  PROVE  FreshBounded(OpenItems(t))
<1> DEFINE m == OpenCrawls(t)
           f == [m.filters EXCEPT !.search = FALSE, !.status = FALSE]
           p == EncodeFilterBy(f, Url(m))
<1>1. OpenItems(t) = SetValue(m, f, p)
  BY DEF OpenItems, OpenCrawls, SetFilters
<1>0. FreshBounded(m)
  BY OpenCrawlsBounds
<1> HIDE DEF m
<1>2. TabOK(m) /\ ~m.stored /\ m.filters = Decode(Url(m)) /\ Url(m) \in Params /\ ~Url(m).status
  BY <1>0, UrlExists, UrlType DEF FreshBounded, Exists
<1>3. /\ f \in FilterValues /\ f.mine = m.filters.mine /\ f.tags = m.filters.tags
      /\ ~f.status /\ ~f.search
  BY <1>2 DEF TabOK, Tab, FilterValues
<1> HIDE DEF f
<1>4. /\ f.tags # "undefined" /\ f.mine = Url(m).mine /\ f.tags = Decode(Url(m)).tags
  BY <1>2, <1>3 DEF Decode
<1>5. p \in Params /\ p.page = Url(m).page
  BY <1>2, <1>3, CodecTypes, EncodersKeepPage
<1>6. Decode(p) = f /\ ~p.status
  BY <1>2, <1>3, <1>4, EncodersDecode
<1>7. \A item \in Items : Passes(item, m.filters) => Passes(item, f)
  BY <1>2, <1>3 DEF Passes
<1> HIDE DEF p
<1> QED BY <1>0, <1>1, <1>3, <1>4, <1>5, <1>6, <1>7, OpeningBounds

LEMMA OpenBounds ==
  ASSUME NEW history \in Seq(Entry), NEW at \in DOMAIN history, NEW stored \in BOOLEAN,
         ~stored, \A i \in DOMAIN history : Exists(history[i].params),
         Kind \in {"workflows", "items", "crawls"}
  PROVE  Bounded(Open(history, at, stored))
<1> DEFINE o == Open(history, at, stored)
           t == Opening(history, at, stored)
           m == OpenCrawls(t)
           i == OpenItems(t)
           n == CASE Kind = "items" -> i [] Kind = "crawls" -> m [] OTHER -> t
<1>1. o = [n EXCEPT !.dirty = FALSE, !.reset = FALSE]
  BY DEF Open, Opening
<1>2. FreshBounded(t)
  <2>1. /\ TabOK(t) /\ Fresh(t) /\ t.stored = stored /\ t.history = history
        /\ t.filters = Decode(Url(t))
    BY OpeningFacts
  <2> HIDE DEF t
  <2> QED BY <2>1 DEF FreshBounded, AllExist, Entries
<1> HIDE DEF t
<1>3. FreshBounded(m) /\ FreshBounded(i)
  BY <1>2, OpenCrawlsBounds, OpenItemsBounds
<1> HIDE DEF m, i
<1>4. FreshBounded(n)
  BY <1>2, <1>3
<1> HIDE DEF n
<1>5. Bounded(n) /\ TabOK(n)
  BY <1>4 DEF FreshBounded, Bounded, Fresh
<1>6. Apart(n, o) /\ o.page = n.page /\ o.pager = n.pager
  <2>1. n.page \in Page /\ n.pager \in Pager
    BY <1>5, PageTypes
  <2> QED BY <1>1, <1>5, <2>1, SetFields
<1> HIDE DEF o
<1>7. Bounded(o)
  BY <1>5, <1>6, BoundedApart
<1> QED BY <1>7 DEF o

LEMMA ReloadBounds ==
  ASSUME ListInv, BoundsInv, Reload
  PROVE  BoundsInv'
<1> SUFFICES ASSUME BoundedCondition'
             PROVE  live' = Items /\ Bounded(tab)' /\ (~pending' => AtRest')
  BY DEF BoundsInv
<1> DEFINE o == Open(tab.history, tab.at, tab.stored)
<1>1. Does("reload") /\ tab' = o /\ live' = live /\ pending' = TRUE
  BY DEF Reload, Runs
<1>2. Resting
  BY <1>1, ActStarts
<1>3. /\ tab.history \in Seq(Entry) /\ tab.at \in DOMAIN tab.history /\ tab.stored \in BOOLEAN
      /\ ~tab.stored /\ Kind \in {"workflows", "items", "crawls"}
      /\ \A i \in DOMAIN tab.history : Exists(tab.history[i].params)
  BY <1>2 DEF Resting, TabOK, Tab, Bounded, AllExist, Entries
<1>4. Bounded(o)
  BY <1>3, OpenBounds
<1> HIDE DEF o
<1>5. Bounded(tab')
  BY <1>1, <1>4
<1> QED BY <1>1, <1>2, <1>5, PrimeBounded DEF Resting

LEMMA InitBounds ==
  ASSUME Init
  PROVE  BoundsInv
<1> SUFFICES ASSUME BoundedCondition
             PROVE  live = Items /\ Bounded(tab) /\ (~pending => AtRest)
  BY DEF BoundsInv
<1> DEFINE h == <<FirstEntry>>
           no == FALSE
           o == Open(h, 1, no)
<1>1. setup \in Setups /\ tab = o /\ pending = TRUE /\ live = Items
  BY DEF Init, FirstEntry
<1>2. h \in Seq(Entry) /\ 1 \in DOMAIN h /\ no \in BOOLEAN /\ ~no
  BY FirstHistory
<1>3. \A i \in DOMAIN h : Exists(h[i].params)
  <2>1. FirstEntry.params = NoParams /\ Exists(NoParams)
    BY DEF FirstEntry, Exists, NoParams
  <2>2. \A i \in DOMAIN h : h[i] = FirstEntry
    BY FirstHistory
  <2> HIDE DEF h
  <2> QED BY <2>1, <2>2
<1>4. Kind \in {"workflows", "items", "crawls"}
  BY <1>1, ListPageAssumption DEF BoundedCondition, Kind
<1> HIDE DEF h, no
<1>5. Bounded(o)
  BY <1>2, <1>3, <1>4, OpenBounds
<1> HIDE DEF o
<1> QED BY <1>1, <1>5

-----------------------------------------------------------------------------
(***************************************************************************)
(* The list is rendered at a page that exists.                             *)
(***************************************************************************)
Ready(t, n) ==
  /\ TabOK(n) /\ AllExist(n) /\ n.filters = Decode(Url(n)) /\ ~n.stored
  /\ n.page = t.page /\ n.filters = t.filters
  /\ n.page = 1 \/ n.page = Url(n).page
  /\ n.pager.there /\ n.pager.attribute = n.page

Rendered(t, r, total) ==
  /\ Bounded(r) /\ r.page = t.page /\ r.filters = t.filters
  /\ r.pager.there <=> HasPager(total)
  /\ r.pager.there => r.pager.total = total /\ r.pager.attribute = r.page
  /\ r.page # 1 => r.pager.there /\ r.pager.page = Url(r).page

LEMMA HasPagerFacts ==
  ASSUME NEW total \in Nat
  PROVE  /\ HasPager(total) => Pages(total) >= 1
         /\ ~HasPager(total) => Pages(total) <= 1
<1>1. PageSize \in Nat \ {0}
  BY ListPageAssumption
<1>2. HasPager(total) => total > 0
  BY <1>1 DEF HasPager
<1>3. ~HasPager(total) => total <= PageSize \/ total = 0
  BY <1>1 DEF HasPager
<1> QED BY <1>2, <1>3, PagesFacts

LEMMA ReadyRendered ==
  ASSUME NEW t, NEW r, NEW total, Ready(t, r), HasPager(total), r.pager.total = total,
         r.page # 1 => r.pager.page = Url(r).page
  PROVE  Rendered(t, r, total)
  BY DEF Ready, Rendered, Bounded

LEMMA PagerUpdatesBounds ==
  ASSUME NEW t, NEW v, Ready(t, v), NEW total \in Nat, total = Count(v.filters),
         v.pager.total = total, HasPager(total), NEW changed \in BOOLEAN
  PROVE  Rendered(t, PagerUpdates(v, changed), total)
<1> DEFINE pages == Pages(v.pager.total)
           u == Url(v).page
           no == FALSE
           a == IF u # v.pager.page THEN SetPage(v, Constrain(u, pages), no, no) ELSE v
           r == PagerUpdates(v, changed)
<1>1. r = IF changed /\ a.pager.page > pages
          THEN SetPage(a, Constrain(a.pager.page, pages), TRUE, FALSE) ELSE a
  BY DEF PagerUpdates
<1>2. /\ TabOK(v) /\ AllExist(v) /\ v.pager \in Pager /\ u \in Page /\ pages \in Nat
      /\ pages >= 1 /\ Url(v) \in Params
  BY HasPagerFacts, PageTypes, UrlType DEF Ready
<1>3. u = 1 \/ u <= pages
  BY <1>2, UrlExists DEF Exists, Ready
<1>4. Constrain(u, pages) = u
  <2> HIDE DEF u, pages
  <2> QED BY <1>2, <1>3, ConstrainType
<1>5. Ready(t, a) /\ a.pager.total = total /\ a.pager.page = Url(a).page /\ Url(a) = Url(v)
  <2>1. CASE u = v.pager.page
    BY <2>1
  <2>2. CASE u # v.pager.page
    <3> DEFINE b == SetPage(v, u, no, no)
    <3>1. a = b
      BY <1>4, <2>2
    <3>y. no \in BOOLEAN /\ ~no
      OBVIOUS
    <3> HIDE DEF no
    <3>2. /\ TabOK(b) /\ b.stored = v.stored /\ OthersFrom(v, b)
          /\ Url(b) = WithPage(Url(v), u)
          /\ b.pager = WithPage(v.pager, u)
          /\ b.page = IF no \/ (Url(v).page # u /\ v.pager.there) THEN u ELSE v.page
          /\ b.filters = IF Url(v).page # u THEN Decode(Url(v)) ELSE v.filters
      BY <1>2, <2>2, <3>y, SetPageFacts
    <3>3. WithPage(Url(v), u) = Url(v)
      BY <1>2, UrlPage
    <3>4. SamePager(v.pager, b.pager) /\ b.pager.page = u
      <4> HIDE DEF u, b
      <4> QED BY <1>2, <3>2, SamePagerPage
    <3> HIDE DEF b
    <3>5. b.page = v.page /\ b.filters = v.filters /\ Url(b) = Url(v) /\ b.pager.page = Url(b).page
      BY <3>y, <3>2, <3>3, <3>4
    <3>6. AllExist(b)
      BY <1>2, <3>2, <3>5, UrlExists, ExistAll
    <3>7. Ready(t, b)
      BY <3>2, <3>4, <3>5, <3>6 DEF Ready, SamePager
    <3> QED BY <3>1, <3>4, <3>5, <3>7 DEF SamePager
  <2> QED BY <2>1, <2>2
<1> HIDE DEF a, u, pages
<1>6. ~(a.pager.page > pages)
  BY <1>2, <1>3, <1>5 DEF u, Page
<1>7. r = a
  BY <1>1, <1>6
<1> HIDE DEF r
<1> QED BY <1>5, <1>7, ReadyRendered DEF r

LEMMA RenderBounds ==
  ASSUME NEW t, TabOK(t), Bounded(t), NEW page \in Page, page = t.page,
         NEW total \in Nat, total = Count(t.filters)
  PROVE  Rendered(t, Render(t, page, total), total)
<1> DEFINE u == [t EXCEPT !.pager = NoPager]
<1>1. t.pager \in Pager /\ NoPager \in Pager /\ 1 \in Page /\ Url(t) \in Params
      /\ Url(t).page \in Page
  BY PageTypes, UrlType
<1>2. TabOK(u) /\ Apart(t, u) /\ u.page = t.page /\ u.pager = NoPager
  BY <1>1, SetPager
<1> HIDE DEF u
<1>3. Url(u) = Url(t) /\ u.filters = t.filters /\ u.stored = t.stored
      /\ Entries(u) = Entries(t)
  BY <1>2 DEF Apart, Url, Entries
<1>4. ~NoPager.there /\ NoPager.page = 1
  BY DEF NoPager
<1>5. CASE ~HasPager(total)
  <2>1. Render(t, page, total) = u
    BY <1>5 DEF Render, u
  <2>2. Url(t).page = 1 \/ Url(t).page <= Pages(total)
    BY UrlExists DEF Bounded, Exists
  <2>3. Url(t).page = 1
    BY <1>1, <1>5, <2>2, HasPagerFacts, PagesFacts DEF Page
  <2>4. Rendered(t, u, total)
    BY <1>2, <1>3, <1>4, <1>5, <2>3 DEF Rendered, Bounded, AllExist
  <2> QED BY <2>1, <2>4
<1>6. CASE HasPager(total) /\ ~t.pager.there
  <2> DEFINE n == SetAttribute(u, page)
             v == [n EXCEPT !.pager = Connected(n.pager, total)]
             changed == page # 1
  <2>1. Render(t, page, total) = PagerUpdates(v, changed)
    BY <1>6 DEF Render, u, Connected
  <2>2. /\ TabOK(n) /\ n.pager = WithAttribute(u.pager, page) /\ OthersFrom(u, n)
        /\ Url(n) = IF page = u.pager.page THEN Url(u) ELSE WithPage(Url(u), page)
        /\ n.stored = u.stored
        /\ n.page = IF (page # u.pager.page /\ page # Url(u).page) /\ u.pager.there
                    THEN page ELSE u.page
        /\ n.filters = IF page # u.pager.page /\ page # Url(u).page THEN Decode(Url(u))
                       ELSE u.filters
    BY <1>2, SetAttributeFacts
  <2> HIDE DEF n
  <2>3. n.page = t.page /\ n.filters = t.filters /\ Url(n) = Url(t)
    <3>1. WithPage(Url(t), Url(t).page) = Url(t)
      BY <1>1, UrlPage
    <3> QED BY <1>2, <1>3, <1>4, <2>2, <3>1 DEF Bounded
  <2>4. n.pager \in Pager /\ n.pager.attribute = page
    <3>1. WithAttribute(NoPager, page) \in Pager /\ WithAttribute(NoPager, page).attribute = page
      BY DEF WithAttribute, NoPager, Pager
    <3> QED BY <1>2, <2>2, <3>1
  <2>5. /\ Connected(n.pager, total) \in Pager /\ Connected(n.pager, total).there
        /\ Connected(n.pager, total).attribute = n.pager.attribute
        /\ Connected(n.pager, total).total = total
    BY <2>4 DEF Connected, Pager
  <2>6. TabOK(v) /\ Apart(n, v) /\ v.page = n.page /\ v.pager = Connected(n.pager, total)
    <3> DEFINE q == Connected(n.pager, total)
    <3>1. q \in Pager /\ TabOK(n) /\ 1 \in Page
      BY <1>1, <2>2, <2>5
    <3>2. v = [n EXCEPT !.pager = q]
      OBVIOUS
    <3> HIDE DEF q, v
    <3>3. TabOK(v) /\ Apart(n, v) /\ v.page = n.page /\ v.pager = q
      BY <3>1, <3>2, SetFields
    <3> QED BY <3>3 DEF q
  <2> HIDE DEF v
  <2>7. AllExist(n)
    <3>1. AllExist(u) /\ Exists(Url(n))
      BY <1>3, <2>3, UrlExists DEF AllExist, Bounded
    <3> QED BY <2>2, <3>1, ExistAll
  <2>8. Ready(t, v) /\ v.pager.total = total /\ v.filters = t.filters
    BY <1>3, <2>2, <2>3, <2>4, <2>5, <2>6, <2>7 DEF Ready, Apart, AllExist, Entries, Url, Bounded
  <2>9. changed \in BOOLEAN
    BY Zenon
  <2> HIDE DEF changed
  <2> QED BY <1>6, <2>1, <2>8, <2>9, PagerUpdatesBounds
<1>7. CASE HasPager(total) /\ t.pager.there
  <2> DEFINE turned == page # t.pager.attribute /\ page # t.pager.page
             n == IF page = t.pager.attribute THEN t ELSE SetAttribute(t, page)
             v == [n EXCEPT !.pager = WithTotal(n.pager, total)]
  <2>1. Render(t, page, total) = IF turned \/ total # t.pager.total
                                 THEN PagerUpdates(v, turned) ELSE n
    BY <1>7 DEF Render, WithTotal
  <2>2. /\ Ready(t, n) /\ n.pager.total = t.pager.total
        /\ ~turned /\ n.page # 1 => n.pager.page = Url(n).page
    <3>1. CASE page = t.pager.attribute
      BY <1>7, <3>1 DEF Ready, Bounded
    <3>2. CASE page # t.pager.attribute
      <4> DEFINE goes == page # t.pager.page /\ page # Url(t).page
      <4>1. /\ TabOK(n) /\ n.pager = WithAttribute(t.pager, page) /\ OthersFrom(t, n)
            /\ Url(n) = IF page = t.pager.page THEN Url(t) ELSE WithPage(Url(t), page)
            /\ n.stored = t.stored
            /\ n.page = IF goes /\ t.pager.there THEN page ELSE t.page
            /\ n.filters = IF goes THEN Decode(Url(t)) ELSE t.filters
        BY <3>2, SetAttributeFacts
      <4> HIDE DEF n
      <4>2. /\ WithAttribute(t.pager, page).there = t.pager.there
            /\ WithAttribute(t.pager, page).page = page
            /\ WithAttribute(t.pager, page).attribute = page
            /\ WithAttribute(t.pager, page).total = t.pager.total
        BY <1>1 DEF WithAttribute, Pager
      <4>3. n.page = page /\ n.filters = t.filters
        BY <4>1 DEF Bounded
      <4>4. page = 1 \/ page = Url(t).page
        BY DEF Bounded
      <4>5. Exists(Url(t)) /\ ~Url(t).status
        BY UrlExists DEF Bounded, Exists
      <4>6. page = 1 \/ page <= Pages(Count(Decode(Url(t))))
        BY <4>4, <4>5 DEF Exists
      <4>7. /\ Exists(WithPage(Url(t), page)) /\ WithPage(Url(t), page).page = page
            /\ Decode(WithPage(Url(t), page)) = Decode(Url(t))
        BY <1>1, <4>5, <4>6, ExistsPage, UrlPage
      <4>8. Exists(Url(n)) /\ Decode(Url(n)) = Decode(Url(t))
            /\ (page = 1 \/ page = Url(n).page)
        BY <4>1, <4>4, <4>5, <4>7
      <4>9. AllExist(n)
        BY <4>1, <4>8, ExistAll DEF Bounded
      <4> HIDE DEF goes
      <4>10. Ready(t, n)
        BY <1>7, <4>1, <4>2, <4>3, <4>8, <4>9 DEF Ready, Bounded
      <4> QED BY <4>1, <4>2, <4>3, <4>8, <4>10
    <3> QED BY <3>1, <3>2
  <2> HIDE DEF n
  <2>3. n.pager \in Pager /\ TabOK(n)
    BY <2>2, PageTypes DEF Ready
  <2>4. /\ WithTotal(n.pager, total) \in Pager
        /\ WithTotal(n.pager, total).there = n.pager.there
        /\ WithTotal(n.pager, total).attribute = n.pager.attribute
        /\ WithTotal(n.pager, total).total = total
    <3> DEFINE p == n.pager
    <3>1. p \in Pager /\ page \in Page
      BY <2>3
    <3> HIDE DEF p
    <3>2. /\ WithTotal(p, total) \in Pager
          /\ WithTotal(p, total).there = p.there
          /\ WithTotal(p, total).attribute = p.attribute
          /\ WithTotal(p, total).total = total
      BY <3>1 DEF WithTotal, Pager
    <3> QED BY <3>2 DEF p
  <2>5. TabOK(v) /\ Apart(n, v) /\ v.page = n.page /\ v.pager = WithTotal(n.pager, total)
    <3> DEFINE q == WithTotal(n.pager, total)
    <3>1. v = [n EXCEPT !.pager = q]
      OBVIOUS
    <3> HIDE DEF q, v
    <3>2. q \in Pager
      BY <2>4 DEF q
    <3> QED BY <2>3, <3>1, <3>2, SetPager DEF q
  <2> HIDE DEF v
  <2>6. Ready(t, v) /\ v.pager.total = total /\ v.filters = t.filters
    BY <2>2, <2>4, <2>5 DEF Ready, Apart, AllExist, Entries, Url
  <2>7. turned \in BOOLEAN
    BY Zenon
  <2> HIDE DEF turned
  <2>8. Rendered(t, PagerUpdates(v, turned), total)
    BY <1>7, <2>6, <2>7, PagerUpdatesBounds
  <2>9. ~turned /\ total = t.pager.total => Rendered(t, n, total)
    BY <1>7, <2>2, ReadyRendered
  <2> QED BY <2>1, <2>8, <2>9
<1> QED BY <1>5, <1>6, <1>7

LEMMA ArriveBounds ==
  ASSUME ListInv, BoundsInv, Arrive
  PROVE  BoundsInv'
<1> SUFFICES ASSUME BoundedCondition'
             PROVE  live' = Items /\ Bounded(tab)' /\ (~pending' => AtRest')
  BY DEF BoundsInv
<1> DEFINE total == Cardinality(Matching(asked))
           t == Render(tab, asked.page, total)
           c == [t EXCEPT !.dirty = FALSE, !.reset = FALSE]
<1>1. /\ shown' = [there |-> TRUE, args |-> asked, total |-> total]
      /\ tab' = c /\ setup' = setup /\ live' = live /\ did' = did
  BY DEF Arrive, Ended
<1>2. BoundedCondition /\ Kind' = Kind
  BY <1>1 DEF BoundedCondition, Kind
<1>3. live = Items /\ Bounded(tab) /\ TabOK(tab) /\ asked.page = tab.page /\ tab.page \in Page
  BY <1>2, PageTypes DEF BoundsInv, ListInv, Typed
<1>4. asked.filters = tab.filters
  <2>1. NeverCleared
    BY <1>2 DEF BoundedCondition, NeverCleared, Without
  <2>2. asked = Args(tab)
    BY <2>1 DEF ListInv, Current
  <2>3. Norm(Decode(Url(tab))) = Decode(Url(tab))
    BY <1>3, UrlType, NormDecode
  <2> QED BY <1>3, <2>2, <2>3 DEF Args, Bounded
<1>5. total = Count(tab.filters) /\ total \in Nat
  BY <1>3, <1>4, CountFacts
<1> HIDE DEF total
<1>6. Rendered(tab, t, total) /\ TabOK(t)
  <2> DEFINE page == asked.page
  <2>1. page \in Page /\ page = tab.page
    BY <1>3
  <2> HIDE DEF page
  <2>2. Rendered(tab, Render(tab, page, total), total) /\ Keeps(tab, Render(tab, page, total))
    BY <1>3, <1>5, <2>1, RenderBounds, RenderKeeps
  <2> QED BY <2>2 DEF page, Keeps
<1> HIDE DEF t
<1>7. Apart(t, c) /\ c.page = t.page /\ c.pager = t.pager
  <2>1. t.page \in Page /\ t.pager \in Pager
    BY <1>6, PageTypes
  <2> QED BY <1>6, <2>1, SetFields
<1> HIDE DEF c
<1>8. Bounded(tab') /\ Url(tab') = Url(t) /\ tab'.filters = tab.filters
  BY <1>1, <1>6, <1>7, BoundedApart DEF Rendered, Apart, Url
<1>9. AtRest'
  <2>1. /\ shown'.there /\ shown'.total = total
        /\ total = Count(tab'.filters)
        /\ tab'.pager.there <=> HasPager(total)
        /\ tab'.pager.there => tab'.pager.total = total /\ tab'.pager.attribute = tab'.page
        /\ tab'.page # 1 => tab'.pager.there /\ tab'.pager.page = Url(tab').page
    BY <1>1, <1>5, <1>6, <1>7, <1>8 DEF Rendered
  <2>2. Kind' = Kind
    BY <1>2
  <2> QED BY <2>1, <2>2 DEF AtRest, HasPager, Url, Count, Passes
<1> QED BY <1>1, <1>3, <1>8, <1>9, PrimeBounded

\* The user of PageInBounds does not do these, and no fetch of theirs fails.
LEMMA OthersBounds ==
  ASSUME \/ ChangeStatus \/ ClearFilters \/ \E item \in Items : DeleteItem(item)
         \/ Fail
  PROVE  BoundsInv'
<1>1. CASE ChangeStatus
  <2>1. "status" \in did'
    BY <1>1 DEF ChangeStatus, Does, Notable
  <2> QED BY <2>1 DEF BoundsInv, BoundedCondition
<1>2. CASE ClearFilters
  <2>1. "clear" \in did'
    BY <1>2 DEF ClearFilters, Does, Notable
  <2> QED BY <2>1 DEF BoundsInv, BoundedCondition
<1>3. CASE \E item \in Items : DeleteItem(item)
  <2>1. "delete" \in did'
    BY <1>3 DEF DeleteItem, Does, Notable
  <2> QED BY <2>1 DEF BoundsInv, BoundedCondition
<1>4. CASE Fail
  <2>1. "failed" \in did'
    BY <1>4 DEF Fail
  <2> QED BY <2>1 DEF BoundsInv, BoundedCondition
<1> QED BY <1>1, <1>2, <1>3, <1>4

LEMMA SameBounds ==
  ASSUME BoundsInv, UNCHANGED <<setup, tab, shown, live, did>>,
         pending' = pending \/ pending' = TRUE
  PROVE  BoundsInv'
<1>1. BoundedCondition' => BoundedCondition
  BY DEF BoundedCondition, Kind
<1>2. Bounded(tab') <=> Bounded(tab)
  OBVIOUS
<1>3. AtRest' <=> AtRest
  BY DEF AtRest, HasPager, Kind, Url, Count, Passes
<1> QED BY <1>1, <1>2, <1>3, PrimeBounded DEF BoundsInv

LEMMA NextBounds ==
  ASSUME ListInv, ListInv', BoundsInv, [Next]_vars
  PROVE  BoundsInv'
<1>1. CASE Reload
  BY <1>1, ReloadBounds
<1>2. CASE ChangeSearch
  BY <1>2, SearchBounds
<1>3. CASE ChangeMine
  BY <1>3, MineBounds
<1>4. CASE ChangeTags
  BY <1>4, TagsBounds
<1>5. CASE ChangeField \/ ToggleDirection
  BY <1>5, OrderBounds
<1>6. CASE \E page \in 1 .. Cardinality(Items) : ClickPage(page)
  BY <1>6, ClickBounds
<1>7. CASE \E to \in 1 .. Len(tab.history), early \in BOOLEAN : Traverse(to, early)
  BY <1>7, TraverseBounds
<1>8. CASE Arrive
  BY <1>8, ArriveBounds
<1>9. CASE ChangeStatus \/ ClearFilters \/ (\E item \in Items : DeleteItem(item)) \/ Fail
  BY <1>9, OthersBounds
<1>10. CASE Poll
  BY <1>10, SameBounds DEF Poll, Runs
<1>11. CASE UNCHANGED vars
  BY <1>11, SameBounds DEF vars
<1> QED BY <1>1, <1>2, <1>3, <1>4, <1>5, <1>6, <1>7, <1>8, <1>9, <1>10, <1>11 DEF Next

LEMMA InvBounds ==
  ASSUME ListInv, BoundsInv
  PROVE  PageInBounds
<1> SUFFICES ASSUME ~pending, shown.there, shown.total > 0, BoundedCondition
             PROVE  shown.args.page <= Pages(shown.total)
  BY DEF PageInBounds, BoundedCondition
<1>1. Bounded(tab) /\ AtRest /\ TabOK(tab)
  BY DEF BoundsInv, ListInv, Typed
<1>2. shown.args.page = tab.page /\ shown.total \in Nat
  BY DEF ListInv, Typed, Current
<1>3. Pages(shown.total) \in Nat /\ Pages(shown.total) >= 1
  BY <1>2, PagesFacts
<1>4. shown.total = Count(Decode(Url(tab)))
  BY <1>1 DEF AtRest, Bounded
<1>5. Url(tab).page = 1 \/ Url(tab).page <= Pages(shown.total)
  BY <1>1, <1>4, UrlExists DEF Bounded, Exists
<1> QED BY <1>1, <1>2, <1>3, <1>5 DEF Bounded

\* A list at rest, its pager and the URL agree on the page (setPage, the setter
\* of page and onNavigate of btrix-pagination), and the page is one of the list
\* (willUpdate), with the exceptions PagerShowsPage and PageInBounds make.
THEOREM PagesAgreeSafe == Spec => []PagesAgree
<1>1. Init => BoundsInv
  BY InitBounds
<1>2. ListInv /\ ListInv' /\ BoundsInv /\ [Next]_vars => BoundsInv'
  BY NextBounds
<1>3. ListInv /\ BoundsInv => PagesAgree
  BY InvPager, InvBounds DEF PagesAgree
<1> QED BY <1>1, <1>2, <1>3, ListInvariant, PTL DEF Spec
=============================================================================
