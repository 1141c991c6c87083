---------------------------- MODULE ArticlePages ----------------------------
(***************************************************************************)
(* The article list of one view of the web client, page by page            *)
(* (useInfiniteArticles, the silent refresh, the read articles that the  *)
(* unread view retains and the article that is open), against the keyset   *)
(* pages of the server, while articles come and go and several devices     *)
(* mark them read.                                                         *)
(*                                                                         *)
(* An article is its rank in the order of the list (display time, id),     *)
(* which the server and the client agree on; a page is a set of rows and   *)
(* the cursor of the page after it.  A next page is put after the pages    *)
(* as they were when it was asked for, and a new fetch cancels the one     *)
(* under way: that is the query library's, and modelled from its use.      *)
(*                                                                         *)
(* The server's first page comes from SQL: ArticleCache has the cached     *)
(* one.  A change reaches the server at once, and the outbox and roll-back *)
(* of changes are Outbox's and ReadView's; events arrive in order, and the *)
(* reconnection that makes up for lost ones is Realtime's.                 *)
(***************************************************************************)
EXTENDS Integers, Sequences, FiniteSets

CONSTANTS
  Articles,     \* how many articles there may be
  Limit,        \* rows of a page
  UnreadOnly,   \* the view leaves out what has been read
  Visible,      \* the tab is looked at: the silent refresh runs
  MaxChanges,   \* bound: articles that come, go or are marked elsewhere
  MaxToggles,   \* bound: what the user marks or refreshes
  MaxGen        \* bound: releases that change the form of a cursor

ArticlePagesAssumption ==
  /\ {Articles, Limit} \subseteq Nat \ {0} /\ {MaxChanges, MaxToggles, MaxGen} \subseteq Nat
  /\ {UnreadOnly, Visible} \subseteq BOOLEAN

Article == 1..Articles
NoArticle == 0  \* no article, no cursor
Refreshed == <<NoArticle, "new">>  \* the end of a refresh that was asked for

VARIABLES
  listed,   \* the server's articles: absent, unread or read
  gen,      \* the form of cursor that it understands
  events,   \* on their way to the client: <<article, "new", "read" or "unread">>
  data,     \* the pages of the query; <<>>: there are none yet
  req,      \* the fetch of the query that is under way
  silent,   \* the silent refresh that is under way
  selected, \* the article that is open
  retained, \* the read articles that the unread view keeps
  stayed,   \* history: in the view since the first page was read
  mine,     \* history: read here while open, in this round of the view
  asked,    \* history: what the user last marked an article, if nobody else did since
  changes, toggles

vars == <<listed, gen, events, data, req, silent, selected, retained, stayed, mine, asked,
          changes, toggles>>
history == <<stayed, mine, asked>>

NoPage == [rows |-> {}, read |-> {}, next |-> NoArticle, gen |-> 0]
NoReq == [kind |-> "none", pages |-> <<>>, goal |-> 0, got |-> NoPage, is |-> "idle", since |-> {}]
NoSilent == [is |-> "idle", cached |-> NoPage, fresh |-> NoPage]

Page == [rows : SUBSET Article, read : SUBSET Article, next : Article \cup {NoArticle},
         gen : 0..MaxGen]

\* Types; no page but the last is without a cursor.
TypeOK ==
  /\ listed \in [Article -> {"absent", "unread", "read"}]
  /\ gen \in 0..MaxGen
  /\ \A i \in 1..Len(data) : data[i] \in Page /\ (data[i].next = NoArticle => i = Len(data))
  /\ req.kind \in {"none", "next", "all"} /\ req.is \in {"idle", "sent", "answered", "refused"}
  /\ silent.is \in {"idle", "sent", "answered", "rests"}
  /\ selected \in Article \cup {NoArticle}
  /\ retained \subseteq Article /\ (~UnreadOnly => retained = {})
  /\ asked \in [Article -> {"nothing", "unread", "read"}]

(***************************************************************************)
(* The server.                                                             *)
(***************************************************************************)
InView(a) == listed[a] = "unread" \/ (~UnreadOnly /\ listed[a] = "read")

\* Mutant of Rest: the row of the cursor again.
RestWith(cursor) == {a \in Article : a >= cursor /\ InView(a)}

\* The articles of the view after a cursor.
Rest(cursor) == {a \in Article : a > cursor /\ InView(a)}

First(n, rows) == {a \in rows : Cardinality({b \in rows : b < a}) < n}
Last(rows) == CHOOSE a \in rows : \A b \in rows : b <= a

\* findByScope with one row more than asked for, and getArticles.
PageAfter(cursor) ==
  LET rows == First(Limit, Rest(cursor)) IN
  [rows |-> rows, read |-> {a \in rows : listed[a] = "read"},
   next |-> IF rows = Rest(cursor) THEN NoArticle ELSE Last(rows), gen |-> gen]

Still(rows) == {a \in rows : InView(a)'}

\* An article comes, with any display time; or goes; or is marked elsewhere.
Changed(a, state, told) ==
  /\ changes < MaxChanges /\ changes' = changes + 1
  /\ listed' = [listed EXCEPT ![a] = state]
  /\ events' = events \o told
  /\ asked' = [asked EXCEPT ![a] = "nothing"]
  /\ stayed' = Still(stayed) /\ req' = [req EXCEPT !.since = Still(@)]
  /\ UNCHANGED <<gen, data, silent, selected, retained, mine, toggles>>

Publish(a) == listed[a] = "absent" /\ Changed(a, "unread", <<<<a, "new">>>>)
Remove(a) == listed[a] # "absent" /\ Changed(a, "absent", <<>>)
MarkElsewhere(a) ==
  \/ listed[a] = "unread" /\ Changed(a, "read", <<<<a, "read">>>>)
  \/ listed[a] = "read" /\ Changed(a, "unread", <<<<a, "unread">>>>)

\* A release with another form of cursor.
Release ==
  /\ gen < MaxGen /\ gen' = gen + 1
  /\ UNCHANGED <<listed, events, data, req, silent, selected, retained, history, changes, toggles>>

(***************************************************************************)
(* What is shown.                                                          *)
(***************************************************************************)
Rows(pages) == UNION {pages[i].rows : i \in 1..Len(pages)}
ReadRows(pages) == UNION {pages[i].read : i \in 1..Len(pages)}

\* mergeRetainedReadArticles
Shown == Rows(data) \cup retained
ShownRead(a) == IF a \in Rows(data) THEN a \in ReadRows(data) ELSE TRUE

\* Mutant of Retained: only the open article is kept.
RetainedOpen(pages, open, kept) ==
  IF UnreadOnly /\ open \in ReadRows(pages) THEN {open} ELSE kept

\* The open article is retained once its row is a read one.
Retained(pages, open, kept) ==
  IF UnreadOnly /\ open \in ReadRows(pages) THEN kept \cup {open} ELSE kept

\* The effects of a render of these rows: an article that has left the list is
\* closed, unless the list is being loaded.
Renders(pages, open, kept) ==
  /\ data' = pages
  /\ retained' = Retained(pages, open, kept)
  /\ selected' = IF pages = <<>> \/ open \in Rows(pages) \cup kept THEN open ELSE NoArticle

Marked(pages, a, state) ==
  [i \in 1..Len(pages) |->
     IF a \notin pages[i].rows THEN pages[i]
     ELSE [pages[i] EXCEPT !.read = IF state = "read" THEN @ \cup {a} ELSE @ \ {a}]]

(***************************************************************************)
(* The query.                                                              *)
(***************************************************************************)
\* A fetch of all pages there are, in place of any other.
All(pages) == [NoReq EXCEPT !.kind = "all", !.is = "sent",
                            !.goal = IF pages = <<>> THEN 1 ELSE Len(pages)]

\* invalidateQueries: without pages, the fetch under way goes on.
Refetched == IF data = <<>> /\ req.kind # "none" THEN req ELSE All(data)

Init ==
  /\ listed \in [Article -> {"absent", "unread"}]
  /\ gen = 0 /\ events = <<>>
  /\ data = <<>> /\ req = All(<<>>) /\ silent = NoSilent
  /\ selected = NoArticle /\ retained = {}
  /\ stayed = {} /\ mine = {} /\ asked = [a \in Article |-> "nothing"]
  /\ changes = 0 /\ toggles = 0

\* fetchNextPage, which the list calls near its end.
LoadMore ==
  /\ data # <<>> /\ data[Len(data)].next # NoArticle /\ req.kind # "next"
  /\ req' = [NoReq EXCEPT !.kind = "next", !.is = "sent", !.pages = data,
                          !.goal = Len(data) + 1]
  /\ UNCHANGED <<listed, gen, events, data, silent, selected, retained, history, changes, toggles>>

\* The request reaches the server; a cursor it cannot read is refused.
Serve ==
  LET page == IF req.pages = <<>> THEN NoPage ELSE req.pages[Len(req.pages)] IN
  /\ req.is = "sent"
  /\ IF page.next # NoArticle /\ page.gen # gen
     THEN req' = [req EXCEPT !.is = "refused"]
     ELSE req' = [req EXCEPT !.is = "answered", !.got = PageAfter(page.next),
                             !.since = IF req.pages = <<>> THEN Rest(NoArticle) ELSE @]
  /\ UNCHANGED <<listed, gen, events, data, silent, selected, retained, history, changes, toggles>>

\* The answer arrives: another page is asked for, or the pages are shown.
Land ==
  LET pages == Append(req.pages, req.got) IN
  /\ req.is = "answered"
  /\ IF Len(pages) < req.goal /\ req.got.next # NoArticle
     THEN /\ req' = [req EXCEPT !.is = "sent", !.pages = pages, !.got = NoPage]
          /\ UNCHANGED <<data, selected, retained, stayed>>
     ELSE /\ Renders(pages, selected, retained)
          /\ req' = NoReq
          /\ stayed' = IF req.kind = "all" THEN req.since ELSE stayed
  /\ UNCHANGED <<listed, gen, events, silent, mine, asked, changes, toggles>>

\* CURSOR_RESET_REQUIRED: resetQueries begins anew.
Refused ==
  /\ req.is = "refused"
  /\ data' = <<>> /\ req' = All(<<>>)
  /\ stayed' = {}
  /\ UNCHANGED <<listed, gen, events, silent, selected, retained, mine, asked, changes, toggles>>

\* applyReadStateSyncEvent: a row is shown as it has been marked; for what is
\* new or unread the pages are fetched anew.
Hear ==
  /\ events # <<>> /\ events' = Tail(events)
  /\ LET a == events[1][1] state == events[1][2] IN
     /\ IF state = "new" THEN UNCHANGED <<data, selected, retained>>
        ELSE Renders(Marked(data, a, state), selected, retained)
     /\ req' = IF state = "read" THEN req ELSE Refetched
  /\ UNCHANGED <<listed, gen, silent, history, changes, toggles>>

(***************************************************************************)
(* useSilentArticleRefresh.                                                *)
(***************************************************************************)
\* At focus or every few minutes, half a minute or more after the last one: the
\* fetch that one began has ended by then.
Silent ==
  /\ Visible /\ data # <<>> /\ silent.is \in {"idle", "rests"}
  /\ silent.is = "rests" => req.is = "idle"
  /\ silent' = [NoSilent EXCEPT !.is = "sent", !.cached = data[1]]
  /\ UNCHANGED <<listed, gen, events, data, req, selected, retained, history, changes, toggles>>

SilentServe ==
  /\ silent.is = "sent"
  /\ silent' = [silent EXCEPT !.is = "answered", !.fresh = PageAfter(NoArticle)]
  /\ UNCHANGED <<listed, gen, events, data, req, selected, retained, history, changes, toggles>>

\* Mutant of HasChanged: the rows are compared, not what they show.
HasChangedRows(cached, fresh) == cached.rows # fresh.rows \/ cached.next # fresh.next

\* firstPageHasChanged
HasChanged(cached, fresh) == cached # fresh

\* Mutant of SilentLand: the first page is put in place of the old one.
SilentLandMerges ==
  /\ silent.is = "answered" /\ silent' = [NoSilent EXCEPT !.is = "rests"]
  /\ IF HasChanged(silent.cached, silent.fresh) /\ data # <<>>
     THEN Renders([data EXCEPT ![1] = silent.fresh], selected, retained)
     ELSE UNCHANGED <<data, selected, retained>>
  /\ UNCHANGED <<listed, gen, events, req, history, changes, toggles>>

SilentLand ==
  /\ silent.is = "answered" /\ silent' = [NoSilent EXCEPT !.is = "rests"]
  /\ req' = IF HasChanged(silent.cached, silent.fresh) THEN Refetched ELSE req
  /\ UNCHANGED <<listed, gen, events, data, selected, retained, history, changes, toggles>>

(***************************************************************************)
(* The user.                                                               *)
(***************************************************************************)
Open(a) ==
  /\ a \in Shown /\ selected # a
  /\ Renders(data, a, retained)
  /\ UNCHANGED <<listed, gen, events, req, silent, history, changes, toggles>>

\* useMarkRead: the fetch under way is cancelled, the rows are changed at once.
Marks(a, state, kept) ==
  /\ toggles < MaxToggles /\ toggles' = toggles + 1
  /\ listed' = [listed EXCEPT ![a] = IF @ = "absent" THEN @ ELSE state]
  /\ req' = NoReq
  /\ Renders(Marked(data, a, state), a, kept)
  /\ stayed' = Still(stayed)
  /\ asked' = [asked EXCEPT ![a] = state]
  /\ mine' = IF ~UnreadOnly THEN {} ELSE IF state = "read" THEN mine \cup {a} ELSE mine \ {a}
  /\ UNCHANGED <<gen, events, silent, changes>>

\* The key m, and the reader's mark on opening.
Toggle == selected \in Shown /\ Marks(selected, IF ShownRead(selected) THEN "unread" ELSE "read",
                                      retained)

\* handleSelectArticle when what is navigated to is marked read.
Navigate(a) ==
  /\ a \in Shown /\ selected # a /\ ~ShownRead(a)
  /\ Marks(a, "read", IF UnreadOnly THEN retained \cup {a} ELSE retained)

\* The refresh button: what was retained goes, and at the end of the refresh
\* the pages are fetched anew.
Refresh ==
  /\ toggles < MaxToggles /\ toggles' = toggles + 1
  /\ \A i \in 1..Len(events) : events[i] # Refreshed
  /\ events' = Append(events, Refreshed)
  /\ retained' = {} /\ mine' = {}
  /\ selected' = IF data = <<>> \/ selected \in Rows(data) THEN selected ELSE NoArticle
  /\ UNCHANGED <<listed, gen, data, req, silent, stayed, asked, changes>>

\* Mark all read, confirmed and done.
MarkAll ==
  /\ toggles < MaxToggles /\ toggles' = toggles + 1
  /\ listed' = [a \in Article |-> IF listed[a] = "unread" THEN "read" ELSE listed[a]]
  /\ retained' = {} /\ mine' = {} /\ asked' = [a \in Article |-> "nothing"]
  /\ selected' = IF data = <<>> \/ selected \in Rows(data) THEN selected ELSE NoArticle
  /\ req' = [Refetched EXCEPT !.since = Still(@)] /\ stayed' = Still(stayed)
  /\ UNCHANGED <<gen, events, data, silent, changes>>

Next ==
  \/ \E a \in Article : Publish(a) \/ Remove(a) \/ MarkElsewhere(a) \/ Open(a) \/ Navigate(a)
  \/ LoadMore \/ Serve \/ Land \/ Refused \/ Hear
  \/ Silent \/ SilentServe \/ SilentLand
  \/ Toggle \/ Refresh \/ MarkAll \/ Release

Spec == Init /\ [][Next]_vars

(***************************************************************************)
(* Properties.                                                             *)
(***************************************************************************)
\* No article that has been in the view since the first page was read is
\* missing between the pages.
NoGap ==
  data # <<>> =>
    \A a \in stayed :
      data[Len(data)].next = NoArticle \/ a <= data[Len(data)].next => a \in Rows(data)

\* No article is in two pages.
NoRepeat == \A i, j \in 1..Len(data) : i # j => data[i].rows \cap data[j].rows = {}

\* What the user has read while it was open stays in the unread view, until the
\* user refreshes or marks everything read.
ReadHereStays == UnreadOnly => mine \subseteq Shown

\* Who scrolls on gets to the end of the list.
EndReached == <>[](data # <<>> /\ data[Len(data)].next = NoArticle)

\* What the code does not keep (see README).
\* A further page changes nothing of the pages before it.
PagesKept ==
  req.kind = "next" /\ Len(data') > Len(data) => SubSeq(data', 1, Len(data)) = data

\* An article is closed only by the user, or because it has left the view.
OpenKept ==
  selected # NoArticle /\ selected' = NoArticle => retained' # retained \/ ~InView(selected)

\* The list shows an open article as the user has marked it.
ToggleShown == selected \in Shown /\ asked[selected] # "nothing" =>
                 (asked[selected] = "read" <=> ShownRead(selected))

\* Who scrolls on sees all articles of the view.
AllSeen == <>[](\A a \in Article : InView(a) => a \in Shown)
=============================================================================
