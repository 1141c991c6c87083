----------------------------- MODULE MCBrowser ------------------------------
(***************************************************************************)
(* Instances of what the web client shows and keeps between answers,       *)
(* events and timers: the article list, read and saved states, the refresh *)
(* button, the preferences panel, the session of its tabs and the order of *)
(* categories. Each behaviour is one of a part.                            *)
(***************************************************************************)
EXTENDS Integers, Sequences, TLC

CONSTANTS
  None, Unknown, Baseline, a1, a2, t1, t2, t3, c1, c2, k1

VARIABLES
  part, \* which of the parts the behaviour is one of
  listed, gen, events, data, req, silent, selected, retained, stayed, mine, asked, changes,
  toggles, server, rev, told, rows, counts, base, outbox, flush, mut, hand, fetch, others,
  faults, strands, crossed, cache, after, stale, get, tracked, local, syncing, error, call, was,
  armed, poll, loaded, seen, theme, isOpen, draft, ack, pending, phase, closing, wanted, edits,
  cookie, store, tabs, net, heard, logins, loads, left, wants, revoked, behind, parent, sort,
  view, sent

\* ArticlePages: three articles on pages of one, of which some come and go.
Pages == INSTANCE ArticlePages WITH
  Articles <- 3, Limit <- 1, UnreadOnly <- FALSE, Visible <- TRUE, MaxChanges <- 1,
  MaxToggles <- 0, MaxGen <- 1
\* The list of unread articles while they are read.
UnreadList == INSTANCE ArticlePages WITH
  Articles <- 3, Limit <- 1, UnreadOnly <- TRUE, Visible <- FALSE, MaxChanges <- 1,
  MaxToggles <- 2, MaxGen <- 0
\* ReadView: overlapping toggles of an article, with failures and a server that is away.
Toggled == INSTANCE ReadView WITH
  Article <- {a1}, View <- {"all", "unread", "saved"}, Refreshes <- FALSE, MaxToggles <- 3,
  MaxOthers <- 0, MaxFaults <- 2, MaxStrands <- 1
\* Toggles that overlap with the change of another device and its event, too.
Overlaps == INSTANCE ReadView WITH
  Article <- {a1}, View <- {"all", "unread", "saved"}, Refreshes <- FALSE, MaxToggles <- 2,
  MaxOthers <- 1, MaxFaults <- 1, MaxStrands <- 1
\* Overlapping toggles in the list of saved articles.
SavedList == INSTANCE ReadView WITH
  Article <- {a1}, View <- {"saved"}, Refreshes <- FALSE, MaxToggles <- 3, MaxOthers <- 0,
  MaxFaults <- 2, MaxStrands <- 0
\* Two articles that other devices change, too.
Heard == INSTANCE ReadView WITH
  Article <- {a1, a2}, View <- {"all", "unread", "saved"}, Refreshes <- FALSE, MaxToggles <- 1,
  MaxOthers <- 2, MaxFaults <- 0, MaxStrands <- 0
\* RefreshView: a refresh of the page and one of another client.
Tracked == INSTANCE RefreshView WITH
  Requests <- 2, MaxClicks <- 1, MaxFaults <- 1, Poll <- 1, Foreground <- 1, MaxMonitor <- 2,
  Deadline <- 1, Scopes <- {"all"}, Others <- TRUE, Reloads <- TRUE
\* Preferences: edits in the panel, an edit elsewhere, a failure.
Panel == INSTANCE Preferences WITH
  Last <- 1, Calls <- 2, MaxEdits <- 3, MaxFaults <- 1, Others <- TRUE, Buttons <- {}
\* The buttons beside the panel.
Buttons == INSTANCE Preferences WITH
  Last <- 1, Calls <- 2, MaxEdits <- 2, MaxFaults <- 1, Others <- FALSE,
  Buttons <- {"theme", "view"}
\* BrowserSession: two tabs, one after the other in their use of the session.
Leaving == INSTANCE BrowserSession WITH
  Tab <- {t1, t2}, Lossy <- {"request"}, Overlap <- FALSE, MaxLogins <- 2, MaxRefresh <- 3,
  MaxLoads <- 2, MaxFaults <- 1
\* Two tabs whose requests overlap, with sign-ins and sign-outs too, and a message that is lost.
Racing == INSTANCE BrowserSession WITH
  Tab <- {t1, t2}, Lossy <- {"request", "answer"}, Overlap <- TRUE, MaxLogins <- 1,
  MaxRefresh <- 3, MaxLoads <- 1, MaxFaults <- 1
\* One tab and requests that are lost.
Staying == INSTANCE BrowserSession WITH
  Tab <- {t3}, Lossy <- {"request"}, Overlap <- TRUE, MaxLogins <- 2, MaxRefresh <- 3,
  MaxLoads <- 2, MaxFaults <- 2
\* CategoryOrder: three rows of a parent that are moved in the sidebar.
Moves == INSTANCE CategoryOrder WITH
  N <- 3, Parent <- {c1}, Client <- {k1}, MaxSort <- 0
\* Two rows and two parents.
Between == INSTANCE CategoryOrder WITH
  N <- 2, Parent <- {c1, c2}, Client <- {k1}, MaxSort <- 0

ASSUME
  /\ Pages!ArticlePagesAssumption
  /\ UnreadList!ArticlePagesAssumption
  /\ Toggled!ReadViewAssumption
  /\ Overlaps!ReadViewAssumption
  /\ SavedList!ReadViewAssumption
  /\ Heard!ReadViewAssumption
  /\ Tracked!RefreshViewAssumption
  /\ Panel!PreferencesAssumption
  /\ Buttons!PreferencesAssumption
  /\ Leaving!BrowserAssumption
  /\ Racing!BrowserAssumption
  /\ Staying!BrowserAssumption
  /\ Moves!OrderAssumption
  /\ Between!OrderAssumption

\* What a component has no variable for stays unused in its parts.
BesideArticlePages == <<
  server, rev, told, rows, counts, base, outbox, flush, mut, hand, fetch, others, faults,
  strands, crossed, cache, after, stale, get, tracked, local, syncing, error, call, was, armed,
  poll, loaded, seen, theme, isOpen, draft, ack, pending, phase, closing, wanted, edits, cookie,
  store, tabs, net, heard, logins, loads, left, wants, revoked, behind, parent, sort, view,
  sent>>
BesideReadView == <<
  listed, gen, data, req, silent, selected, retained, stayed, mine, asked, changes, toggles,
  cache, after, stale, get, tracked, local, syncing, error, call, was, armed, poll, loaded, seen,
  theme, isOpen, draft, ack, pending, phase, closing, wanted, edits, cookie, store, tabs, net,
  heard, logins, loads, left, wants, revoked, behind, parent, sort, view, sent>>
BesideRefreshView == <<
  listed, gen, events, data, req, silent, selected, retained, stayed, mine, asked, changes,
  toggles, rev, told, rows, counts, base, outbox, flush, mut, hand, fetch, others, strands,
  crossed, seen, theme, isOpen, draft, ack, pending, phase, closing, wanted, edits, cookie,
  store, tabs, net, heard, logins, loads, left, wants, revoked, behind, parent, sort, view,
  sent>>
BesidePreferences == <<
  listed, gen, events, data, req, silent, selected, retained, stayed, mine, asked, changes,
  toggles, rev, told, rows, counts, base, outbox, flush, mut, hand, fetch, others, strands,
  crossed, after, stale, tracked, local, syncing, error, was, armed, poll, loaded, cookie, store,
  tabs, net, heard, logins, loads, left, wants, revoked, behind, parent, sort, view, sent>>
BesideBrowserSession == <<
  listed, gen, events, data, req, silent, selected, retained, stayed, mine, asked, changes,
  toggles, rev, told, rows, counts, base, outbox, flush, mut, hand, fetch, others, strands,
  crossed, cache, after, stale, get, tracked, local, syncing, error, call, was, armed, poll,
  loaded, seen, theme, isOpen, draft, ack, pending, phase, closing, wanted, edits, parent, sort,
  view, sent>>
BesideCategoryOrder == <<
  listed, gen, events, data, req, silent, selected, retained, stayed, mine, asked, changes,
  toggles, server, rev, told, rows, counts, base, outbox, flush, mut, hand, fetch, others,
  faults, strands, crossed, cache, after, stale, get, tracked, local, syncing, error, call, was,
  armed, poll, loaded, seen, theme, isOpen, draft, ack, pending, phase, closing, wanted, edits,
  cookie, store, tabs, net, heard, logins, loads, left, wants, revoked, behind>>

NoArticlePagesBeside ==
  /\ server = None /\ rev = None /\ told = None /\ rows = None /\ counts = None /\ base = None
  /\ outbox = None /\ flush = None /\ mut = None /\ hand = None /\ fetch = None /\ others = None
  /\ faults = None /\ strands = None /\ crossed = None /\ cache = None /\ after = None
  /\ stale = None /\ get = None /\ tracked = None /\ local = None /\ syncing = None
  /\ error = None /\ call = None /\ was = None /\ armed = None /\ poll = None /\ loaded = None
  /\ seen = None /\ theme = None /\ isOpen = None /\ draft = None /\ ack = None
  /\ pending = None /\ phase = None /\ closing = None /\ wanted = None /\ edits = None
  /\ cookie = None /\ store = None /\ tabs = None /\ net = None /\ heard = None /\ logins = None
  /\ loads = None /\ left = None /\ wants = None /\ revoked = None /\ behind = None
  /\ parent = None /\ sort = None /\ view = None /\ sent = None
NoReadViewBeside ==
  /\ listed = None /\ gen = None /\ data = None /\ req = None /\ silent = None
  /\ selected = None /\ retained = None /\ stayed = None /\ mine = None /\ asked = None
  /\ changes = None /\ toggles = None /\ cache = None /\ after = None /\ stale = None
  /\ get = None /\ tracked = None /\ local = None /\ syncing = None /\ error = None
  /\ call = None /\ was = None /\ armed = None /\ poll = None /\ loaded = None /\ seen = None
  /\ theme = None /\ isOpen = None /\ draft = None /\ ack = None /\ pending = None
  /\ phase = None /\ closing = None /\ wanted = None /\ edits = None /\ cookie = None
  /\ store = None /\ tabs = None /\ net = None /\ heard = None /\ logins = None /\ loads = None
  /\ left = None /\ wants = None /\ revoked = None /\ behind = None /\ parent = None
  /\ sort = None /\ view = None /\ sent = None
NoRefreshViewBeside ==
  /\ listed = None /\ gen = None /\ events = None /\ data = None /\ req = None /\ silent = None
  /\ selected = None /\ retained = None /\ stayed = None /\ mine = None /\ asked = None
  /\ changes = None /\ toggles = None /\ rev = None /\ told = None /\ rows = None
  /\ counts = None /\ base = None /\ outbox = None /\ flush = None /\ mut = None /\ hand = None
  /\ fetch = None /\ others = None /\ strands = None /\ crossed = None /\ seen = None
  /\ theme = None /\ isOpen = None /\ draft = None /\ ack = None /\ pending = None
  /\ phase = None /\ closing = None /\ wanted = None /\ edits = None /\ cookie = None
  /\ store = None /\ tabs = None /\ net = None /\ heard = None /\ logins = None /\ loads = None
  /\ left = None /\ wants = None /\ revoked = None /\ behind = None /\ parent = None
  /\ sort = None /\ view = None /\ sent = None
NoPreferencesBeside ==
  /\ listed = None /\ gen = None /\ events = None /\ data = None /\ req = None /\ silent = None
  /\ selected = None /\ retained = None /\ stayed = None /\ mine = None /\ asked = None
  /\ changes = None /\ toggles = None /\ rev = None /\ told = None /\ rows = None
  /\ counts = None /\ base = None /\ outbox = None /\ flush = None /\ mut = None /\ hand = None
  /\ fetch = None /\ others = None /\ strands = None /\ crossed = None /\ after = None
  /\ stale = None /\ tracked = None /\ local = None /\ syncing = None /\ error = None
  /\ was = None /\ armed = None /\ poll = None /\ loaded = None /\ cookie = None /\ store = None
  /\ tabs = None /\ net = None /\ heard = None /\ logins = None /\ loads = None /\ left = None
  /\ wants = None /\ revoked = None /\ behind = None /\ parent = None /\ sort = None
  /\ view = None /\ sent = None
NoBrowserSessionBeside ==
  /\ listed = None /\ gen = None /\ events = None /\ data = None /\ req = None /\ silent = None
  /\ selected = None /\ retained = None /\ stayed = None /\ mine = None /\ asked = None
  /\ changes = None /\ toggles = None /\ rev = None /\ told = None /\ rows = None
  /\ counts = None /\ base = None /\ outbox = None /\ flush = None /\ mut = None /\ hand = None
  /\ fetch = None /\ others = None /\ strands = None /\ crossed = None /\ cache = None
  /\ after = None /\ stale = None /\ get = None /\ tracked = None /\ local = None
  /\ syncing = None /\ error = None /\ call = None /\ was = None /\ armed = None /\ poll = None
  /\ loaded = None /\ seen = None /\ theme = None /\ isOpen = None /\ draft = None /\ ack = None
  /\ pending = None /\ phase = None /\ closing = None /\ wanted = None /\ edits = None
  /\ parent = None /\ sort = None /\ view = None /\ sent = None
NoCategoryOrderBeside ==
  /\ listed = None /\ gen = None /\ events = None /\ data = None /\ req = None /\ silent = None
  /\ selected = None /\ retained = None /\ stayed = None /\ mine = None /\ asked = None
  /\ changes = None /\ toggles = None /\ server = None /\ rev = None /\ told = None
  /\ rows = None /\ counts = None /\ base = None /\ outbox = None /\ flush = None /\ mut = None
  /\ hand = None /\ fetch = None /\ others = None /\ faults = None /\ strands = None
  /\ crossed = None /\ cache = None /\ after = None /\ stale = None /\ get = None
  /\ tracked = None /\ local = None /\ syncing = None /\ error = None /\ call = None
  /\ was = None /\ armed = None /\ poll = None /\ loaded = None /\ seen = None /\ theme = None
  /\ isOpen = None /\ draft = None /\ ack = None /\ pending = None /\ phase = None
  /\ closing = None /\ wanted = None /\ edits = None /\ cookie = None /\ store = None
  /\ tabs = None /\ net = None /\ heard = None /\ logins = None /\ loads = None /\ left = None
  /\ wants = None /\ revoked = None /\ behind = None

Init ==
  \/ part = "pages" /\ Pages!Init /\ NoArticlePagesBeside
  \/ part = "unread" /\ UnreadList!Init /\ NoArticlePagesBeside
  \/ part = "toggles" /\ Toggled!Init /\ NoReadViewBeside
  \/ part = "overlaps" /\ Overlaps!Init /\ NoReadViewBeside
  \/ part = "saved" /\ SavedList!Init /\ NoReadViewBeside
  \/ part = "events" /\ Heard!Init /\ NoReadViewBeside
  \/ part = "tracks" /\ Tracked!Init /\ NoRefreshViewBeside
  \/ part = "panel" /\ Panel!Init /\ NoPreferencesBeside
  \/ part = "buttons" /\ Buttons!Init /\ NoPreferencesBeside
  \/ part = "leaving" /\ Leaving!Init /\ NoBrowserSessionBeside
  \/ part = "racing" /\ Racing!Init /\ NoBrowserSessionBeside
  \/ part = "staying" /\ Staying!Init /\ NoBrowserSessionBeside
  \/ part = "moves" /\ Moves!Init /\ NoCategoryOrderBeside
  \/ part = "between" /\ Between!Init /\ NoCategoryOrderBeside

Next ==
  /\ UNCHANGED part
  /\ \/ part = "pages" /\ Pages!Next /\ UNCHANGED BesideArticlePages
     \/ part = "unread" /\ UnreadList!Next /\ UNCHANGED BesideArticlePages
     \/ part = "toggles" /\ Toggled!Next /\ UNCHANGED BesideReadView
     \/ part = "overlaps" /\ Overlaps!Next /\ UNCHANGED BesideReadView
     \/ part = "saved" /\ SavedList!Next /\ UNCHANGED BesideReadView
     \/ part = "events" /\ Heard!Next /\ UNCHANGED BesideReadView
     \/ part = "tracks" /\ Tracked!Next /\ UNCHANGED BesideRefreshView
     \/ part = "panel" /\ Panel!Next /\ UNCHANGED BesidePreferences
     \/ part = "buttons" /\ Buttons!Next /\ UNCHANGED BesidePreferences
     \/ part = "leaving" /\ Leaving!Next /\ UNCHANGED BesideBrowserSession
     \/ part = "racing" /\ Racing!Next /\ UNCHANGED BesideBrowserSession
     \/ part = "staying" /\ Staying!Next /\ UNCHANGED BesideBrowserSession
     \/ part = "moves" /\ Moves!Next /\ UNCHANGED BesideCategoryOrder
     \/ part = "between" /\ Between!Next /\ UNCHANGED BesideCategoryOrder

vars == <<
  part, listed, gen, events, data, req, silent, selected, retained, stayed, mine, asked, changes,
  toggles, server, rev, told, rows, counts, base, outbox, flush, mut, hand, fetch, others,
  faults, strands, crossed, cache, after, stale, get, tracked, local, syncing, error, call, was,
  armed, poll, loaded, seen, theme, isOpen, draft, ack, pending, phase, closing, wanted, edits,
  cookie, store, tabs, net, heard, logins, loads, left, wants, revoked, behind, parent, sort,
  view, sent>>
Spec == Init /\ [][Next]_vars

Symmetry == Permutations({t1, t2})

-----------------------------------------------------------------------------
\* What the page, its caches and the stores of the browser hold keeps its types.
TypesHold ==
  /\ part = "pages" => Pages!TypeOK
  /\ part = "unread" => UnreadList!TypeOK
  /\ part = "toggles" => Toggled!TypeOK
  /\ part = "overlaps" => Overlaps!TypeOK
  /\ part = "saved" => SavedList!TypeOK
  /\ part = "events" => Heard!TypeOK
  /\ part = "tracks" => Tracked!TypeOK
  /\ part = "panel" => Panel!TypeOK
  /\ part = "buttons" => Buttons!TypeOK
  /\ part = "leaving" => Leaving!TypeOK
  /\ part = "racing" => Racing!TypeOK
  /\ part = "staying" => Staying!TypeOK
  /\ part = "moves" => Moves!TypeOK
  /\ part = "between" => Between!TypeOK

\* The pages show every article of the view once, and what was read here stays until a refresh.
PagesWhole ==
  /\ part = "pages" => Pages!NoGap /\ Pages!NoRepeat
  /\ part = "unread" => UnreadList!ReadHereStays

\* When all is over, rows show what the server has and counts what the rows show, whatever toggles,
\* roll-backs and events overlapped; but not the rows of an article whose change waits in the
\* outbox, or the answer to whose toggle crossed the event of a change elsewhere.
Agrees ==
  /\ part = "toggles" => Toggled!Agrees /\ Toggled!CountsFollow
  /\ part = "overlaps" => Overlaps!Agrees /\ Overlaps!CountsFollow
  /\ part = "saved" => SavedList!Agrees /\ SavedList!SavedListed
  /\ part = "events" => Heard!Agrees /\ Heard!CountsFollow

\* What the user has chosen in the panel is shown until it is saved, waits or is on its way until
\* then, and is not given up by closing.
DraftKept ==
  /\ part = "panel" => Panel!DraftKept /\ Panel!ClosedKept /\ Panel!OneSaveAtATime
  /\ part = "buttons" => Buttons!DraftKept /\ Buttons!ClosedKept /\ Buttons!OneSaveAtATime

\* Nothing is given up, and nobody comes back, without cause: a refresh is followed until the server
\* is done with it, queued changes are discarded only at a sign-out or a revocation, and after a
\* sign-out no page is signed in by itself. Where requests overlap or answers are lost, but for a
\* page that was starting at the sign-out and for a session whose newest token the browser may miss.
OnlyForCause ==
  [][/\ part = "tracks" => Tracked!GivenUpDone
     /\ part = "leaving" => Leaving!SignOutSticks /\ Leaving!SignOutRevokes'
     /\ part = "racing" => /\ Racing!SticksUnlessBehind /\ Racing!RevokesUnlessBehind'
                          /\ Racing!DiscardedUnlessBehind
     /\ part = "staying" => /\ Staying!SticksUnlessBehind /\ Staying!RevokesUnlessBehind'
                           /\ Staying!DiscardedForCause]_vars

\* A move in the sidebar ends as it was worked out there, and where the menu says.
MovesLand ==
  [][/\ part = "moves" => Moves!AsComputed /\ Moves!MenuTells
     /\ part = "between" => Between!AsComputed /\ Between!MenuTells]_vars
=============================================================================
