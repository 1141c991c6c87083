------------------------------ MODULE ReadView ------------------------------
(***************************************************************************)
(* What one tab of the web client shows of its articles' read and saved    *)
(* state (hooks/queries/article-hooks.ts, article-mutation-rollback.ts,    *)
(* cache-utils.ts and the cache updates it exports).                       *)
(*                                                                         *)
(* A toggle is shown at once, queued in the outbox, and settled when the   *)
(* flush it joined ends: by the server's answer, or by a roll-back to the  *)
(* state before the first of the toggles that overlap.  Events of other    *)
(* devices change the same rows and counts, and a request for a list       *)
(* replaces its rows by what the server read at the time.                  *)
(*                                                                         *)
(* All articles are of one feed and category.  Outbox has the flush in     *)
(* detail; lost answers, which its ledger settles, are left out here.      *)
(***************************************************************************)
EXTENDS Integers, Sequences, FiniteSets

CONSTANTS
  Article,
  View,      \* the cached lists: some of "all", "unread" and "saved"
  None,      \* no row
  Unknown,   \* a state that nobody told
  Baseline,  \* the state to roll back to
  Refreshes, \* whether lists are asked for again
  MaxToggles, MaxOthers,  \* bounds
  MaxFaults, \* bound: refusals of the server and of the outbox
  MaxStrands \* bound: changes that a flush leaves in the outbox

Row == [read : BOOLEAN, saved : BOOLEAN]

ReadViewAssumption ==
  /\ None \notin Row /\ {Unknown, Baseline} \cap BOOLEAN = {} /\ Unknown # Baseline
  /\ View \subseteq {"all", "unread", "saved"}
  /\ Refreshes \in BOOLEAN
  /\ {MaxToggles, MaxOthers, MaxFaults, MaxStrands} \subseteq Nat

Kind == {"read", "saved"}
Toggles == 1..MaxToggles

VARIABLES
  server,    \* article |-> its row
  rev,       \* <<article, kind>> |-> revision
  told,      \* revisions the client has been told; 0: none
  rows,      \* view |-> article |-> row or None
  counts,    \* unread articles as the sidebar's feed, its category and the statistics have them
  base,      \* <<article, kind>> |-> RollbackBaseline
  outbox, flush, mut,
  events,    \* on the stream
  hand,      \* the event whose check of the outbox is done
  fetch,     \* the request for a list
  others, faults, strands,
  crossed    \* history, for the properties: items whose news cross

system == <<server, rev, told, rows, counts, base, outbox, flush, mut, events, hand, fetch,
            others, faults, strands>>
vars == <<system, crossed>>

Item == Article \X Kind
State == BOOLEAN \cup {Unknown, Baseline}
Value(row, k) == IF row = None THEN Unknown ELSE row[k]
NoBase == [state |-> Unknown, active |-> 0, snap |-> None]
NoMut == [at |-> "new", item |-> <<CHOOSE a \in Article : TRUE, "read">>, want |-> FALSE,
          state |-> Unknown]
NoFlush == [at |-> "idle", entry |-> <<>>, state |-> Unknown, conflict |-> FALSE,
            rev |-> 0, results |-> <<>>]
NoEvent == [kind |-> "none", a |-> NoMut.item[1], state |-> FALSE, marked |-> 0]
NoFetch == [view |-> "none", got |-> FALSE, rows |-> [a \in Article |-> None]]

Belongs(v, row) == CASE v = "all" -> TRUE
                     [] v = "unread" -> ~row.read
                     [] v = "saved" -> row.saved
Served(v) == [a \in Article |-> IF Belongs(v, server[a]) THEN server[a] ELSE None]
Unread(f) == Cardinality({a \in Article : f[a] # None /\ ~f[a].read})

TypeOK ==
  /\ server \in [Article -> Row] /\ rows \in [View -> [Article -> Row \cup {None}]]
  /\ counts \in [{"feed", "category", "stats"} -> Nat]
  /\ rev \in [Item -> Nat] /\ told \in [Item -> Nat]
  /\ base \in [Item -> [state : State, active : 0..MaxToggles, snap : Row \cup {None}]]
  /\ \A m \in Toggles : /\ mut[m].at \in {"new", "queueing", "flushing", "checking", "done"}
                        /\ mut[m].item \in Item /\ mut[m].state \in State
  /\ flush.at \in {"idle", "head", "sent", "answered", "ending"}
  /\ crossed \subseteq Item

Init ==
  /\ server \in [Article -> Row]
  /\ rows = [v \in View |-> Served(v)]
  /\ counts = [c \in {"feed", "category", "stats"} |-> Unread(server)]
  /\ rev = [i \in Item |-> 0] /\ told = [i \in Item |-> 0] /\ base = [i \in Item |-> NoBase]
  /\ outbox = <<>> /\ flush = NoFlush /\ mut = [m \in Toggles |-> NoMut]
  /\ events = <<>> /\ hand = NoEvent /\ fetch = NoFetch
  /\ others = 0 /\ faults = 0 /\ strands = 0 /\ crossed = {}

-----------------------------------------------------------------------------
(* The cache. *)

\* findCachedArticleSnapshot, findCachedArticleListItem: the first row there is.
Found(a) ==
  LET has == {v \in View : rows[v][a] # None} IN
  CASE has = {} -> None
    [] "all" \in has -> rows["all"][a]
    [] "all" \notin has /\ "unread" \in has -> rows["unread"][a]
    [] OTHER -> rows["saved"][a]

ReadRows(a, read) ==
  [v \in View |-> [rows[v] EXCEPT ![a] = IF @ = None THEN @ ELSE [@ EXCEPT !.read = read]]]

Lowered(n, delta) == IF n + delta < 0 THEN 0 ELSE n + delta

Counted(was, read) ==
  IF was = read THEN counts
  ELSE [c \in DOMAIN counts |-> Lowered(counts[c], IF read THEN -1 ELSE 1)]

\* Mutant of ShownRead: the row that an unsaving took away is forgotten.
ShownReadLost(a, read, known, bases) ==
  /\ rows' = ReadRows(a, read)
  /\ counts' = IF known = None THEN counts ELSE Counted(known.read, read)
  /\ base' = bases

\* reconcileArticleReadState
ShownRead(a, read, known, bases) ==
  /\ rows' = ReadRows(a, read)
  /\ counts' = IF known = None THEN counts ELSE Counted(known.read, read)
  /\ base' = [bases EXCEPT ![<<a, "saved">>].snap =
                IF @ = None THEN @ ELSE [@ EXCEPT !.read = read]]

\* Mutant of SavedRows: what is not in a list any more is not put back.
SavedRowsGone(a, saved, fallback) ==
  [v \in View |-> [rows[v] EXCEPT ![a] =
     IF v = "saved" /\ ~saved THEN None ELSE IF @ = None THEN @ ELSE [@ EXCEPT !.saved = saved]]]

\* applyArticleSavedState
SavedRows(a, saved, fallback) ==
  LET snap == IF ~saved THEN None ELSE IF Found(a) # None THEN Found(a) ELSE fallback IN
  [v \in View |-> [rows[v] EXCEPT ![a] =
     CASE v = "saved" /\ ~saved -> None
       [] v = "saved" /\ saved /\ @ = None /\ snap # None -> [snap EXCEPT !.saved = TRUE]
       [] @ # None /\ ~(v = "saved" /\ ~saved) -> [@ EXCEPT !.saved = saved]
       [] OTHER -> @]]

Known(a) == IF Found(a) # None THEN Found(a) ELSE base[<<a, "saved">>].snap

\* What settling a toggle shows.
Shown(i, state, bases) ==
  IF i[2] = "read" THEN ShownRead(i[1], state, Known(i[1]), bases)
  ELSE /\ rows' = SavedRows(i[1], state, base[i].snap)
       /\ base' = bases
       /\ UNCHANGED counts

-----------------------------------------------------------------------------
(* useMarkRead and useSetArticleSaved. *)

\* Mutant of Begun: each toggle keeps the state it found itself.
BegunAnew(i) ==
  [base EXCEPT ![i] = [state |-> Value(Found(i[1]), i[2]), active |-> @.active + 1,
                       snap |-> IF i[2] = "saved" THEN Found(i[1]) ELSE None]]

\* beginArticleMutation
Begun(i) ==
  [base EXCEPT ![i] =
     IF @.active > 0 THEN [@ EXCEPT !.active = @ + 1]
     ELSE [state |-> Value(IF i[2] = "read" THEN Known(i[1]) ELSE Found(i[1]), i[2]),
           active |-> 1, snap |-> IF i[2] = "saved" THEN Found(i[1]) ELSE None]]

\* onMutate: requests on their way are cancelled, and the toggle is shown.
Toggle(m, i) ==
  LET want == ~Found(i[1])[i[2]] IN
  /\ mut[m].at = "new" /\ \A n \in Toggles : n < m => mut[n].at # "new"
  /\ Found(i[1]) # None
  /\ mut' = [mut EXCEPT ![m] = [at |-> "queueing", item |-> i, want |-> want, state |-> Unknown]]
  /\ Shown(i, want, Begun(i))
  /\ fetch' = NoFetch
  /\ UNCHANGED <<server, rev, told, outbox, flush, events, hand, others, faults, strands>>

Pending(i) == \E n \in DOMAIN outbox : outbox[n].item = i

\* queueArticleStateMutation, and the flush that is under way or a new one;
\* one that is ending will not send the change.
Queue(m) ==
  LET i == mut[m].item
      old == {n \in DOMAIN outbox : outbox[n].item = i}
      since == IF old # {} THEN outbox[CHOOSE n \in old : TRUE].since ELSE told[i] IN
  /\ mut[m].at = "queueing" /\ \A n \in Toggles : n < m => mut[n].at # "queueing"
  /\ outbox' = Append(SelectSeq(outbox, LAMBDA e : e.item # i),
                      [m |-> m, item |-> i, want |-> mut[m].want, since |-> since])
  /\ mut' = [mut EXCEPT ![m].at = "flushing"]
  /\ flush' = IF flush.at = "idle" THEN [flush EXCEPT !.at = "head"] ELSE flush
  /\ strands' = IF flush.at = "ending" THEN strands + 1 ELSE strands
  /\ strands' <= MaxStrands
  /\ UNCHANGED <<server, rev, told, rows, counts, base, events, hand, fetch,
                 others, faults>>

\* The outbox cannot be written: onError's state is that of the baseline.
QueueFails(m) ==
  /\ mut[m].at = "queueing" /\ \A n \in Toggles : n < m => mut[n].at # "queueing"
  /\ faults < MaxFaults /\ faults' = faults + 1
  /\ mut' = [mut EXCEPT ![m].at = "checking", ![m].state = Baseline]
  /\ UNCHANGED <<server, rev, told, rows, counts, base, outbox, flush, events, hand, fetch,
                 others, strands>>

\* hasPendingArticleStateMutation, what is then shown, and onSettled.
Check(m) ==
  LET i == mut[m].item
      state == IF mut[m].state = Baseline THEN base[i].state ELSE mut[m].state
      left == base[i].active - 1
      over(b) == IF left = 0 THEN [b EXCEPT ![i] = NoBase] ELSE [b EXCEPT ![i].active = left] IN
  /\ mut[m].at = "checking"
  /\ IF state = Unknown \/ Pending(i)
     THEN base' = over(base) /\ UNCHANGED <<rows, counts>>
     ELSE Shown(i, state, over(base))
  /\ mut' = [mut EXCEPT ![m] = [NoMut EXCEPT !.at = "done", !.item = i]]
  /\ UNCHANGED <<server, rev, told, outbox, flush, events, hand, fetch, others, faults, strands>>

-----------------------------------------------------------------------------
(* flushOfflineArticleMutations; the outbox is one store, whose operations *)
(* take effect in their order. *)

NoneChecks == \A m \in Toggles : mut[m].at # "checking"

Send ==
  /\ flush.at = "head"
  /\ flush' = IF outbox = <<>> THEN [flush EXCEPT !.at = "ending"]
              ELSE [flush EXCEPT !.at = "sent", !.entry = Head(outbox)]
  /\ UNCHANGED <<server, rev, told, rows, counts, base, outbox, mut, events, hand, fetch,
                 others, faults, strands>>

\* The server accepts the change, or answers what it has instead.
Serve ==
  LET e == flush.entry
      i == e.item
      conflict == e.since # 0 /\ e.since # rev[i] IN
  /\ flush.at = "sent"
  /\ server' = IF conflict THEN server ELSE [server EXCEPT ![i[1]][i[2]] = e.want]
  /\ rev' = IF conflict THEN rev ELSE [rev EXCEPT ![i] = @ + 1]
  /\ flush' = [flush EXCEPT !.at = "answered", !.conflict = conflict, !.rev = rev'[i],
                            !.state = IF conflict THEN server[i[1]][i[2]] ELSE e.want]
  /\ UNCHANGED <<told, rows, counts, base, outbox, mut, events, hand, fetch,
                 others, faults, strands>>

Removed(m) == SelectSeq(outbox, LAMBDA e : e.m # m)

Store ==
  LET e == flush.entry
      i == e.item IN
  /\ flush.at = "answered" /\ NoneChecks
  /\ told' = [told EXCEPT ![i] = flush.rev]
  /\ outbox' = IF flush.conflict
               THEN [n \in DOMAIN outbox |-> IF outbox[n].item # i THEN outbox[n]
                                             ELSE [outbox[n] EXCEPT !.since = flush.rev]]
               ELSE Removed(e.m)
  /\ flush' = [NoFlush EXCEPT !.at = "head",
                 !.results = Append(flush.results, [item |-> i, state |-> flush.state])]
  /\ UNCHANGED <<server, rev, rows, counts, base, mut, events, hand, fetch,
                 others, faults, strands>>

\* The server refuses it for good.
Refuse ==
  /\ flush.at = "sent" /\ NoneChecks
  /\ faults < MaxFaults /\ faults' = faults + 1
  /\ outbox' = Removed(flush.entry.m)
  /\ flush' = [NoFlush EXCEPT !.at = "head",
                 !.results = Append(flush.results, [item |-> flush.entry.item, state |-> Baseline])]
  /\ UNCHANGED <<server, rev, told, rows, counts, base, mut, events, hand, fetch,
                 others, strands>>

\* settledArticleState, for every toggle that waits for the flush.
Ended(results) ==
  LET of(i) == SelectSeq(results, LAMBDA r : r.item = i)
      answers(i) == SelectSeq(of(i), LAMBDA r : r.state \notin {Baseline, Unknown})
      kept(i) == IF base[i].active = 0 \/ answers(i) = <<>> THEN base[i].state
                 ELSE answers(i)[Len(answers(i))].state
      last(i) == IF of(i) = <<>> THEN Unknown
                 ELSE IF of(i)[Len(of(i))].state = Baseline THEN kept(i)
                 ELSE of(i)[Len(of(i))].state
      waits == {m \in Toggles : mut[m].at = "flushing"} IN
  /\ mut' = [m \in Toggles |-> IF m \notin waits THEN mut[m]
                               ELSE [mut[m] EXCEPT !.at = "checking",
                                                   !.state = last(mut[m].item)]]
  /\ base' = [i \in Item |-> IF \E m \in waits : mut[m].item = i
                             THEN [base[i] EXCEPT !.state = kept(i)] ELSE base[i]]
  /\ flush' = NoFlush

FlushEnds ==
  /\ flush.at = "ending" /\ Ended(flush.results)
  /\ UNCHANGED <<server, rev, told, rows, counts, outbox, events, hand, fetch,
                 others, faults, strands>>

\* The server is away: what is queued stays.
FlushBreaks ==
  /\ flush.at = "sent" /\ strands < MaxStrands /\ strands' = strands + 1
  /\ Ended(Append(flush.results, [item |-> flush.entry.item, state |-> Unknown]))
  /\ UNCHANGED <<server, rev, told, rows, counts, outbox, events, hand, fetch, others, faults>>

-----------------------------------------------------------------------------
(* Other devices, their events, and requests for lists. *)

Other(i) ==
  LET state == ~server[i[1]][i[2]] IN
  /\ others < MaxOthers /\ others' = others + 1
  /\ server' = [server EXCEPT ![i[1]][i[2]] = state]
  /\ rev' = [rev EXCEPT ![i] = @ + 1]
  /\ events' = Append(events, [kind |-> i[2], a |-> i[1], state |-> state, marked |-> 0])
  /\ UNCHANGED <<told, rows, counts, base, outbox, flush, mut, hand, fetch, faults, strands>>

OtherMarksAll ==
  LET unread == {a \in Article : ~server[a].read} IN
  /\ others < MaxOthers /\ others' = others + 1 /\ unread # {}
  /\ server' = [a \in Article |-> [server[a] EXCEPT !.read = TRUE]]
  /\ rev' = [i \in Item |-> IF i[2] = "read" /\ i[1] \in unread THEN rev[i] + 1 ELSE rev[i]]
  /\ events' = Append(events, [NoEvent EXCEPT !.kind = "all", !.marked = Cardinality(unread)])
  /\ UNCHANGED <<told, rows, counts, base, outbox, flush, mut, hand, fetch, faults, strands>>

\* reconcileRealtimeEvent: an event that contradicts a queued change is left.
Receive ==
  LET e == Head(events)
      against == \E n \in DOMAIN outbox : /\ e.kind # "all" /\ outbox[n].item = <<e.a, e.kind>>
                                          /\ outbox[n].want # e.state IN
  /\ events # <<>> /\ hand = NoEvent
  /\ events' = Tail(events)
  /\ hand' = IF against THEN NoEvent ELSE e
  /\ UNCHANGED <<server, rev, told, rows, counts, base, outbox, flush, mut, fetch,
                 others, faults, strands>>

\* Mutant of ReadEvent: the counts follow every event.
ReadEventAlways(e) == /\ rows' = ReadRows(e.a, e.state)
                      /\ counts' = Counted(~e.state, e.state)

ReadEvent(e) == /\ rows' = ReadRows(e.a, e.state)
                /\ counts' = Counted(IF Found(e.a) = None THEN ~e.state ELSE Found(e.a).read,
                                     e.state)

MarkedEvent(e) ==
  /\ rows' = [v \in View |-> [a \in Article |->
                IF rows[v][a] = None \/ v = "unread" THEN None
                ELSE [rows[v][a] EXCEPT !.read = TRUE]]]
  /\ counts' = [feed |-> 0, category |-> Lowered(counts.category, -counts.feed),
                stats |-> Lowered(counts.stats, -e.marked)]

\* applyReadStateSyncEvent
ApplyEvent ==
  /\ hand # NoEvent
  /\ CASE hand.kind = "read" -> ReadEvent(hand)
       [] hand.kind = "saved" -> /\ rows' = SavedRows(hand.a, hand.state, None)
                                 /\ UNCHANGED counts
       [] hand.kind = "all" -> MarkedEvent(hand)
  /\ fetch' = IF hand.kind = "read" /\ ~hand.state THEN NoFetch ELSE fetch
  /\ hand' = NoEvent
  /\ UNCHANGED <<server, rev, told, base, outbox, flush, mut, events, others, faults, strands>>

\* A list is asked for: its rows become what the server has when it answers.
Fetch(v) ==
  /\ fetch = NoFetch /\ Refreshes
  /\ fetch' = [NoFetch EXCEPT !.view = v]
  /\ UNCHANGED <<server, rev, told, rows, counts, base, outbox, flush, mut, events, hand,
                 others, faults, strands>>

FetchServed ==
  /\ fetch # NoFetch /\ ~fetch.got
  /\ fetch' = [fetch EXCEPT !.got = TRUE, !.rows = Served(fetch.view)]
  /\ UNCHANGED <<server, rev, told, rows, counts, base, outbox, flush, mut, events, hand,
                 others, faults, strands>>

\* Mutant of HasChanged: only articles that are new count.
HasChangedNew(old, new) == \E a \in Article : old[a] = None /\ new[a] # None

\* firstPageHasChanged
HasChanged(old, new) == old # new

FetchShown ==
  /\ fetch.got
  /\ rows' = IF HasChanged(rows[fetch.view], fetch.rows)
             THEN [rows EXCEPT ![fetch.view] = fetch.rows] ELSE rows
  /\ fetch' = NoFetch
  /\ UNCHANGED <<server, rev, told, counts, base, outbox, flush, mut, events, hand,
                 others, faults, strands>>

Over == /\ \A m \in Toggles : mut[m].at \in {"new", "done"}
        /\ flush.at = "idle" /\ events = <<>> /\ hand = NoEvent /\ fetch = NoFetch

Step ==
  \/ \E m \in Toggles : \/ \E i \in Item : Toggle(m, i)
                        \/ Queue(m) \/ QueueFails(m) \/ Check(m)
  \/ Send \/ Serve \/ Store \/ Refuse \/ FlushEnds \/ FlushBreaks
  \/ \E i \in Item : Other(i)
  \/ OtherMarksAll \/ Receive \/ ApplyEvent
  \/ \E v \in View : Fetch(v)
  \/ FetchServed \/ FetchShown

-----------------------------------------------------------------------------
(* History, for the properties: nothing orders the answer to a toggle and the event of a *)
(* change elsewhere, and nobody waits for the answer to a change that a flush has left   *)
(* behind.  An item of which there are both, or such a change, has crossed until the     *)
(* server has answered or another device changes it with nothing else under way.         *)

\* A toggle of the item, or an answer to one, is under way.
Held(i) == \/ base[i].active > 0 \/ Pending(i)
           \/ \E n \in DOMAIN flush.results : flush.results[n].item = i

\* An event of the item is under way.
Away(i) ==
  LET about(e) == (e.kind = i[2] /\ e.a = i[1]) \/ (e.kind = "all" /\ i[2] = "read") IN
  about(hand) \/ \E n \in DOMAIN events : about(events[n])

\* A toggle waits for the answer to what is in the outbox.
Waits(i) == \E m \in Toggles : mut[m].at = "flushing" /\ mut[m].item = i
Stranded(i) == Pending(i) /\ ~Waits(i)

\* The server answers the last toggle of the item, and no event is under way.
Answered(i) ==
  /\ flush.at = "sent" /\ flush'.at = "answered" /\ flush.entry.item = i /\ ~Away(i)
  /\ \/ Waits(i)
     \/ \A m \in Toggles : mut[m].item = i /\ mut[m].at # "new" => m <= flush.entry.m

\* Another device changes an item that nothing is under way of.
Changed(i) == rev'[i] # rev[i] /\ others' # others /\ ~Held(i)

Crossed ==
  {i \in Item : \/ i \in crossed /\ ~Answered(i) /\ ~Changed(i)
                \/ (Held(i) /\ Away(i))' \/ Stranded(i)'}

Next == Step /\ crossed' = Crossed

Spec == Init /\ [][Next]_vars

-----------------------------------------------------------------------------
(* When all is over, a row shows what the server has, if no change of the  *)
(* article waits in the outbox and its news have not crossed: answers,     *)
(* refusals and roll-backs of overlapping toggles, events that come before *)
(* the answer or after it has been shown, and flushes that break off leave *)
(* nothing that the server does not have.                                  *)
Agrees ==
  Over => \A v \in View, i \in Item :
    rows[v][i[1]] # None /\ ~Pending(i) /\ i \notin crossed =>
      rows[v][i[1]][i[2]] = server[i[1]][i[2]]

(* The same of items whose news have crossed, which the client does not    *)
(* keep.                                                                   *)
AgreesAlways ==
  Over => \A v \in View, i \in Item :
    rows[v][i[1]] # None /\ ~Pending(i) => rows[v][i[1]][i[2]] = server[i[1]][i[2]]

(* What other devices change is what the rows show once the events have    *)
(* come, of every article that is not toggled here.                        *)
Followed ==
  Over => \A v \in View, i \in Item :
    rows[v][i[1]] # None /\ (\A m \in Toggles : mut[m].at # "done" \/ mut[m].item # i)
      => rows[v][i[1]][i[2]] = server[i[1]][i[2]]

(* A saved article is in the list of saved articles when all is over, also *)
(* when it was taken out of it and the server refused that.                *)
SavedListed ==
  Over /\ "saved" \in View =>
    \A a \in Article : ~Pending(<<a, "saved">>) /\ (Found(a) # None \/ server[a].saved) =>
      (rows["saved"][a] # None) = server[a].saved

(* The number of unread articles at the feed follows the rows, whatever    *)
(* order toggles, roll-backs and events come in.                           *)
CountsFollow == "all" \in View => counts.feed = Unread(rows["all"]) /\ counts.category = counts.feed

(* A change that still waits is what the rows show: it has been made       *)
(* visible, and nothing older replaces it.                                 *)
IntentShown ==
  Over => \A n \in DOMAIN outbox, v \in View :
    LET e == outbox[n] IN
    rows[v][e.item[1]] # None => rows[v][e.item[1]][e.item[2]] = e.want
=============================================================================
