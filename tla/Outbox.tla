------------------------------- MODULE Outbox -------------------------------
(***************************************************************************)
(* The web client's outbox of article changes, and the server's ledger.    *)
(*                                                                         *)
(* A change (read or unread, saved or not) is put into the outbox, which   *)
(* all tabs of a browser share in IndexedDB, and sent by a flush: oldest   *)
(* first, one at a time, under a Web Lock where the browser has them.  The *)
(* server applies it if the client's base revision is current, and records *)
(* the result under the mutation's id; on a conflict the client rebases    *)
(* whatever the outbox then holds for the article, under a new id.         *)
(*                                                                         *)
(* Requests and answers are lost; a request the client gave up may still   *)
(* arrive (Late).  Other devices change articles, tabs are closed at any   *)
(* moment, articles are deleted, ledger records expire.                    *)
(***************************************************************************)
EXTENDS Naturals, Sequences

CONSTANTS
  Tab,        \* open tabs of one browser, of one account
  Item,       \* switches: an article together with read or saved
  None,       \* an unknown revision
  WebLocks,   \* whether the browser implements navigator.locks
  Late,       \* whether a request may arrive after the client gave it up
  MaxIntents, \* mutation ids after which the user makes no more changes
  MaxOthers,  \* bound on changes by other devices, deletions and expired records
  MaxFaults   \* bound on failed requests and closed tabs

ASSUME OutboxAssumption ==
  /\ Item # {} /\ None \notin Nat \cup BOOLEAN
  /\ WebLocks \in BOOLEAN /\ Late \in BOOLEAN
  /\ MaxIntents \in Nat /\ MaxOthers \in Nat /\ MaxFaults \in Nat

VARIABLES
  server,     \* article_reads or article_saves, and article_user_states
  gone,       \* items whose article has been deleted
  ledger,     \* article_state_mutations
  net,        \* requests on their way
  outbox,     \* the client's queued changes
  revisions,  \* the revisions the client has been told, by item
  typing,     \* where queueArticleStateMutation stands in each tab
  flush,      \* where flushOfflineArticleMutations stands in each tab
  ids,        \* mutation ids handed out so far
  others, faults,  \* what happened so far, for the bounds
  intent,     \* the value the user asked for last, by item
  effective,  \* ids of the changes that the server has accepted
  expired,    \* ids of the mutations whose ledger record has expired
  changes     \* how often each mutation has changed the server's state

serverVars == <<server, gone, ledger>>
history == <<intent, effective, expired, changes>>
vars == <<server, gone, ledger, net, outbox, revisions, typing, flush, ids, others, faults,
          intent, effective, expired, changes>>

Revision == Nat \cup {None}
Entry == [id : Nat, item : Item, want : BOOLEAN, base : Revision, createdAt : Nat]
NoEntry == [id |-> 0, item |-> CHOOSE i \in Item : TRUE, want |-> FALSE, base |-> None,
            createdAt |-> 0]
Answer == [state : BOOLEAN, rev : Nat, conflict : BOOLEAN, refused : BOOLEAN]
NoAnswer == [state |-> FALSE, rev |-> 0, conflict |-> FALSE, refused |-> FALSE]
Idle == [step |-> "idle", entry |-> NoEntry, answer |-> NoAnswer]
NotTyping == [on |-> FALSE, item |-> NoEntry.item, want |-> FALSE, rev |-> None]

TypeOK ==
  /\ server \in [Item -> [state : BOOLEAN, rev : Nat]]
  /\ gone \subseteq Item
  /\ \A l \in ledger : l \in [id : Nat, state : BOOLEAN, rev : Nat, applied : BOOLEAN]
  /\ \A a \in ledger, b \in ledger : a.id = b.id => a = b
  /\ \A q \in net : q.tab \in Tab /\ q.entry \in Entry
  /\ outbox \subseteq Entry
  /\ \A e, f \in outbox : e.item = f.item => e = f
  /\ revisions \in [Item -> Revision]
  /\ typing \in [Tab -> [on : BOOLEAN, item : Item, want : BOOLEAN, rev : Revision]]
  /\ flush \in [Tab -> [step : {"idle", "next", "sent", "answered", "stored"},
                        entry : Entry, answer : Answer]]

Init ==
  /\ server = [i \in Item |-> [state |-> FALSE, rev |-> 0]]
  /\ gone = {} /\ ledger = {} /\ net = {}
  /\ outbox = {}
  /\ revisions = [i \in Item |-> None]
  /\ typing = [t \in Tab |-> NotTyping]
  /\ flush = [t \in Tab |-> Idle]
  /\ ids = 0 /\ others = 0 /\ faults = 0
  /\ intent = [i \in Item |-> FALSE]
  /\ effective = {} /\ expired = {}
  /\ changes = <<>>

OutboxFree == WebLocks => \A t \in Tab : ~typing[t].on
FlushFree == WebLocks => \A t \in Tab : flush[t].step = "idle"

(***************************************************************************)
(* queueArticleStateMutation: under the outbox lock the known revision is  *)
(* read, and then the outbox is updated in a transaction of its own.       *)
(***************************************************************************)
Type(t, i, v) ==
  /\ ids < MaxIntents /\ ~typing[t].on /\ OutboxFree /\ i \notin gone
  /\ typing' = [typing EXCEPT ![t] = [on |-> TRUE, item |-> i, want |-> v,
                                      rev |-> revisions[i]]]
  /\ UNCHANGED <<serverVars, net, outbox, revisions, flush, ids, others, faults, history>>

Pending(i) == {e \in outbox : e.item = i}
Current(i) == CHOOSE e \in Pending(i) : TRUE

Without(i) == outbox \ Pending(i)

Queue(t) ==
  LET i == typing[t].item
      base == IF \E e \in Pending(i) : e.base # None THEN Current(i).base ELSE typing[t].rev
      entry == [id |-> ids + 1, item |-> i, want |-> typing[t].want, base |-> base,
                createdAt |-> ids + 1] IN
  /\ typing[t].on
  /\ outbox' = Without(i) \cup {entry}
  /\ ids' = ids + 1
  /\ intent' = [intent EXCEPT ![i] = typing[t].want]
  /\ changes' = Append(changes, 0)
  /\ typing' = [typing EXCEPT ![t] = NotTyping]
  /\ UNCHANGED <<serverVars, net, revisions, flush, others, faults, effective, expired>>

(***************************************************************************)
(* flushOfflineArticleMutations, after a change, on reconnecting, when the *)
(* app starts and when the user asks for it.                               *)
(***************************************************************************)
Start(t) ==
  /\ flush[t].step = "idle" /\ FlushFree /\ outbox # {}
  /\ flush' = [flush EXCEPT ![t].step = "next"]
  /\ UNCHANGED <<serverVars, net, outbox, revisions, typing, ids, others, faults, history>>

\* createdAt, a time in the code, is here the order in which changes were queued.
Oldest(e) == e \in outbox /\ \A f \in outbox : e.createdAt <= f.createdAt

Send(t) ==
  /\ flush[t].step = "next"
  /\ \E e \in outbox :
       /\ Oldest(e)
       /\ net' = net \cup {[tab |-> t, entry |-> e]}
       /\ flush' = [flush EXCEPT ![t] = [Idle EXCEPT !.step = "sent", !.entry = e]]
  /\ UNCHANGED <<serverVars, outbox, revisions, typing, ids, others, faults, history>>

End(t) ==
  /\ flush[t].step = "next" /\ outbox = {}
  /\ flush' = [flush EXCEPT ![t] = Idle]
  /\ UNCHANGED <<serverVars, net, outbox, revisions, typing, ids, others, faults, history>>

\* The answer's revision is stored, in a transaction of its own.
StoreRevision(t) ==
  /\ flush[t].step = "answered" /\ ~flush[t].answer.refused
  /\ revisions' = [revisions EXCEPT ![flush[t].entry.item] = flush[t].answer.rev]
  /\ flush' = [flush EXCEPT ![t].step = "stored"]
  /\ UNCHANGED <<serverVars, net, outbox, typing, ids, others, faults, history>>

\* Mutant of Remove: by article instead of by mutation id.
RemoveByItem(e) == Without(e.item)

\* Mutant of Remove: nothing is removed, as when the id had changed.
RemoveNothing(e) == outbox

\* removeMutationIfCurrent.
Remove(e) == {f \in outbox : f.id # e.id}

Accept(t) ==
  /\ flush[t].step = "stored" /\ ~flush[t].answer.conflict /\ OutboxFree
  /\ outbox' = Remove(flush[t].entry)
  /\ flush' = [flush EXCEPT ![t].step = "next"]
  /\ UNCHANGED <<serverVars, net, revisions, typing, ids, others, faults, history>>

\* rebaseMutation, of whatever the outbox holds for the item by now.
Rebased(e, rev) == [e EXCEPT !.id = ids + 1, !.base = rev]

Rebase(t) ==
  LET i == flush[t].entry.item IN
  /\ flush[t].step = "stored" /\ flush[t].answer.conflict /\ OutboxFree
  /\ outbox' = Without(i) \cup {Rebased(e, flush[t].answer.rev) : e \in Pending(i)}
  /\ IF Pending(i) = {} THEN UNCHANGED <<ids, changes>>
     ELSE ids' = ids + 1 /\ changes' = Append(changes, 0)
  /\ flush' = [flush EXCEPT ![t].step = "next"]
  /\ UNCHANGED <<serverVars, net, revisions, typing, others, faults, intent, effective,
                 expired>>

\* An error that repeating does not mend: the change is given up.
Discard(t) ==
  /\ flush[t].step = "answered" /\ flush[t].answer.refused /\ OutboxFree
  /\ outbox' = Remove(flush[t].entry)
  /\ flush' = [flush EXCEPT ![t].step = "next"]
  /\ UNCHANGED <<serverVars, net, revisions, typing, ids, others, faults, history>>

(***************************************************************************)
(* The server: setArticleReadState and setArticleSavedState.               *)
(***************************************************************************)
Conflict(e) == e.base # None /\ e.base # server[e.item].rev
Changed(e) == ~Conflict(e) /\ server[e.item].state # e.want
After(e) == IF Changed(e) THEN [state |-> e.want, rev |-> server[e.item].rev + 1]
            ELSE server[e.item]

Recorded(e) == {l \in ledger : l.id = e.id}

\* The client that still waits for this request gets the answer.
Reply(q, answer) ==
  flush' = IF flush[q.tab].step = "sent" /\ flush[q.tab].entry = q.entry
           THEN [flush EXCEPT ![q.tab].step = "answered", ![q.tab].answer = answer] ELSE flush

Serve(q) ==
  LET e == q.entry
      conflict == Conflict(e) IN
  /\ e.item \notin gone /\ Recorded(e) = {}
  /\ net' = net \ {q}
  /\ server' = [server EXCEPT ![e.item] = After(e)]
  /\ ledger' = {l \in ledger : l.id # e.id}
               \cup {[id |-> e.id, state |-> After(e).state, rev |-> After(e).rev,
                      applied |-> ~conflict]}
  /\ Reply(q, [state |-> After(e).state, rev |-> After(e).rev, conflict |-> conflict,
               refused |-> FALSE])
  /\ effective' = IF conflict THEN effective ELSE effective \cup {e.id}
  /\ changes' = IF Changed(e) THEN [changes EXCEPT ![e.id] = @ + 1] ELSE changes
  /\ UNCHANGED <<gone, outbox, revisions, typing, ids, others, faults, intent, expired>>

\* A mutation the ledger knows gets the answer it got the first time.
ServeAgain(q) ==
  /\ q.entry.item \notin gone
  /\ \E l \in Recorded(q.entry) :
       Reply(q, [state |-> l.state, rev |-> l.rev, conflict |-> ~l.applied, refused |-> FALSE])
  /\ net' = net \ {q}
  /\ UNCHANGED <<serverVars, outbox, revisions, typing, ids, others, faults, history>>

Refuse(q) ==
  /\ q.entry.item \in gone
  /\ net' = net \ {q}
  /\ Reply(q, [NoAnswer EXCEPT !.refused = TRUE])
  /\ UNCHANGED <<serverVars, outbox, revisions, typing, ids, others, faults, history>>

Served(q) == Serve(q) \/ ServeAgain(q) \/ Refuse(q)

(***************************************************************************)
(* Other devices, time and failures.                                       *)
(***************************************************************************)
Other == others < MaxOthers /\ others' = others + 1

\* Another device sets an item, by PATCH or by marking everything read.
OtherDevice(i) ==
  /\ Other /\ i \notin gone
  /\ server' = [server EXCEPT ![i] = [state |-> ~@.state, rev |-> @.rev + 1]]
  /\ UNCHANGED <<gone, ledger, net, outbox, revisions, typing, flush, ids, faults, history>>

\* cleanupArticleStateMutations.
Expire(l) ==
  /\ Other
  /\ ledger' = ledger \ {l}
  /\ expired' = expired \cup {l.id}
  /\ UNCHANGED <<server, gone, net, outbox, revisions, typing, flush, ids, faults,
                 intent, effective, changes>>

\* The article is deleted with its feed, and what refers to it with the article.
Delete(i) ==
  /\ Other /\ i \notin gone
  /\ gone' = gone \cup {i}
  /\ UNCHANGED <<server, ledger, net, outbox, revisions, typing, flush, ids, faults, history>>

Fault == faults < MaxFaults /\ faults' = faults + 1

\* The request fails, times out or is answered by a transient error; the flush
\* ends and the entry stays.
GiveUp(t) ==
  /\ Fault /\ flush[t].step \in {"sent", "answered"}
  /\ flush' = [flush EXCEPT ![t] = Idle]
  /\ net' = IF Late THEN net ELSE {q \in net : q.tab # t}
  /\ UNCHANGED <<serverVars, outbox, revisions, typing, ids, others, history>>

\* A tab is closed, or reloaded.
Close(t) ==
  /\ Fault
  /\ flush[t].step # "idle" \/ typing[t].on
  /\ flush' = [flush EXCEPT ![t] = Idle]
  /\ typing' = [typing EXCEPT ![t] = NotTyping]
  /\ net' = IF Late THEN net ELSE {q \in net : q.tab # t}
  /\ UNCHANGED <<serverVars, outbox, revisions, ids, others, history>>

Flushing(t) == Send(t) \/ End(t) \/ StoreRevision(t) \/ Accept(t) \/ Rebase(t) \/ Discard(t)

Next ==
  \/ \E t \in Tab : Queue(t) \/ Start(t) \/ Flushing(t) \/ GiveUp(t) \/ Close(t)
                    \/ \E i \in Item, v \in BOOLEAN : Type(t, i, v)
  \/ \E q \in net : Served(q)
  \/ \E i \in Item : OtherDevice(i) \/ Delete(i)
  \/ \E l \in ledger : Expire(l)

Spec == Init /\ [][Next]_vars

\* The network delivers, transactions commit, and what starts a flush (a change,
\* going online, opening the app, Retry) happens again as long as one is needed.
Fairness ==
  /\ \A t \in Tab : WF_vars(Queue(t)) /\ WF_vars(Flushing(t)) /\ WF_vars(Start(t))
  /\ WF_vars(\E q \in net : Served(q))
FairSpec == Spec /\ Fairness

(***************************************************************************)
(* Properties.                                                             *)
(***************************************************************************)
\* Once nothing is on its way, and no other device interferes, an item has the
\* value the user asked for last: neither lost answers, nor repeated requests,
\* nor two tabs that flush at once bring an earlier one back.
LastIntentWins ==
  \A i \in Item \ gone :
    /\ others = 0 /\ Pending(i) = {} /\ \A q \in net : q.entry.item # i
    => server[i].state = intent[i]

\* However often it is sent, a mutation changes the server at most once, as long as
\* the server has its record: not again after another device has undone it.
ChangedOnce == \A id \in DOMAIN changes : changes[id] <= 1 \/ id \in expired

\* Every change the user makes leaves the outbox in the end.
OutboxDrains == \A i \in Item : Pending(i) # {} ~> Pending(i) = {}

\* What the user is promised: a change is forgotten only once it took effect,
\* unless its article is gone.
Wanted(i) == IF Pending(i) = {} THEN None ELSE Current(i).want
Done(i) == Pending(i) # {} /\ Current(i).id \in effective
Promise == INSTANCE Intents WITH
             state <- [i \in Item |-> server[i].state],
             wanted <- [i \in Item |-> Wanted(i)],
             done <- [i \in Item |-> Done(i)]
KeepsPromise == Promise!Spec
=============================================================================
