---------------------------- MODULE Outbox_proofs ----------------------------
(***************************************************************************)
(* Theorems about Outbox, for every value of its constants: with or        *)
(* without Web Locks, and with requests that arrive after the client gave  *)
(* them up.                                                                *)
(*                                                                         *)
(*   TypesHold       Spec => []TypeOK                                      *)
(*   AppliedOnce     Spec => []ChangedOnce                                 *)
(*   PromiseKept     Spec => KeepsPromise                                  *)
(*                                                                         *)
(* They rest on what a mutation id stands for (IInv): an entry never       *)
(* changes under its id, so that a request under way that bears the id of  *)
(* a queued change asks for exactly that change, and an answer that is no  *)
(* conflict bears an id the server has accepted.                           *)
(*                                                                         *)
(* And about the other way changes reach a client, the event streams of    *)
(* Realtime (its instance Live), for any users, streams and connections:   *)
(*                                                                         *)
(*   LiveTypesHold   Live!Spec => []Live!TypeOK                            *)
(*   NoStreamLeaks   Live!Spec => [](CountsAgree /\ NothingLeaks)          *)
(*                                                                         *)
(* The second rests on where a stream's handler is at every step of its    *)
(* way (Placing), on the counter of a user being the number of handlers    *)
(* (Tallying), and on an unsubscription that is still to be answered on a  *)
(* live connection having its one stream waiting for it (Commanded).       *)
(*                                                                         *)
(* And about the panel of the Preferences (its instance Panel), for any    *)
(* values, calls, edits and failures:                                      *)
(*                                                                         *)
(*   PanelTypes      Panel!Spec => []Panel!TypeOK                          *)
(*   OneSaveRuns     Panel!Spec => []Panel!OneSaveAtATime                  *)
(*   ChoicesAreKept  Panel!Spec => [](DraftKept /\ ClosedKept)             *)
(*                                                                         *)
(* They hold together (PanelKept): what is held back is the last choice,   *)
(* and whatever is wanted and not held back is in the one save under way.  *)
(*                                                                         *)
(* And about the list of articles of ArticlePages (its instance List), for *)
(* any articles, sizes of page, marks, events and releases:                *)
(*                                                                         *)
(*   PagesTypes      List!Spec => []List!TypeOK                            *)
(*   PagesAreWhole   List!Spec => [](NoGap /\ NoRepeat /\ ReadHereStays)   *)
(*                                                                         *)
(* Each page begins after the cursor of the one before (PagesOrdered), and *)
(* the pages, the shown ones like those of a request under way, hold all   *)
(* that has stayed in the view up to their last cursor (PagesCover).       *)
(***************************************************************************)
EXTENDS Outbox, SequenceTheorems, FiniteSetTheorems, WellFoundedInduction, TLAPS

Steps == {"idle", "next", "sent", "answered", "stored"}
Flushes == [Tab -> [step : Steps, entry : Entry, answer : Answer]]
Busy == {"sent", "answered", "stored"}

\* The entries of which a request is under way, or an answer is being dealt with.
Carried(e) == \/ \E q \in net : q.entry = e
              \/ \E t \in Tab : flush[t].step \in Busy /\ flush[t].entry = e

\* Ids are handed out in order.
Numbered ==
  /\ ids \in Nat
  /\ \A e \in outbox : e.id \in 1..ids
  /\ \A e \in Entry : Carried(e) => e.id \in 1..ids
  /\ effective \subseteq 1..ids

\* What bears the id of a queued change is that change.
Same ==
  /\ \A e, f \in outbox : e.id = f.id => e = f
  /\ \A e \in outbox, f \in Entry : Carried(f) /\ e.id = f.id => e = f

\* What an answer says is so.
Answered == \A t \in Tab :
  /\ flush[t].step \in {"answered", "stored"} /\ ~flush[t].answer.refused =>
       flush[t].answer.conflict \/ flush[t].entry.id \in effective
  /\ flush[t].step \in {"answered", "stored"} /\ flush[t].answer.refused =>
       flush[t].step = "answered" /\ flush[t].entry.item \in gone

\* So is what the ledger says.
LedgerTrue == \A l \in ledger : l.applied => l.id \in effective

IInv == TypeOK /\ Numbered /\ Same /\ Answered /\ LedgerTrue

LEMMA Nothing ==
  /\ NoEntry \in Entry /\ NoAnswer \in Answer /\ NotTyping.item \in Item
  /\ Idle \in [step : Steps, entry : Entry, answer : Answer]
  /\ NotTyping \in [on : BOOLEAN, item : Item, want : BOOLEAN, rev : Revision]
  /\ Idle.step = "idle" /\ NotTyping.on = FALSE
<1>1. NoEntry.item \in Item /\ NoEntry.item = CHOOSE i \in Item : TRUE
  BY OutboxAssumption DEF NoEntry
<1>2. NoEntry \in Entry
  BY <1>1 DEF NoEntry, Entry, Revision
<1> QED BY <1>1, <1>2 DEF NoAnswer, Answer, NotTyping, Idle, Steps, Revision

LEMMA InitIInv == Init => IInv
<1> SUFFICES ASSUME Init PROVE IInv
  OBVIOUS
<1>1. TypeOK
  BY Nothing DEF Init, TypeOK, Revision, Steps
<1>2. \A t \in Tab : flush[t].step = "idle"
  BY Nothing DEF Init
<1>3. Numbered /\ Same /\ Answered /\ LedgerTrue
  BY <1>2 DEF Init, Numbered, Same, Answered, LedgerTrue, Carried, Busy
<1> QED BY <1>1, <1>3 DEF IInv

(***************************************************************************)
(* Ids: a step adds at most one entry, under the next id.                  *)
(***************************************************************************)
Numbers ==
  /\ ids' \in {ids, ids + 1}
  /\ \A e \in outbox' : e \in outbox \/ (e.id = ids + 1 /\ ids' = ids + 1)
  /\ \A e, f \in outbox' : e \notin outbox /\ f \notin outbox => e = f
  /\ \A e \in Entry : Carried(e)' => Carried(e) \/ e \in outbox
  /\ \A id \in effective' : id \in effective \/ \E e \in Entry : Carried(e) /\ e.id = id

LEMMA Numbering ==
  ASSUME IInv, Numbers
  PROVE  Numbered' /\ Same'
<1>1. ids \in Nat /\ ids' \in Nat /\ ids <= ids'
  BY DEF IInv, Numbered, Numbers
<1>2. Numbered'
  <2>1. \A e \in outbox' : e.id \in 1..ids'
    BY <1>1 DEF IInv, Numbered, Numbers
  <2>2. \A e \in Entry : Carried(e)' => e.id \in 1..ids'
    BY <1>1 DEF IInv, Numbered, Numbers
  <2>3. effective' \subseteq 1..ids'
    <3>1. \A id \in effective' : id \in 1..ids
      BY DEF IInv, Numbered, Numbers
    <3> QED BY <1>1, <3>1
  <2> QED BY <1>1, <2>1, <2>2, <2>3 DEF Numbered
<1>3. Same'
  BY <1>1 DEF IInv, Numbered, Same, Numbers
<1> QED BY <1>2, <1>3

\* Steps of a tab that only move its flush on.
LEMMA Moving ==
  ASSUME IInv, NEW t \in Tab, NEW row \in [step : Steps, entry : Entry, answer : Answer],
         flush' = [flush EXCEPT ![t] = row]
  PROVE  /\ flush' \in Flushes /\ flush'[t] = row
         /\ \A u \in Tab \ {t} : flush'[u] = flush[u]
BY DEF IInv, TypeOK, Flushes, Steps

(***************************************************************************)
(* The tabs.                                                               *)
(***************************************************************************)
LEMMA TypeKept ==
  ASSUME IInv, NEW t \in Tab, NEW i \in Item, NEW v \in BOOLEAN, Type(t, i, v)
  PROVE  IInv'
<1> USE DEF IInv
<1>1. /\ typing' = [typing EXCEPT ![t] = [on |-> TRUE, item |-> i, want |-> v,
                                          rev |-> revisions[i]]]
      /\ UNCHANGED <<server, gone, ledger, net, outbox, revisions, flush, ids, effective>>
  BY DEF Type, serverVars, history
<1>2. TypeOK'
  BY <1>1 DEF TypeOK
<1>3. \A e \in Entry : Carried(e)' <=> Carried(e)
  BY <1>1 DEF Carried
<1>4. Numbered' /\ Same' /\ Answered' /\ LedgerTrue'
  BY <1>1, <1>3 DEF Numbered, Same, Answered, LedgerTrue
<1> QED BY <1>2, <1>4

\* The entry that the queueing of a change puts into the outbox.
LEMMA QueueKept ==
  ASSUME IInv, NEW t \in Tab, Queue(t)
  PROVE  /\ IInv'
         /\ \E e \in Entry : /\ outbox' = Without(typing[t].item) \cup {e} /\ e.id = ids + 1
                             /\ e.item = typing[t].item /\ e.want = typing[t].want
<1> DEFINE i == typing[t].item
           base == IF \E e \in Pending(i) : e.base # None THEN Current(i).base ELSE typing[t].rev
           new == [id |-> ids + 1, item |-> i, want |-> typing[t].want, base |-> base,
                   createdAt |-> ids + 1]
<1>1. /\ outbox' = Without(i) \cup {new} /\ ids' = ids + 1
      /\ typing' = [typing EXCEPT ![t] = NotTyping]
      /\ UNCHANGED <<server, gone, ledger, net, revisions, flush, effective>>
  BY DEF Queue, serverVars
<1>2. i \in Item /\ typing[t].want \in BOOLEAN /\ typing[t].rev \in Revision
  BY DEF IInv, TypeOK
<1>3. Pending(i) # {} => Current(i) \in outbox
  BY DEF Pending, Current
<1>4. base \in Revision
  BY <1>2, <1>3 DEF Pending, IInv, TypeOK, Entry
<1>5. new \in Entry /\ new.id = ids + 1 /\ new.item = i /\ new.want = typing[t].want
  BY <1>2, <1>4 DEF Entry, IInv, Numbered
<1> HIDE DEF base, new, i
<1>6. \A e \in outbox' : e = new \/ (e \in outbox /\ e.item # i)
  BY <1>1 DEF Without, Pending
<1>7. TypeOK'
  <2>1. typing' \in [Tab -> [on : BOOLEAN, item : Item, want : BOOLEAN, rev : Revision]]
    BY <1>1, Nothing DEF IInv, TypeOK
  <2>2. outbox' \subseteq Entry /\ \A e, f \in outbox' : e.item = f.item => e = f
    BY <1>5, <1>6 DEF IInv, TypeOK
  <2> QED BY <1>1, <2>1, <2>2 DEF IInv, TypeOK
<1>8. \A e \in Entry : Carried(e)' <=> Carried(e)
  BY <1>1 DEF Carried
<1>9. Numbers
  BY <1>1, <1>5, <1>6, <1>8 DEF Numbers
<1>10. Answered' /\ LedgerTrue'
  BY <1>1 DEF Answered, LedgerTrue, IInv
<1> QED BY <1>1, <1>5, <1>7, <1>9, <1>10, Numbering DEF IInv, i

\* Steps of a flush that leave the outbox and the server alone.
LEMMA FlushMoves ==
  ASSUME IInv, NEW t \in Tab, NEW row \in [step : Steps, entry : Entry, answer : Answer],
         flush' = [flush EXCEPT ![t] = row],
         row.step \in Busy => row.entry \in outbox \/ Carried(row.entry),
         row.step \in {"answered", "stored"} /\ ~row.answer.refused =>
           row.answer.conflict \/ row.entry.id \in effective,
         row.step \in {"answered", "stored"} /\ row.answer.refused =>
           row.step = "answered" /\ row.entry.item \in gone,
         \A q \in net' : q \in net \/ (q.tab \in Tab /\ q.entry \in outbox),
         revisions' \in [Item -> Revision],
         typing' \in [Tab -> [on : BOOLEAN, item : Item, want : BOOLEAN, rev : Revision]],
         UNCHANGED <<server, gone, ledger, outbox, ids, effective>>
  PROVE  IInv'
<1>1. /\ flush' \in Flushes /\ flush'[t] = row
      /\ \A u \in Tab \ {t} : flush'[u] = flush[u]
  BY Moving
<1>2. \A q \in net' : q.tab \in Tab /\ q.entry \in Entry
  BY DEF IInv, TypeOK
<1>3. TypeOK'
  BY <1>1, <1>2 DEF IInv, TypeOK, Flushes, Steps
<1>4. \A e \in Entry : Carried(e)' => Carried(e) \/ e \in outbox
  BY <1>1 DEF Carried
<1>5. Numbers
  BY <1>4 DEF Numbers
<1>6. Answered'
  BY <1>1 DEF Answered, IInv
<1>7. LedgerTrue'
  BY DEF LedgerTrue, IInv
<1> QED BY <1>3, <1>5, <1>6, <1>7, Numbering DEF IInv

LEMMA RowTyped ==
  ASSUME IInv, NEW t \in Tab
  PROVE  /\ flush[t] \in [step : Steps, entry : Entry, answer : Answer]
         /\ flush[t].step \in Busy => Carried(flush[t].entry)
BY DEF IInv, TypeOK, Steps, Carried

\* What setting one field of a row does.
LEMMA StepSet ==
  ASSUME NEW row \in [step : Steps, entry : Entry, answer : Answer], NEW step \in Steps
  PROVE  /\ [row EXCEPT !.step = step] \in [step : Steps, entry : Entry, answer : Answer]
         /\ [row EXCEPT !.step = step].step = step
         /\ [row EXCEPT !.step = step].entry = row.entry
         /\ [row EXCEPT !.step = step].answer = row.answer
OBVIOUS

LEMMA StartKept == ASSUME IInv, NEW t \in Tab, Start(t) PROVE IInv'
<1> DEFINE row == [flush[t] EXCEPT !.step = "next"]
<1>1. flush' = [flush EXCEPT ![t] = row]
  BY DEF Start
<1>2. row \in [step : Steps, entry : Entry, answer : Answer] /\ row.step = "next"
  BY RowTyped, StepSet DEF Steps
<1>3. /\ UNCHANGED <<server, gone, ledger, outbox, ids, effective, net, revisions, typing>>
      /\ revisions' \in [Item -> Revision]
      /\ typing' \in [Tab -> [on : BOOLEAN, item : Item, want : BOOLEAN, rev : Revision]]
  BY DEF Start, serverVars, history, IInv, TypeOK
<1> HIDE DEF row
<1> QED BY <1>1, <1>2, <1>3, FlushMoves DEF Busy

LEMMA EndKept == ASSUME IInv, NEW t \in Tab, End(t) PROVE IInv'
<1>1. flush' = [flush EXCEPT ![t] = Idle]
  BY DEF End
<1>2. /\ UNCHANGED <<server, gone, ledger, outbox, ids, effective, net, revisions, typing>>
      /\ revisions' \in [Item -> Revision]
      /\ typing' \in [Tab -> [on : BOOLEAN, item : Item, want : BOOLEAN, rev : Revision]]
  BY DEF End, serverVars, history, IInv, TypeOK
<1> QED BY <1>1, <1>2, Nothing, FlushMoves DEF Busy

LEMMA SendKept == ASSUME IInv, NEW t \in Tab, Send(t) PROVE IInv'
<1>1. PICK e \in outbox : /\ net' = net \cup {[tab |-> t, entry |-> e]}
                          /\ flush' = [flush EXCEPT ![t] = [Idle EXCEPT !.step = "sent",
                                                                        !.entry = e]]
  BY DEF Send
<1> DEFINE row == [Idle EXCEPT !.step = "sent", !.entry = e]
<1>2. e \in Entry
  BY DEF IInv, TypeOK
<1>3. /\ row \in [step : Steps, entry : Entry, answer : Answer]
      /\ row.step = "sent" /\ row.entry = e
  BY <1>2, Nothing DEF Steps
<1>4. \A q \in net' : q \in net \/ (q.tab \in Tab /\ q.entry \in outbox)
  BY <1>1
<1>5. /\ UNCHANGED <<server, gone, ledger, outbox, ids, effective, revisions, typing>>
      /\ revisions' \in [Item -> Revision]
      /\ typing' \in [Tab -> [on : BOOLEAN, item : Item, want : BOOLEAN, rev : Revision]]
  BY DEF Send, serverVars, history, IInv, TypeOK
<1>6. flush' = [flush EXCEPT ![t] = row]
  BY <1>1
<1> HIDE DEF row
<1> QED BY <1>3, <1>4, <1>5, <1>6, FlushMoves

LEMMA StoreRevisionKept == ASSUME IInv, NEW t \in Tab, StoreRevision(t) PROVE IInv'
<1> DEFINE row == [flush[t] EXCEPT !.step = "stored"]
<1>1. /\ flush' = [flush EXCEPT ![t] = row]
      /\ flush[t].step = "answered" /\ ~flush[t].answer.refused
  BY DEF StoreRevision
<1>2. /\ row \in [step : Steps, entry : Entry, answer : Answer] /\ row.step = "stored"
      /\ row.entry = flush[t].entry /\ row.answer = flush[t].answer
  BY RowTyped, StepSet DEF Steps
<1>3. /\ UNCHANGED <<server, gone, ledger, outbox, ids, effective, net, typing>>
      /\ typing' \in [Tab -> [on : BOOLEAN, item : Item, want : BOOLEAN, rev : Revision]]
  BY DEF StoreRevision, serverVars, history, IInv, TypeOK
<1>4. revisions' \in [Item -> Revision]
  <2>1. flush[t].entry.item \in Item /\ flush[t].answer.rev \in Revision
    BY RowTyped DEF Entry, Answer, Revision
  <2> QED BY <2>1 DEF StoreRevision, IInv, TypeOK
<1>5. Carried(row.entry) /\ (row.answer.conflict \/ row.entry.id \in effective)
  BY <1>1, <1>2, RowTyped DEF Busy, IInv, Answered
<1> HIDE DEF row
<1> QED BY <1>1, <1>2, <1>3, <1>4, <1>5, FlushMoves

LEMMA GiveUpKept == ASSUME IInv, NEW t \in Tab, GiveUp(t) \/ Close(t) PROVE IInv'
<1>1. /\ flush' = [flush EXCEPT ![t] = Idle] /\ net' \subseteq net
      /\ UNCHANGED <<server, gone, ledger, outbox, ids, effective, revisions>>
      /\ revisions' \in [Item -> Revision]
  BY DEF GiveUp, Close, serverVars, history, IInv, TypeOK
<1>2. typing' \in [Tab -> [on : BOOLEAN, item : Item, want : BOOLEAN, rev : Revision]]
  BY Nothing DEF GiveUp, Close, IInv, TypeOK
<1> QED BY <1>1, <1>2, Nothing, FlushMoves DEF Busy

\* Steps of a flush that change the outbox.
LEMMA RemoveKept ==
  ASSUME IInv, NEW t \in Tab, Accept(t) \/ Discard(t)
  PROVE  IInv'
<1> DEFINE row == [flush[t] EXCEPT !.step = "next"]
<1>1. /\ flush' = [flush EXCEPT ![t] = row]
      /\ outbox' = Remove(flush[t].entry)
      /\ UNCHANGED <<server, gone, ledger, net, revisions, typing, ids, effective>>
  BY DEF Accept, Discard, serverVars, history
<1>2. row \in [step : Steps, entry : Entry, answer : Answer] /\ row.step = "next"
  BY RowTyped, StepSet DEF Steps
<1> HIDE DEF row
<1>3. /\ flush' \in Flushes /\ flush'[t] = row
      /\ \A u \in Tab \ {t} : flush'[u] = flush[u]
  BY <1>1, <1>2, Moving
<1>4. outbox' \subseteq outbox
  BY <1>1 DEF Remove
<1>5. TypeOK'
  BY <1>1, <1>3, <1>4 DEF IInv, TypeOK, Flushes, Steps
<1>6. \A e \in Entry : Carried(e)' => Carried(e)
  BY <1>1, <1>2, <1>3 DEF Carried, Busy
<1>7. Numbers
  BY <1>1, <1>4, <1>6 DEF Numbers
<1>8. Answered' /\ LedgerTrue'
  BY <1>1, <1>2, <1>3 DEF Answered, LedgerTrue, IInv
<1> QED BY <1>5, <1>7, <1>8, Numbering DEF IInv

\* A rebased entry is the old one under a new id.
LEMMA RebasedEntry ==
  ASSUME IInv, NEW e \in outbox, NEW rev \in Nat
  PROVE  /\ Rebased(e, rev) \in Entry /\ Rebased(e, rev).id = ids + 1
         /\ Rebased(e, rev).item = e.item /\ Rebased(e, rev).want = e.want
<1>1. e \in Entry /\ ids + 1 \in Nat /\ rev \in Revision
  BY DEF IInv, TypeOK, Numbered, Revision
<1> QED BY <1>1 DEF Rebased, Entry

LEMMA RebaseKept ==
  ASSUME IInv, NEW t \in Tab, Rebase(t)
  PROVE  IInv'
<1> DEFINE row == [flush[t] EXCEPT !.step = "next"]
           i == flush[t].entry.item
           rev == flush[t].answer.rev
<1>1. /\ flush' = [flush EXCEPT ![t] = row]
      /\ outbox' = Without(i) \cup {Rebased(e, rev) : e \in Pending(i)}
      /\ ids' = IF Pending(i) = {} THEN ids ELSE ids + 1
      /\ UNCHANGED <<server, gone, ledger, net, revisions, typing, effective>>
  BY DEF Rebase, serverVars
<1>2. row \in [step : Steps, entry : Entry, answer : Answer] /\ row.step = "next"
  BY RowTyped, StepSet DEF Steps
<1>3. i \in Item /\ rev \in Nat
  BY RowTyped DEF Entry, Answer
<1> HIDE DEF row, i, rev
<1>4. /\ flush' \in Flushes /\ flush'[t] = row
      /\ \A u \in Tab \ {t} : flush'[u] = flush[u]
  BY <1>1, <1>2, Moving
<1>5. \A e \in Pending(i) : /\ e \in outbox /\ e.item = i
                            /\ Rebased(e, rev) \in Entry /\ Rebased(e, rev).id = ids + 1
                            /\ Rebased(e, rev).item = e.item
  BY <1>3, RebasedEntry DEF Pending
<1>6. \A e \in outbox' : \/ e \in outbox /\ e.item # i
                         \/ /\ \E f \in Pending(i) : e = Rebased(f, rev)
                            /\ e \in Entry /\ e.id = ids + 1 /\ e.item = i
                            /\ Pending(i) # {}
  <2> SUFFICES ASSUME NEW e \in outbox', e \notin Without(i)
               PROVE  /\ \E f \in Pending(i) : e = Rebased(f, rev)
                      /\ e \in Entry /\ e.id = ids + 1 /\ e.item = i
                      /\ Pending(i) # {}
    BY DEF Without, Pending
  <2>1. PICK f \in Pending(i) : e = Rebased(f, rev)
    BY <1>1
  <2> QED BY <1>5, <2>1
<1>7. \A e, f \in Pending(i) : e = f
  BY DEF Pending, IInv, TypeOK
<1>8. outbox' \subseteq Entry /\ \A e, f \in outbox' : e.item = f.item => e = f
  BY <1>6, <1>7 DEF IInv, TypeOK
<1>9. TypeOK'
  BY <1>1, <1>4, <1>8 DEF IInv, TypeOK, Flushes, Steps
<1>10. \A e \in Entry : Carried(e)' => Carried(e)
  BY <1>1, <1>2, <1>4 DEF Carried, Busy
<1>11. Numbers
  BY <1>1, <1>6, <1>7, <1>10 DEF Numbers
<1>12. Answered' /\ LedgerTrue'
  BY <1>1, <1>2, <1>4 DEF Answered, LedgerTrue, IInv
<1> QED BY <1>9, <1>11, <1>12, Numbering DEF IInv

(***************************************************************************)
(* The server.                                                             *)
(***************************************************************************)
\* An answer that says what is so, to whoever still waits for it.
Truthful(q, answer) ==
  /\ answer \in Answer
  /\ IF answer.refused THEN q.entry.item \in gone'
                       ELSE answer.conflict \/ q.entry.id \in effective'

LEMMA Replying ==
  ASSUME IInv, NEW q \in net, NEW answer, Truthful(q, answer), Reply(q, answer),
         gone \subseteq gone', effective \subseteq effective', net' \subseteq net
  PROVE  /\ flush' \in Flushes /\ Answered'
         /\ \A e \in Entry : Carried(e)' => Carried(e)
<1> DEFINE t == q.tab
           row == [flush[t] EXCEPT !.step = "answered", !.answer = answer]
<1>1. t \in Tab /\ answer \in Answer
  BY DEF IInv, TypeOK, Truthful
<1>2. flush[t] \in [step : Steps, entry : Entry, answer : Answer]
  BY <1>1, RowTyped
<1>3. /\ row \in [step : Steps, entry : Entry, answer : Answer]
      /\ row.step = "answered" /\ row.entry = flush[t].entry /\ row.answer = answer
  BY <1>1, <1>2 DEF Steps
<1>4. CASE flush' = flush
  <2>1. flush' \in Flushes
    BY <1>4 DEF IInv, TypeOK, Flushes, Steps
  <2>2. Answered'
    BY <1>4 DEF IInv, Answered
  <2>3. \A e \in Entry : Carried(e)' => Carried(e)
    BY <1>4 DEF Carried
  <2> QED BY <2>1, <2>2, <2>3
<1>5. CASE flush' # flush
  <2>1. /\ flush[t].step = "sent" /\ flush[t].entry = q.entry
        /\ flush' = [flush EXCEPT ![t].step = "answered", ![t].answer = answer]
    BY <1>5 DEF Reply
  <2>2. flush' = [flush EXCEPT ![t] = row]
    BY <1>1, <2>1 DEF IInv, TypeOK
  <2> HIDE DEF row
  <2>3. /\ flush' \in Flushes /\ flush'[t] = row
        /\ \A u \in Tab \ {t} : flush'[u] = flush[u]
    BY <1>1, <1>3, <2>2, Moving
  <2>4. Answered'
    <3> SUFFICES ASSUME NEW u \in Tab, flush'[u].step \in {"answered", "stored"}
                 PROVE  IF flush'[u].answer.refused
                        THEN flush'[u].step = "answered" /\ flush'[u].entry.item \in gone'
                        ELSE flush'[u].answer.conflict \/ flush'[u].entry.id \in effective'
      BY DEF Answered
    <3>1. CASE u = t
      BY <1>3, <2>1, <2>3, <3>1 DEF Truthful
    <3>2. CASE u # t
      BY <2>3, <3>2 DEF IInv, Answered
    <3> QED BY <3>1, <3>2
  <2>5. ASSUME NEW e \in Entry, Carried(e)'
        PROVE  Carried(e)
    <3>1. CASE \E r \in net' : r.entry = e
      BY <3>1 DEF Carried
    <3>2. CASE \E u \in Tab : flush'[u].step \in Busy /\ flush'[u].entry = e
      <4>1. PICK u \in Tab : flush'[u].step \in Busy /\ flush'[u].entry = e
        BY <3>2
      <4>2. flush[u].step \in Busy /\ flush[u].entry = e
        BY <1>3, <2>1, <2>3, <4>1 DEF Busy
      <4> QED BY <4>2 DEF Carried
    <3> QED BY <2>5, <3>1, <3>2 DEF Carried
  <2> QED BY <2>3, <2>4, <2>5
<1> QED BY <1>4, <1>5

LEMMA RequestTyped ==
  ASSUME IInv, NEW q \in net
  PROVE  q.entry \in Entry /\ q.entry.item \in Item /\ Carried(q.entry) /\ q.entry.id \in 1..ids
<1>1. q.entry \in Entry /\ Carried(q.entry)
  BY DEF IInv, TypeOK, Carried
<1> QED BY <1>1 DEF Entry, IInv, Numbered

LEMMA ServeKept ==
  ASSUME IInv, NEW q \in net, Serve(q)
  PROVE  IInv'
<1> DEFINE e == q.entry
           answer == [state |-> After(e).state, rev |-> After(e).rev, conflict |-> Conflict(e),
                      refused |-> FALSE]
           record == [id |-> e.id, state |-> After(e).state, rev |-> After(e).rev,
                      applied |-> ~Conflict(e)]
<1>1. /\ net' = net \ {q} /\ server' = [server EXCEPT ![e.item] = After(e)]
      /\ ledger' = {l \in ledger : l.id # e.id} \cup {record}
      /\ Reply(q, answer)
      /\ effective' = IF Conflict(e) THEN effective ELSE effective \cup {e.id}
      /\ UNCHANGED <<gone, outbox, revisions, typing, ids>>
  BY DEF Serve
<1>2. e \in Entry /\ e.item \in Item /\ Carried(e) /\ e.id \in Nat
  BY RequestTyped DEF Entry
<1>3. After(e) \in [state : BOOLEAN, rev : Nat] /\ Conflict(e) \in BOOLEAN
  BY <1>2 DEF After, Conflict, IInv, TypeOK, Entry
<1>4. answer \in Answer /\ answer.refused = FALSE /\ answer.conflict = Conflict(e)
  BY <1>3 DEF Answer
<1>5. record \in [id : Nat, state : BOOLEAN, rev : Nat, applied : BOOLEAN]
      /\ record.id = e.id /\ record.applied = ~Conflict(e)
  BY <1>2, <1>3
<1> HIDE DEF answer, record
<1>6. Truthful(q, answer)
  BY <1>1, <1>4 DEF Truthful
<1>7. /\ flush' \in Flushes /\ Answered' /\ \A f \in Entry : Carried(f)' => Carried(f)
  BY <1>1, <1>6, Replying
<1>8. TypeOK'
  <2>1. server' \in [Item -> [state : BOOLEAN, rev : Nat]]
    BY <1>1, <1>2, <1>3 DEF IInv, TypeOK
  <2>2. /\ \A l \in ledger' : l \in [id : Nat, state : BOOLEAN, rev : Nat, applied : BOOLEAN]
        /\ \A a \in ledger', b \in ledger' : a.id = b.id => a = b
    BY <1>1, <1>5 DEF IInv, TypeOK
  <2> QED BY <1>1, <1>7, <2>1, <2>2 DEF IInv, TypeOK, Flushes, Steps
<1>9. Numbers
  BY <1>1, <1>2, <1>7 DEF Numbers
<1>10. LedgerTrue'
  BY <1>1, <1>5 DEF LedgerTrue, IInv
<1> QED BY <1>7, <1>8, <1>9, <1>10, Numbering DEF IInv

LEMMA ServeAgainKept ==
  ASSUME IInv, NEW q \in net, ServeAgain(q) \/ Refuse(q)
  PROVE  IInv'
<1>1. /\ net' = net \ {q}
      /\ UNCHANGED <<server, gone, ledger, outbox, revisions, typing, ids, effective>>
  BY DEF ServeAgain, Refuse, serverVars, history
<1>2. PICK answer \in Answer : Truthful(q, answer) /\ Reply(q, answer)
  <2>1. CASE ServeAgain(q)
    <3>1. PICK l \in Recorded(q.entry) :
            Reply(q, [state |-> l.state, rev |-> l.rev, conflict |-> ~l.applied,
                      refused |-> FALSE])
      BY <2>1 DEF ServeAgain
    <3> DEFINE answer == [state |-> l.state, rev |-> l.rev, conflict |-> ~l.applied,
                          refused |-> FALSE]
    <3>2. /\ l \in ledger /\ l.id = q.entry.id
          /\ l \in [id : Nat, state : BOOLEAN, rev : Nat, applied : BOOLEAN]
      BY DEF Recorded, IInv, TypeOK
    <3>3. answer \in Answer /\ answer.conflict = ~l.applied /\ answer.refused = FALSE
      BY <3>2 DEF Answer
    <3>4. l.applied => q.entry.id \in effective'
      BY <1>1, <3>2 DEF IInv, LedgerTrue
    <3> HIDE DEF answer
    <3>5. Truthful(q, answer)
      BY <3>2, <3>3, <3>4 DEF Truthful
    <3>6. Reply(q, answer)
      BY <3>1 DEF answer
    <3> QED BY <3>3, <3>5, <3>6
  <2>2. CASE Refuse(q)
    <3> DEFINE answer == [NoAnswer EXCEPT !.refused = TRUE]
    <3>1. answer \in Answer /\ answer.refused = TRUE
      BY Nothing DEF Answer
    <3>2. Reply(q, answer) /\ q.entry.item \in gone'
      BY <2>2 DEF Refuse, serverVars
    <3> HIDE DEF answer
    <3> QED BY <3>1, <3>2 DEF Truthful
  <2> QED BY <2>1, <2>2
<1>3. /\ flush' \in Flushes /\ Answered' /\ \A f \in Entry : Carried(f)' => Carried(f)
  BY <1>1, <1>2, Replying
<1>4. TypeOK'
  BY <1>1, <1>3 DEF IInv, TypeOK, Flushes, Steps
<1>5. Numbers
  BY <1>1, <1>3 DEF Numbers
<1>6. LedgerTrue'
  BY <1>1 DEF LedgerTrue, IInv
<1> QED BY <1>3, <1>4, <1>5, <1>6, Numbering DEF IInv

LEMMA OthersKept ==
  ASSUME IInv, \/ \E i \in Item : OtherDevice(i) \/ Delete(i)
               \/ \E l \in ledger : Expire(l)
  PROVE  IInv'
<1>1. /\ UNCHANGED <<net, outbox, revisions, typing, flush, ids, effective>>
      /\ ledger' \subseteq ledger /\ gone \subseteq gone' /\ gone' \subseteq Item
      /\ server' \in [Item -> [state : BOOLEAN, rev : Nat]]
  <2>1. CASE \E i \in Item : OtherDevice(i)
    <3>1. PICK i \in Item : server' = [server EXCEPT ![i] = [state |-> ~@.state, rev |-> @.rev + 1]]
      BY <2>1 DEF OtherDevice
    <3>2. [state |-> ~server[i].state, rev |-> server[i].rev + 1] \in [state : BOOLEAN, rev : Nat]
      BY DEF IInv, TypeOK
    <3>3. server' \in [Item -> [state : BOOLEAN, rev : Nat]]
      BY <3>1, <3>2 DEF IInv, TypeOK
    <3>4. UNCHANGED <<gone, ledger, net, outbox, revisions, typing, flush, ids, effective>>
      BY <2>1 DEF OtherDevice, history
    <3> QED BY <3>3, <3>4 DEF IInv, TypeOK
  <2>2. CASE (\E i \in Item : Delete(i)) \/ \E l \in ledger : Expire(l)
    BY <2>2 DEF Delete, Expire, history, IInv, TypeOK
  <2> QED BY <2>1, <2>2
<1>2. TypeOK'
  BY <1>1 DEF IInv, TypeOK
<1>3. \A e \in Entry : Carried(e)' => Carried(e)
  BY <1>1 DEF Carried
<1>4. Numbers
  BY <1>1, <1>3 DEF Numbers
<1>5. Answered' /\ LedgerTrue'
  BY <1>1 DEF Answered, LedgerTrue, IInv
<1> QED BY <1>2, <1>4, <1>5, Numbering DEF IInv

LEMMA IInvKept == IInv /\ [Next]_vars => IInv'
<1> SUFFICES ASSUME IInv, [Next]_vars PROVE IInv'
  OBVIOUS
<1>1. ASSUME NEW t \in Tab, \/ Queue(t) \/ Start(t) \/ Flushing(t) \/ GiveUp(t) \/ Close(t)
                            \/ \E i \in Item, v \in BOOLEAN : Type(t, i, v)
      PROVE  IInv'
  BY <1>1, QueueKept, StartKept, SendKept, EndKept, StoreRevisionKept, RemoveKept, RebaseKept,
     GiveUpKept, TypeKept DEF Flushing
<1>2. ASSUME NEW q \in net, Served(q)
      PROVE  IInv'
  BY <1>2, ServeKept, ServeAgainKept DEF Served
<1>3. CASE UNCHANGED vars
  <2>1. TypeOK'
    BY <1>3 DEF IInv, TypeOK, vars
  <2>2. \A e \in Entry : Carried(e)' <=> Carried(e)
    BY <1>3 DEF Carried, vars
  <2> QED BY <1>3, <2>1, <2>2 DEF IInv, Numbered, Same, Answered, LedgerTrue, vars
<1> QED BY <1>1, <1>2, <1>3, OthersKept DEF Next

LEMMA Invariance == Spec => []IInv
<1> QED BY InitIInv, IInvKept, PTL DEF Spec

\* The variables of the client and of the server have their types, an article and
\* its switch are in the outbox once, a mutation in the ledger once.
THEOREM TypesHold == Spec => []TypeOK
<1>1. IInv => TypeOK
  BY DEF IInv
<1> QED BY <1>1, Invariance, PTL

(***************************************************************************)
(* A mutation changes the server once, as long as its record is kept.      *)
(***************************************************************************)
Known(id) == id \in expired \/ \E l \in ledger : l.id = id
Counted ==
  /\ changes \in Seq(Nat)
  /\ \A id \in DOMAIN changes : changes[id] = 0 \/ (changes[id] = 1 /\ Known(id)) \/ id \in expired

LEMMA CountedKept ==
  ASSUME IInv, Counted, [Next]_vars
  PROVE  Counted'
<1>1. CASE UNCHANGED <<changes, expired, ledger>>
  BY <1>1 DEF Counted, Known
<1>2. CASE changes' = Append(changes, 0) /\ UNCHANGED <<expired, ledger>>
  BY <1>2 DEF Counted, Known
<1>3. ASSUME NEW q \in net, Serve(q)
      PROVE  Counted'
  <2> DEFINE e == q.entry
  <2>1. /\ Recorded(e) = {} /\ expired' = expired
        /\ \E record : record.id = e.id /\ ledger' = {l \in ledger : l.id # e.id} \cup {record}
        /\ changes' = IF Changed(e) THEN [changes EXCEPT ![e.id] = @ + 1] ELSE changes
    BY <1>3 DEF Serve
  <2>2. \A id : Known(id) => Known(id)'
    BY <2>1 DEF Known
  <2>3. Known(e.id)' /\ (Known(e.id) => e.id \in expired)
    BY <2>1 DEF Known, Recorded
  <2>4. changes' \in Seq(Nat) /\ DOMAIN changes' = DOMAIN changes
    <3>1. CASE changes' = changes
      BY <3>1 DEF Counted
    <3>2. CASE changes' = [changes EXCEPT ![e.id] = @ + 1] /\ e.id \in DOMAIN changes
      <4>1. e.id \in 1..Len(changes) /\ changes[e.id] + 1 \in Nat
        BY <3>2 DEF Counted
      <4>2. [changes EXCEPT ![e.id] = changes[e.id] + 1] \in Seq(Nat)
        BY <4>1, ExceptSeq DEF Counted
      <4> QED BY <3>2, <4>2
    <3>3. CASE changes' = [changes EXCEPT ![e.id] = @ + 1] /\ e.id \notin DOMAIN changes
      <4>1. changes \in [1..Len(changes) -> Nat]
        BY DEF Counted
      <4>2. changes' = changes
        BY <3>3, <4>1
      <4> QED BY <4>2 DEF Counted
    <3> QED BY <2>1, <3>1, <3>2, <3>3
  <2>5. ASSUME NEW id \in DOMAIN changes
        PROVE  changes'[id] = 0 \/ (changes'[id] = 1 /\ Known(id)') \/ id \in expired'
    <3>1. CASE id = e.id
      BY <2>1, <2>3, <2>4, <3>1 DEF Counted
    <3>2. CASE id # e.id
      BY <2>1, <2>2, <2>4, <3>2 DEF Counted
    <3> QED BY <3>1, <3>2
  <2> QED BY <2>4, <2>5 DEF Counted
<1>4. ASSUME NEW l \in ledger, Expire(l)
      PROVE  Counted'
  <2>1. /\ ledger' = ledger \ {l} /\ expired' = expired \cup {l.id} /\ changes' = changes
    BY <1>4 DEF Expire
  <2>2. \A id : Known(id) => Known(id)'
    BY <2>1 DEF Known
  <2> QED BY <2>1, <2>2 DEF Counted
<1>5. ASSUME NEW t \in Tab, \/ Queue(t) \/ Start(t) \/ Flushing(t) \/ GiveUp(t) \/ Close(t)
                            \/ \E i \in Item, v \in BOOLEAN : Type(t, i, v)
      PROVE  Counted'
  <2>1. \/ UNCHANGED <<changes, expired, ledger>>
        \/ changes' = Append(changes, 0) /\ UNCHANGED <<expired, ledger>>
    BY <1>5 DEF Queue, Start, Flushing, Send, End, StoreRevision, Accept, Rebase, Discard, GiveUp,
                Close, Type, serverVars, history
  <2> QED BY <1>1, <1>2, <2>1
<1>6. ASSUME NEW q \in net, ServeAgain(q) \/ Refuse(q)
      PROVE  Counted'
  BY <1>1, <1>6 DEF ServeAgain, Refuse, serverVars, history
<1>7. ASSUME NEW i \in Item, OtherDevice(i) \/ Delete(i)
      PROVE  Counted'
  BY <1>1, <1>7 DEF OtherDevice, Delete, serverVars, history
<1> QED BY <1>1, <1>3, <1>4, <1>5, <1>6, <1>7 DEF Next, Served, vars

\* However often a change is sent, and whoever sends it, it changes the server
\* once: not again after another device has undone it, unless its record expired.
THEOREM AppliedOnce == Spec => []ChangedOnce
<1>1. Init => Counted
  BY DEF Init, Counted
<1>2. Counted => ChangedOnce
  BY DEF Counted, ChangedOnce
<1> QED BY <1>1, <1>2, CountedKept, Invariance, PTL DEF Spec

(***************************************************************************)
(* The refinement.  A queued change is the wanted one; it has taken effect *)
(* when the server has accepted its id.  Queueing, and rebasing what is    *)
(* queued, is a Want; a request that bears the id of a queued change is    *)
(* its TakeEffect, any other one a Disturb; only an answer that is true    *)
(* lets the outbox Settle.                                                 *)
(***************************************************************************)
LEMMA QueuedIs ==
  ASSUME TypeOK, NEW e \in outbox, NEW i \in Item, e.item = i
  PROVE  Pending(i) = {e} /\ Wanted(i) = e.want /\ (Done(i) <=> e.id \in effective)
         /\ Done(i) \in BOOLEAN /\ Wanted(i) # None
<1>1. Pending(i) = {e}
  BY DEF TypeOK, Pending
<1>2. Current(i) = e
  BY <1>1 DEF Current
<1>3. e.want \in BOOLEAN
  BY DEF TypeOK, Entry
<1> QED BY <1>1, <1>2, <1>3, OutboxAssumption DEF Wanted, Done

LEMMA NotQueuedIs ==
  ASSUME NEW i \in Item, Pending(i) = {}
  PROVE  Wanted(i) = None /\ Done(i) = FALSE
BY DEF Wanted, Done

\* The same of the next state.
LEMMA QueuedNext ==
  ASSUME TypeOK', NEW e \in outbox', NEW i \in Item, e.item = i
  PROVE  Wanted(i)' = e.want /\ (Done(i)' <=> e.id \in effective') /\ Done(i)' \in BOOLEAN
<1>1. Pending(i)' = {e}
  BY DEF TypeOK, Pending
<1>2. Current(i)' = e
  BY <1>1 DEF Current
<1> QED BY <1>1, <1>2 DEF Wanted, Done

LEMMA NotQueuedNext ==
  ASSUME NEW i \in Item, \A e \in outbox' : e.item # i
  PROVE  Wanted(i)' = None /\ Done(i)' = FALSE
<1>1. Pending(i)' = {}
  BY DEF Pending
<1> QED BY <1>1 DEF Wanted, Done

\* A switch whose entry stays, and whose entry's id is not accepted now.
LEMMA Undisturbed ==
  ASSUME TypeOK, TypeOK', NEW i \in Item,
         \A e \in Entry : e.item = i => (e \in outbox' <=> e \in outbox),
         \A e \in outbox : e.item = i => (e.id \in effective' <=> e.id \in effective)
  PROVE  Wanted(i)' = Wanted(i) /\ Done(i)' = Done(i)
<1>1. CASE \E e \in outbox : e.item = i
  <2>1. PICK e \in outbox : e.item = i
    BY <1>1
  <2>2. e \in outbox'
    BY <2>1 DEF TypeOK
  <2>3. /\ Wanted(i) = e.want /\ (Done(i) <=> e.id \in effective) /\ Done(i) \in BOOLEAN
    BY <2>1, QueuedIs
  <2>4. /\ Wanted(i)' = e.want /\ (Done(i)' <=> e.id \in effective') /\ Done(i)' \in BOOLEAN
    BY <2>1, <2>2, QueuedNext
  <2> QED BY <2>1, <2>3, <2>4
<1>2. CASE \A e \in outbox : e.item # i
  <2>1. Pending(i) = {} /\ \A e \in outbox' : e.item # i
    BY <1>2 DEF Pending, TypeOK
  <2> QED BY <2>1, NotQueuedIs, NotQueuedNext
<1> QED BY <1>1, <1>2

LEMMA InitPromise == Init => Promise!Init
<1> SUFFICES ASSUME Init PROVE Promise!Init
  OBVIOUS
<1>1. ASSUME NEW i \in Item PROVE Wanted(i) = None /\ Done(i) = FALSE
  BY NotQueuedIs DEF Init, Pending
<1> QED BY <1>1 DEF Init, Promise!Init

\* Steps of Intents, switch by switch.
LEMMA StutterStep ==
  ASSUME gone' = gone, \A i \in Item : /\ server'[i].state = server[i].state
                                       /\ Wanted(i)' = Wanted(i) /\ Done(i)' = Done(i)
  PROVE  UNCHANGED Promise!vars
BY DEF Promise!vars

LEMMA WantStep ==
  ASSUME gone' = gone, NEW i \in Item, NEW v \in BOOLEAN, Wanted(i)' = v, Done(i)' = FALSE,
         \A k \in Item : server'[k].state = server[k].state,
         \A k \in Item \ {i} : Wanted(k)' = Wanted(k) /\ Done(k)' = Done(k)
  PROVE  Promise!Next
<1>1. Promise!Want(i, v)
  BY DEF Promise!Want
<1> QED BY <1>1 DEF Promise!Next

LEMMA TakeEffectStep ==
  ASSUME gone' = gone, NEW i \in Item, Wanted(i) # None,
         server \in [Item -> [state : BOOLEAN, rev : Nat]],
         server'[i].state = Wanted(i), Wanted(i)' = Wanted(i), Done(i)' = TRUE,
         \A k \in Item \ {i} : /\ server'[k].state = server[k].state
                               /\ Wanted(k)' = Wanted(k) /\ Done(k)' = Done(k)
  PROVE  Promise!Next
<1>1. Promise!TakeEffect(i)
  BY DEF Promise!TakeEffect
<1> QED BY <1>1 DEF Promise!Next

LEMMA DisturbStep ==
  ASSUME gone' = gone, NEW i \in Item, server'[i].state \in BOOLEAN,
         \A k \in Item \ {i} : server'[k].state = server[k].state,
         \A k \in Item : Wanted(k)' = Wanted(k) /\ Done(k)' = Done(k)
  PROVE  Promise!Next
<1>1. PICK v \in BOOLEAN : server'[i].state = v
  OBVIOUS
<1>2. Promise!Disturb(i, v)
  BY <1>1 DEF Promise!Disturb
<1> QED BY <1>2 DEF Promise!Next

LEMMA SettleStep ==
  ASSUME gone' = gone, NEW i \in Item, Wanted(i) # None, Done(i) = TRUE \/ i \in gone,
         Wanted(i)' = None, Done(i)' = FALSE,
         \A k \in Item : server'[k].state = server[k].state,
         \A k \in Item \ {i} : Wanted(k)' = Wanted(k) /\ Done(k)' = Done(k)
  PROVE  Promise!Next
<1>1. Promise!Settle(i)
  BY DEF Promise!Settle
<1> QED BY <1>1 DEF Promise!Next

LEMMA VanishStep ==
  ASSUME NEW i \in Item, gone' = gone \cup {i},
         \A k \in Item : /\ server'[k].state = server[k].state
                         /\ Wanted(k)' = Wanted(k) /\ Done(k)' = Done(k)
  PROVE  Promise!Next
<1>1. Promise!Vanish(i)
  BY DEF Promise!Vanish
<1> QED BY <1>1 DEF Promise!Next

\* Steps that the promise does not see.
LEMMA Unseen ==
  ASSUME TypeOK, TypeOK', UNCHANGED <<server, gone, outbox, effective>>
  PROVE  UNCHANGED Promise!vars
<1>1. \A i \in Item : Wanted(i)' = Wanted(i) /\ Done(i)' = Done(i)
  BY Undisturbed
<1> QED BY <1>1, StutterStep

LEMMA QueuePromise ==
  ASSUME IInv, IInv', NEW t \in Tab, Queue(t)
  PROVE  Promise!Next
<1>1. PICK i \in Item, v \in BOOLEAN : i = typing[t].item /\ v = typing[t].want
  BY DEF IInv, TypeOK
<1>2. PICK e \in Entry : /\ outbox' = Without(i) \cup {e} /\ e.id = ids + 1
                         /\ e.item = i /\ e.want = v
  BY <1>1, QueueKept
<1>3. UNCHANGED <<server, gone, effective>>
  BY DEF Queue, serverVars
<1>4. Wanted(i)' = v /\ Done(i)' = FALSE
  <2>1. e \in outbox' /\ e.id \notin effective'
    BY <1>2, <1>3 DEF IInv, Numbered
  <2> QED BY <1>2, <2>1, QueuedNext DEF IInv
<1>5. ASSUME NEW k \in Item \ {i} PROVE Wanted(k)' = Wanted(k) /\ Done(k)' = Done(k)
  <2>1. \A f \in Entry : f.item = k => (f \in outbox' <=> f \in outbox)
    BY <1>2 DEF Without, Pending
  <2> QED BY <1>3, <2>1, Undisturbed DEF IInv
<1> QED BY <1>3, <1>4, <1>5, WantStep

LEMMA RemovePromise ==
  ASSUME IInv, IInv', NEW t \in Tab, Accept(t) \/ Discard(t)
  PROVE  Promise!Next \/ UNCHANGED Promise!vars
<1> DEFINE e == flush[t].entry
<1>1. outbox' = Remove(e) /\ UNCHANGED <<server, gone, effective>>
  BY DEF Accept, Discard, serverVars, history
<1>2. e \in Entry /\ Carried(e) /\ (e.id \in effective \/ e.item \in gone)
  BY RowTyped DEF Accept, Discard, Busy, IInv, Answered
<1> HIDE DEF e
<1>3. CASE \A f \in outbox : f.id # e.id
  <2>1. outbox' = outbox
    BY <1>1, <1>3 DEF Remove
  <2> QED BY <1>1, <2>1, Unseen DEF IInv
<1>4. CASE \E f \in outbox : f.id = e.id
  <2>1. e \in outbox /\ \A f \in outbox : f.id = e.id => f = e
    BY <1>2, <1>4 DEF IInv, Same
  <2>2. PICK i \in Item : i = e.item
    BY <1>2 DEF Entry
  <2>3. /\ Wanted(i) # None /\ (Done(i) <=> e.id \in effective) /\ Done(i) \in BOOLEAN
    BY <2>1, <2>2, QueuedIs DEF IInv
  <2>4. \A f \in outbox' : f.item # i
    BY <1>1, <2>1, <2>2 DEF Remove, IInv, TypeOK
  <2>5. Wanted(i)' = None /\ Done(i)' = FALSE
    BY <2>4, NotQueuedNext
  <2>6. ASSUME NEW k \in Item \ {i} PROVE Wanted(k)' = Wanted(k) /\ Done(k)' = Done(k)
    <3>1. \A f \in Entry : f.item = k => (f \in outbox' <=> f \in outbox)
      BY <1>1, <2>1, <2>2 DEF Remove
    <3> QED BY <1>1, <3>1, Undisturbed DEF IInv
  <2> QED BY <1>1, <1>2, <2>2, <2>3, <2>5, <2>6, SettleStep
<1> QED BY <1>3, <1>4

LEMMA RebasePromise ==
  ASSUME IInv, IInv', NEW t \in Tab, Rebase(t)
  PROVE  Promise!Next \/ UNCHANGED Promise!vars
<1>1. PICK i \in Item, rev \in Nat : i = flush[t].entry.item /\ rev = flush[t].answer.rev
  BY RowTyped DEF Entry, Answer
<1>2. /\ outbox' = Without(i) \cup {Rebased(f, rev) : f \in Pending(i)}
      /\ UNCHANGED <<server, gone, effective>>
  BY <1>1 DEF Rebase, serverVars
<1>3. CASE Pending(i) = {}
  <2>1. outbox' = outbox
    BY <1>2, <1>3 DEF Without
  <2> QED BY <1>2, <2>1, Unseen DEF IInv
<1>4. CASE Pending(i) # {}
  <2>1. PICK f \in outbox : f.item = i
    BY <1>4 DEF Pending
  <2>2. Pending(i) = {f} /\ f.want \in BOOLEAN
    BY <1>1, <2>1 DEF Pending, IInv, TypeOK, Entry
  <2>3. PICK e \in Entry : /\ outbox' = Without(i) \cup {e} /\ e.id = ids + 1
                           /\ e.item = i /\ e.want = f.want
    BY <1>1, <1>2, <2>1, <2>2, RebasedEntry
  <2>4. e.id \notin effective'
    BY <1>2, <2>3 DEF IInv, Numbered
  <2>5. Wanted(i)' = f.want /\ Done(i)' = FALSE
    <3>1. e \in outbox'
      BY <2>3
    <3> QED BY <2>3, <2>4, <3>1, QueuedNext DEF IInv
  <2>6. ASSUME NEW k \in Item \ {i} PROVE Wanted(k)' = Wanted(k) /\ Done(k)' = Done(k)
    <3>1. \A g \in Entry : g.item = k => (g \in outbox' <=> g \in outbox)
      BY <2>3 DEF Without, Pending
    <3> QED BY <1>2, <3>1, Undisturbed DEF IInv
  <2> QED BY <1>1, <1>2, <2>2, <2>5, <2>6, WantStep
<1> QED BY <1>3, <1>4

LEMMA ServePromise ==
  ASSUME IInv, IInv', NEW q \in net, Serve(q)
  PROVE  Promise!Next \/ UNCHANGED Promise!vars
<1> DEFINE e == q.entry
<1>1. /\ server' = [server EXCEPT ![e.item] = After(e)]
      /\ effective' = IF Conflict(e) THEN effective ELSE effective \cup {e.id}
      /\ UNCHANGED <<gone, outbox>>
  BY DEF Serve
<1>2. e \in Entry /\ Carried(e)
  BY RequestTyped
<1>3. PICK i \in Item : i = e.item
  BY RequestTyped
<1>4. /\ server \in [Item -> [state : BOOLEAN, rev : Nat]]
      /\ server'[i] = After(e) /\ \A k \in Item \ {i} : server'[k] = server[k]
  BY <1>1, <1>3 DEF IInv, TypeOK
<1> HIDE DEF e
<1>5. CASE Conflict(e)
  <2>1. server'[i] = server[i]
    BY <1>3, <1>4, <1>5 DEF After, Changed
  <2>2. \A k \in Item : server'[k].state = server[k].state
    BY <1>4, <2>1
  <2>3. \A k \in Item : Wanted(k)' = Wanted(k) /\ Done(k)' = Done(k)
    BY <1>1, <1>5, Undisturbed DEF IInv
  <2> QED BY <1>1, <2>2, <2>3, StutterStep
<1>6. CASE ~Conflict(e)
  <2>1. After(e).state = e.want /\ e.want \in BOOLEAN
    BY <1>2, <1>3, <1>4, <1>6 DEF After, Changed, Entry
  <2>2. ASSUME NEW k \in Item, \A f \in outbox : f.item = k => f.id # e.id
        PROVE  Wanted(k)' = Wanted(k) /\ Done(k)' = Done(k)
    <3>1. \A f \in outbox : f.item = k => (f.id \in effective' <=> f.id \in effective)
      BY <1>1, <2>2
    <3> QED BY <1>1, <3>1, Undisturbed DEF IInv
  <2>3. CASE \E f \in outbox : f.id = e.id
    <3>1. e \in outbox /\ \A f \in outbox : f.id = e.id => f = e
      BY <1>2, <2>3 DEF IInv, Same
    <3>2. Wanted(i) = e.want /\ Wanted(i) # None
      BY <1>3, <3>1, QueuedIs DEF IInv
    <3>3. Wanted(i)' = e.want /\ Done(i)' = TRUE
      BY <1>1, <1>3, <1>6, <3>1, QueuedNext DEF IInv
    <3>4. \A k \in Item \ {i} : Wanted(k)' = Wanted(k) /\ Done(k)' = Done(k)
      BY <1>3, <2>2, <3>1
    <3>5. \A k \in Item \ {i} : server'[k].state = server[k].state
      BY <1>4
    <3> QED BY <1>1, <1>4, <2>1, <3>2, <3>3, <3>4, <3>5, TakeEffectStep
  <2>4. CASE \A f \in outbox : f.id # e.id
    <3>1. \A k \in Item : Wanted(k)' = Wanted(k) /\ Done(k)' = Done(k)
      BY <2>2, <2>4
    <3>2. \A k \in Item \ {i} : server'[k].state = server[k].state
      BY <1>4
    <3> QED BY <1>1, <1>4, <2>1, <3>1, <3>2, DisturbStep
  <2> QED BY <2>3, <2>4
<1> QED BY <1>5, <1>6

LEMMA OthersPromise ==
  ASSUME IInv, IInv', \/ \E i \in Item : OtherDevice(i) \/ Delete(i)
                      \/ \E l \in ledger : Expire(l)
  PROVE  Promise!Next \/ UNCHANGED Promise!vars
<1>1. ASSUME NEW i \in Item, OtherDevice(i)
      PROVE  Promise!Next
  <2>1. /\ server' = [server EXCEPT ![i] = [state |-> ~@.state, rev |-> @.rev + 1]]
        /\ UNCHANGED <<gone, outbox, effective>>
    BY <1>1 DEF OtherDevice, history
  <2>2. \A k \in Item : Wanted(k)' = Wanted(k) /\ Done(k)' = Done(k)
    BY <2>1, Undisturbed DEF IInv
  <2>3. server'[i].state \in BOOLEAN /\ \A k \in Item \ {i} : server'[k].state = server[k].state
    BY <2>1 DEF IInv, TypeOK
  <2> QED BY <2>1, <2>2, <2>3, DisturbStep
<1>2. ASSUME NEW i \in Item, Delete(i)
      PROVE  Promise!Next
  <2>1. gone' = gone \cup {i} /\ UNCHANGED <<server, outbox, effective>>
    BY <1>2 DEF Delete, history
  <2>2. \A k \in Item : Wanted(k)' = Wanted(k) /\ Done(k)' = Done(k)
    BY <2>1, Undisturbed DEF IInv
  <2> QED BY <2>1, <2>2, VanishStep
<1>3. CASE \E l \in ledger : Expire(l)
  BY <1>3, Unseen DEF Expire, IInv
<1> QED BY <1>1, <1>2, <1>3

LEMMA StepPromise ==
  ASSUME IInv, IInv', [Next]_vars
  PROVE  Promise!Next \/ UNCHANGED Promise!vars
<1>1. ASSUME NEW t \in Tab, \/ Start(t) \/ Send(t) \/ End(t) \/ StoreRevision(t)
                            \/ GiveUp(t) \/ Close(t) \/ \E i \in Item, v \in BOOLEAN : Type(t, i, v)
      PROVE  UNCHANGED Promise!vars
  <2>1. UNCHANGED <<server, gone, outbox, effective>>
    BY <1>1 DEF Start, Send, End, StoreRevision, GiveUp, Close, Type, serverVars, history
  <2> QED BY <2>1, Unseen DEF IInv
<1>2. ASSUME NEW q \in net, ServeAgain(q) \/ Refuse(q)
      PROVE  UNCHANGED Promise!vars
  <2>1. UNCHANGED <<server, gone, outbox, effective>>
    BY <1>2 DEF ServeAgain, Refuse, serverVars, history
  <2> QED BY <2>1, Unseen DEF IInv
<1>3. CASE UNCHANGED vars
  BY <1>3, Unseen DEF vars, IInv
<1> QED BY <1>1, <1>2, <1>3, QueuePromise, RemovePromise, RebasePromise, ServePromise, OthersPromise
        DEF Next, Flushing, Served

\* A change is forgotten only once it took effect, unless its article is gone: the
\* outbox, the server and the network together implement Intents.
THEOREM PromiseKept == Spec => KeepsPromise
<1>1. IInv /\ IInv' /\ [Next]_vars => [Promise!Next]_(Promise!vars)
  BY StepPromise
<1> QED BY <1>1, InitPromise, Invariance, PTL DEF Spec, KeepsPromise, Promise!Spec

---------------------------------------------------------------------------

(***************************************************************************)
(* Realtime: the event streams of an API process.                          *)
(***************************************************************************)
CONSTANTS User, Stream, Owner, MaxStreams, MaxReconnect, Conns, MaxBreaks, MaxOpens
VARIABLES sub, joining, handlers, count, pending, attempts, conn, again, str, away, registry, fix,
          opens, breaks

Live == INSTANCE Realtime WITH gone <- away

Place == {"idle", "joining", "joined", "asking", "asked", "open", "closing", "leaving", "left",
          "refused", "failed"}
Tracked == {"joining", "joined", "asking", "asked", "open"}
AnyConn == Live!Conn \cup {Live!NoConn}
StreamRow == [at : Place, on : AnyConn]
Command == [what : {"sub", "unsub", "quit"}, u : User, for : Stream \cup {0}]
ConnRow == [state : {"none", "idle", "opening", "up", "broken", "quit"}, todo : Seq(Command),
            chans : SUBSET User, wait : BOOLEAN]

LiveTyped ==
  /\ {sub, joining} \subseteq AnyConn /\ attempts \in 0..MaxReconnect
  /\ handlers \in [User -> SUBSET Stream] /\ count \in [User -> Nat]
  /\ pending \in [User -> AnyConn] /\ again \in [Live!Conn -> SUBSET User]
  /\ conn \in [Live!Conn -> ConnRow] /\ str \in [Stream -> StreamRow]
  /\ away \subseteq Stream /\ registry \subseteq Stream /\ fix \subseteq AnyConn
  /\ opens \in 0..MaxOpens /\ breaks \in 0..MaxBreaks

\* A stream has a handler while it is open or closing; one whose client has left is not open, and
\* none that is over is tracked.
Placed(s, at, h, g, r) ==
  /\ s \in h[Owner[s]] <=> at \in {"open", "closing"}
  /\ at \in {"open", "idle"} => s \notin g
  /\ s \in g => s \notin r
  /\ s \in r => at \in Tracked

Placing == \A s \in Stream : Placed(s, str[s].at, handlers, away, registry)

\* A user's handlers are counted, and belong to the user's own streams.
Tallied(u, h, n) ==
  /\ IsFiniteSet(h) /\ n = Cardinality(h) /\ n <= MaxStreams
  /\ \A s \in h : Owner[s] = u

Tallying == \A u \in User : Tallied(u, handlers[u], count[u])

\* A connection that is to unsubscribe for a stream will find it waiting for that, and once only.
Sound(c, row, at) ==
  /\ row \in ConnRow
  /\ row.state # "quit" => \A i \in 1..Len(row.todo) :
       row.todo[i].what = "unsub" =>
         /\ row.todo[i].for \in Stream /\ at[row.todo[i].for] = [at |-> "leaving", on |-> c]
         /\ \A j \in 1..Len(row.todo) :
              row.todo[j].what = "unsub" /\ row.todo[j].for = row.todo[i].for => j = i

Commanded == \A c \in Live!Conn : Sound(c, conn[c], str)

LiveInv == Live!RealtimeAssumption /\ LiveTyped /\ Placing /\ Tallying /\ Commanded

LEMMA LiveConstants ==
  ASSUME Live!RealtimeAssumption
  PROVE  /\ User # {} /\ Owner \in [Stream -> User]
         /\ MaxStreams \in Nat \ {0} /\ MaxReconnect \in Nat \ {0} /\ Conns \in Nat \ {0}
         /\ MaxBreaks \in Nat /\ MaxOpens \in Nat /\ 0 \notin Stream
BY DEF Live!RealtimeAssumption

LEMMA LiveRows ==
  ASSUME Live!RealtimeAssumption
  PROVE  /\ Live!Idle \in StreamRow /\ Live!Idle.at = "idle"
         /\ \A at \in Place, on \in AnyConn : [at |-> at, on |-> on] \in StreamRow
         /\ (CHOOSE u \in User : TRUE) \in User
         /\ Live!NewConn \in ConnRow /\ Live!NewConn.todo = <<>>
<1>1. /\ Live!Idle \in StreamRow /\ Live!Idle.at = "idle"
      /\ \A at \in Place, on \in AnyConn : [at |-> at, on |-> on] \in StreamRow
  BY DEF Live!Idle, StreamRow, Place, AnyConn
<1>2. (CHOOSE u \in User : TRUE) \in User
  BY LiveConstants
<1>3. Live!NewConn \in ConnRow /\ Live!NewConn.todo = <<>>
  <2>0. <<>> \in Seq(Command)
    OBVIOUS
  <2>1. PICK none : none = <<>> /\ none \in Seq(Command)
    BY <2>0, Zenon
  <2>2. Live!NewConn = [state |-> "none", todo |-> none, chans |-> {}, wait |-> FALSE]
    BY <2>1 DEF Live!NewConn
  <2> QED BY <2>1, <2>2 DEF ConnRow
<1> QED BY <1>1, <1>2, <1>3

LEMMA FreshIsUnused ==
  ASSUME Live!Unused # {}
  PROVE  Live!Fresh \in Live!Conn /\ conn[Live!Fresh].state = "none"
<1>1. Live!Fresh \in Live!Unused
  BY Zenon DEF Live!Fresh
<1> QED BY <1>1 DEF Live!Unused

(***************************************************************************)
(* Connections and their commands.                                         *)
(***************************************************************************)

\* Nothing is added, and whoever waits still does.
LEMMA SoundStays ==
  ASSUME NEW c, NEW row, NEW at, Sound(c, row, at), NEW new \in ConnRow, NEW then,
         new.todo = row.todo, new.state # "quit" => row.state # "quit",
         new.state # "quit" =>
           \A s \in Stream : at[s] = [at |-> "leaving", on |-> c] => then[s] = at[s]
  PROVE  Sound(c, new, then)
<1> SUFFICES ASSUME new.state # "quit"
             PROVE  \A i \in 1..Len(new.todo) :
                      new.todo[i].what = "unsub" =>
                        /\ new.todo[i].for \in Stream
                        /\ then[new.todo[i].for] = [at |-> "leaving", on |-> c]
                        /\ \A j \in 1..Len(new.todo) :
                             new.todo[j].what = "unsub" /\ new.todo[j].for = new.todo[i].for
                               => j = i
  BY Zenon DEF Sound
<1> QED BY ZenonT(60) DEF Sound

\* Nothing is left to do, or the connection is over.
LEMMA SoundWhenOver ==
  ASSUME NEW c, NEW new \in ConnRow, NEW at, new.state = "quit" \/ new.todo = <<>>
  PROVE  Sound(c, new, at)
<1>1. new.todo = <<>> => 1..Len(new.todo) = {}
  OBVIOUS
<1> QED BY <1>1 DEF Sound

LEMMA Added ==
  ASSUME NEW old \in Seq(Command), NEW cmd \in Command
  PROVE  /\ Append(old, cmd) \in Seq(Command) /\ Len(Append(old, cmd)) = Len(old) + 1
         /\ Append(old, cmd)[Len(old) + 1] = cmd
         /\ \A i \in 1..Len(old) : Append(old, cmd)[i] = old[i]
BY AppendProperties

\* A command is added; if it is to unsubscribe, for a stream that begins to wait.
Adds(c, row, at, new, then, cmd) ==
  /\ Sound(c, row, at) /\ new \in ConnRow /\ cmd \in Command
  /\ new.todo = Append(row.todo, cmd) /\ row.state # "quit"
  /\ \A s \in Stream : at[s] = [at |-> "leaving", on |-> c] => then[s] = at[s]
  /\ cmd.what = "unsub" =>
       /\ cmd.for \in Stream /\ then[cmd.for] = [at |-> "leaving", on |-> c]
       /\ at[cmd.for] # [at |-> "leaving", on |-> c]

LEMMA SoundAdds ==
  ASSUME NEW c, NEW row, NEW at, NEW new, NEW then, NEW cmd, Adds(c, row, at, new, then, cmd)
  PROVE  Sound(c, new, then)
<1>0. /\ Sound(c, row, at) /\ new \in ConnRow /\ cmd \in Command
      /\ new.todo = Append(row.todo, cmd) /\ row.state # "quit"
      /\ \A s \in Stream : at[s] = [at |-> "leaving", on |-> c] => then[s] = at[s]
      /\ cmd.what = "unsub" =>
           /\ cmd.for \in Stream /\ then[cmd.for] = [at |-> "leaving", on |-> c]
           /\ at[cmd.for] # [at |-> "leaving", on |-> c]
  BY Zenon DEF Adds
<1>1. PICK old \in Seq(Command) : old = row.todo
  BY <1>0 DEF Sound, ConnRow
<1>2. PICK todo : todo = new.todo /\ todo = Append(old, cmd)
  BY <1>0, <1>1
<1>3. /\ todo \in Seq(Command) /\ Len(todo) = Len(old) + 1 /\ todo[Len(old) + 1] = cmd
      /\ \A i \in 1..Len(old) : todo[i] = old[i]
  BY <1>0, <1>2, Added
<1>4. ASSUME NEW i \in 1..Len(old), old[i].what = "unsub"
      PROVE  /\ old[i].for \in Stream /\ at[old[i].for] = [at |-> "leaving", on |-> c]
             /\ \A j \in 1..Len(old) : old[j].what = "unsub" /\ old[j].for = old[i].for => j = i
  BY <1>0, <1>1, <1>4, Zenon DEF Sound
<1>5. ASSUME NEW i \in 1..Len(todo), todo[i].what = "unsub"
      PROVE  /\ todo[i].for \in Stream /\ then[todo[i].for] = [at |-> "leaving", on |-> c]
             /\ \A j \in 1..Len(todo) : todo[j].what = "unsub" /\ todo[j].for = todo[i].for => j = i
  <2>1. \A j \in 1..Len(todo) : j \in 1..Len(old) \/ j = Len(old) + 1
    BY <1>3
  <2>2. CASE i \in 1..Len(old)
    <3>1. /\ todo[i] = old[i] /\ old[i].for \in Stream
          /\ at[old[i].for] = [at |-> "leaving", on |-> c]
      BY <1>3, <1>4, <1>5, <2>2, Zenon
    <3>2. then[todo[i].for] = [at |-> "leaving", on |-> c]
      BY <1>0, <3>1, Zenon
    <3>3. ASSUME NEW j \in 1..Len(todo), todo[j].what = "unsub", todo[j].for = todo[i].for
          PROVE  j = i
      <4>1. CASE j \in 1..Len(old)
        <5>1. todo[j] = old[j]
          BY <4>1, <1>3
        <5> QED BY <5>1, <4>1, <2>2, <3>1, <3>3, <1>4, <1>5, Zenon
      <4>2. CASE j = Len(old) + 1
        <5>1. todo[j] = cmd
          BY <4>2, <1>3
        <5> QED BY <1>0, <5>1, <3>1, <3>3, Zenon
      <4> QED BY <2>1, <4>1, <4>2, Zenon
    <3> QED BY <3>1, <3>2, <3>3, Zenon
  <2>3. CASE i = Len(old) + 1
    <3>1. todo[i] = cmd /\ cmd.what = "unsub"
      BY <1>3, <1>5, <2>3
    <3>2. ASSUME NEW j \in 1..Len(todo), todo[j].what = "unsub", todo[j].for = todo[i].for
          PROVE  j = i
      <4>1. CASE j \in 1..Len(old)
        <5>1. todo[j] = old[j]
          BY <4>1, <1>3
        <5>2. at[old[j].for] = [at |-> "leaving", on |-> c]
          BY <5>1, <4>1, <3>2, <1>4, Zenon
        <5> QED BY <1>0, <5>1, <5>2, <3>1, <3>2, Zenon
      <4> QED BY <2>1, <4>1, <2>3, Zenon
    <3> QED BY <1>0, <3>1, <3>2, Zenon
  <2> QED BY <2>1, <2>2, <2>3, Zenon
<1> QED BY <1>0, <1>2, <1>5, Zenon DEF Sound

\* The first command is answered, and only the stream it was for goes on.
LEMMA SoundAnswered ==
  ASSUME NEW c, NEW row, NEW at, Sound(c, row, at), NEW new \in ConnRow, NEW then,
         row.todo # <<>>, new.todo = Tail(row.todo), row.state # "quit",
         \A s \in Stream : at[s] = [at |-> "leaving", on |-> c] =>
           then[s] = at[s] \/ (Head(row.todo).what = "unsub" /\ Head(row.todo).for = s)
  PROVE  Sound(c, new, then)
<1>1. PICK old \in Seq(Command) : old = row.todo /\ old # <<>>
  BY DEF Sound, ConnRow
<1>2. PICK todo : todo = new.todo /\ todo = Tail(old)
  BY <1>1
<1>3. /\ todo \in Seq(Command) /\ Len(todo) = Len(old) - 1 /\ Head(old) = old[1]
      /\ \A i \in 1..Len(todo) : todo[i] = old[i + 1]
  BY <1>1, <1>2, HeadTailProperties
<1>4. ASSUME NEW i \in 1..Len(old), old[i].what = "unsub"
      PROVE  /\ old[i].for \in Stream /\ at[old[i].for] = [at |-> "leaving", on |-> c]
             /\ \A j \in 1..Len(old) : old[j].what = "unsub" /\ old[j].for = old[i].for => j = i
  BY <1>1, <1>4, Zenon DEF Sound
<1>5. /\ 1 \in 1..Len(old)
      /\ \A i \in 1..Len(todo) : i + 1 \in 1..Len(old) /\ i + 1 # 1
      /\ \A i, j \in 1..Len(todo) : i + 1 = j + 1 => i = j
  BY <1>1, <1>3
<1>6. ASSUME NEW i \in 1..Len(todo), todo[i].what = "unsub"
      PROVE  /\ todo[i].for \in Stream /\ then[todo[i].for] = [at |-> "leaving", on |-> c]
             /\ \A j \in 1..Len(todo) : todo[j].what = "unsub" /\ todo[j].for = todo[i].for => j = i
  <2>1. PICK k \in 1..Len(old) : k = i + 1 /\ k # 1 /\ todo[i] = old[k]
    BY <1>3, <1>5, Zenon
  <2>2. /\ old[k].for \in Stream /\ at[old[k].for] = [at |-> "leaving", on |-> c]
        /\ \A j \in 1..Len(old) : old[j].what = "unsub" /\ old[j].for = old[k].for => j = k
    BY <1>4, <1>6, <2>1, Zenon
  <2>3. ~(old[1].what = "unsub" /\ old[1].for = old[k].for)
    BY <1>5, <2>1, <2>2, Zenon
  <2>4. then[old[k].for] = at[old[k].for]
    BY <2>2, <2>3, <1>1, <1>3, Zenon
  <2>5. ASSUME NEW j \in 1..Len(todo), todo[j].what = "unsub", todo[j].for = todo[i].for
        PROVE  j = i
    <3>1. j + 1 \in 1..Len(old) /\ todo[j] = old[j + 1]
      BY <1>3, <1>5, Zenon
    <3>2. j + 1 = k
      BY <3>1, <2>1, <2>2, <2>5, Zenon
    <3> QED BY <3>2, <2>1, <1>5, Zenon
  <2> QED BY <2>1, <2>2, <2>4, <2>5, Zenon
<1> QED BY <1>2, <1>6, ZenonT(60) DEF Sound

(***************************************************************************)
(* What the steps have in common.                                          *)
(***************************************************************************)
LEMMA LiveIs ==
  ASSUME LiveInv
  PROVE  Live!RealtimeAssumption /\ LiveTyped /\ Placing /\ Tallying /\ Commanded
BY Zenon DEF LiveInv

LEMMA LiveTypes ==
  ASSUME LiveInv
  PROVE  /\ sub \in AnyConn /\ joining \in AnyConn /\ attempts \in 0..MaxReconnect
         /\ handlers \in [User -> SUBSET Stream] /\ count \in [User -> Nat]
         /\ pending \in [User -> AnyConn] /\ again \in [Live!Conn -> SUBSET User]
         /\ conn \in [Live!Conn -> ConnRow] /\ str \in [Stream -> StreamRow]
         /\ away \subseteq Stream /\ registry \subseteq Stream /\ fix \subseteq AnyConn
         /\ opens \in 0..MaxOpens /\ breaks \in 0..MaxBreaks
BY LiveIs DEF LiveTyped

LEMMA LiveKept ==
  ASSUME Live!RealtimeAssumption,
         sub' \in AnyConn, joining' \in AnyConn, attempts' \in 0..MaxReconnect,
         handlers' \in [User -> SUBSET Stream], count' \in [User -> Nat],
         pending' \in [User -> AnyConn], again' \in [Live!Conn -> SUBSET User],
         conn' \in [Live!Conn -> ConnRow], str' \in [Stream -> StreamRow],
         away' \subseteq Stream, registry' \subseteq Stream, fix' \subseteq AnyConn,
         opens' \in 0..MaxOpens, breaks' \in 0..MaxBreaks,
         Placing', Tallying', Commanded'
  PROVE  LiveInv'
<1>1. LiveTyped'
  BY DEF LiveTyped
<1> QED BY <1>1, Zenon DEF LiveInv

LEMMA TallyStays ==
  ASSUME LiveInv, handlers' = handlers, count' = count
  PROVE  Tallying'
BY LiveIs, Zenon DEF Tallying

\* No connection is told anything, and whoever waits for one still does.
LEMMA ConnsStay ==
  ASSUME LiveInv, conn' = conn, \A s \in Stream : str[s].at = "leaving" => str'[s] = str[s]
  PROVE  Commanded'
<1>1. ASSUME NEW c \in Live!Conn
      PROVE  Sound(c, conn'[c], str')
  <2>1. PICK row : row = conn[c]
    OBVIOUS
  <2>2. Sound(c, row, str) /\ row \in ConnRow
    BY <2>1, LiveIs, LiveTypes, Zenon DEF Commanded
  <2>3. PICK at, then : at = str /\ then = str'
    OBVIOUS
  <2>4. \A s \in Stream : at[s] = [at |-> "leaving", on |-> c] => then[s] = at[s]
    BY <2>3
  <2>5. Sound(c, row, then)
    BY <2>2, <2>3, <2>4, SoundStays, Zenon
  <2> QED BY <2>1, <2>3, <2>5, Zenon
<1> QED BY <1>1, Zenon DEF Commanded

\* One connection changes; whoever waits for another still does.
LEMMA ConnMoves ==
  ASSUME LiveInv, NEW c \in Live!Conn, NEW new \in ConnRow, conn' = [conn EXCEPT ![c] = new],
         Sound(c, new, str'),
         \A s \in Stream : str[s].at = "leaving" => str'[s] = str[s] \/ str[s].on = c
  PROVE  Commanded' /\ conn' \in [Live!Conn -> ConnRow]
<1>1. conn' \in [Live!Conn -> ConnRow]
  BY LiveTypes
<1>2. ASSUME NEW d \in Live!Conn
      PROVE  Sound(d, conn'[d], str')
  <2>1. CASE d = c
    <3>1. conn'[d] = new
      BY <2>1, LiveTypes
    <3> QED BY <3>1, <2>1, Zenon
  <2>2. CASE d # c
    <3>1. PICK row : row = conn[d]
      OBVIOUS
    <3>2. conn'[d] = row
      BY <3>1, <2>2, LiveTypes
    <3>3. Sound(d, row, str) /\ row \in ConnRow
      BY <3>1, LiveIs, LiveTypes, Zenon DEF Commanded
    <3>4. PICK at, then : at = str /\ then = str'
      OBVIOUS
    <3>5. \A s \in Stream : at[s] = [at |-> "leaving", on |-> d] => then[s] = at[s]
      BY <2>2, <3>4
    <3>6. Sound(d, row, then)
      BY <3>3, <3>4, <3>5, SoundStays, Zenon
    <3> QED BY <3>2, <3>4, <3>6, Zenon
  <2> QED BY <2>1, <2>2
<1> QED BY <1>1, <1>2, Zenon DEF Commanded

\* A connection changes its state, or who waits for it to connect.
LEMMA StateMoves ==
  ASSUME LiveInv, NEW c \in Live!Conn, NEW new \in ConnRow, conn' = [conn EXCEPT ![c] = new],
         new.todo = conn[c].todo, new.state # "quit" => conn[c].state # "quit",
         \A s \in Stream : str[s].at = "leaving" => str'[s] = str[s]
  PROVE  Commanded' /\ conn' \in [Live!Conn -> ConnRow]
<1>1. PICK row : row = conn[c]
  OBVIOUS
<1>2. Sound(c, row, str)
  BY <1>1, LiveIs, Zenon DEF Commanded
<1>3. PICK at, then : at = str /\ then = str'
  OBVIOUS
<1>4. \A s \in Stream : at[s] = [at |-> "leaving", on |-> c] => then[s] = at[s]
  BY <1>3
<1>5. Sound(c, new, then)
  BY <1>1, <1>2, <1>3, <1>4, SoundStays, Zenon
<1> QED BY <1>3, <1>5, ConnMoves, Zenon

\* A connection that has not ended is told something; to unsubscribe only for a stream that begins
\* to wait.
LEMMA CommandMoves ==
  ASSUME LiveInv, NEW c \in Live!Conn, NEW new \in ConnRow, conn' = [conn EXCEPT ![c] = new],
         NEW cmd \in Command, new.todo = Append(conn[c].todo, cmd),
         conn[c].state # "quit" \/ new.state = "quit",
         \A s \in Stream : str[s].at = "leaving" => str'[s] = str[s],
         cmd.what = "unsub" => /\ cmd.for \in Stream /\ str[cmd.for].at # "leaving"
                               /\ str'[cmd.for] = [at |-> "leaving", on |-> c]
  PROVE  Commanded' /\ conn' \in [Live!Conn -> ConnRow]
<1>1. PICK row : row = conn[c]
  OBVIOUS
<1>2. Sound(c, row, str)
  BY <1>1, LiveIs, Zenon DEF Commanded
<1>3. PICK at, then : at = str /\ then = str'
  OBVIOUS
<1>4. \A s \in Stream : at[s] = [at |-> "leaving", on |-> c] => then[s] = at[s]
  BY <1>3
<1>5. Sound(c, new, then)
  <2>1. CASE conn[c].state # "quit"
    <3>1. cmd.what = "unsub" =>
            /\ cmd.for \in Stream /\ then[cmd.for] = [at |-> "leaving", on |-> c]
            /\ at[cmd.for] # [at |-> "leaving", on |-> c]
      BY <1>3
    <3>2. new.todo = Append(row.todo, cmd) /\ row.state # "quit"
      BY <1>1, <2>1
    <3>3. Sound(c, row, at)
      BY <1>2, <1>3, Zenon
    <3>4. Adds(c, row, at, new, then, cmd)
      BY <1>4, <3>1, <3>2, <3>3, Zenon DEF Adds
    <3> QED BY <3>4, SoundAdds, Zenon
  <2>2. CASE new.state = "quit"
    BY <2>2, SoundWhenOver, Zenon
  <2> QED BY <2>1, <2>2
<1> QED BY <1>3, <1>5, ConnMoves, Zenon

\* After being told, a connection has one more command.
Tells(c, result, what, for, new, cmd) ==
  /\ new \in ConnRow /\ cmd \in Command /\ result = [conn EXCEPT ![c] = new]
  /\ new.todo = Append(conn[c].todo, cmd) /\ cmd.what = what /\ cmd.for = for
  /\ conn[c].state # "quit" \/ new.state = "quit"

LEMMA Queues ==
  ASSUME LiveInv, NEW c \in Live!Conn, NEW what \in {"sub", "unsub", "quit"}, NEW u \in User,
         NEW s \in Stream \cup {0}
  PROVE  \E new, cmd : Tells(c, Live!Queued(c, what, u, s), what, s, new, cmd)
<1>1. PICK row \in ConnRow : row = conn[c]
  BY LiveTypes
<1>2. PICK cmd \in Command : cmd = [what |-> what, u |-> u, for |-> s] /\ cmd.what = what
                             /\ cmd.for = s
  <2>1. PICK cmd : cmd = [what |-> what, u |-> u, for |-> s]
    OBVIOUS
  <2>2. cmd \in Command /\ cmd.what = what /\ cmd.for = s
    BY <2>1 DEF Command
  <2> QED BY <2>1, <2>2
<1>3. PICK todo \in Seq(Command) : todo = Append(row.todo, cmd)
  <2>1. row.todo \in Seq(Command)
    BY DEF ConnRow
  <2> QED BY <2>1, Added
<1>4. PICK state : state = IF row.state = "idle" THEN "opening" ELSE row.state
  OBVIOUS
<1>5. PICK new : new = [row EXCEPT !.todo = todo, !.state = state]
  OBVIOUS
<1>6. new \in ConnRow /\ new.todo = todo /\ new.state = state
  BY <1>4, <1>5 DEF ConnRow
<1>7. Live!Queued(c, what, u, s) = [conn EXCEPT ![c] = new]
  BY <1>1, <1>2, <1>3, <1>4, <1>5, LiveTypes DEF Live!Queued
<1>8. row.state # "quit" \/ new.state = "quit"
  BY <1>4, <1>6
<1> QED BY <1>1, <1>2, <1>3, <1>6, <1>7, <1>8, Zenon DEF Tells

LEMMA Drops ==
  ASSUME LiveInv, NEW c \in Live!Conn
  PROVE  \E new, cmd : Tells(c, Live!Dropped(c), "quit", 0, new, cmd)
<1>1. PICK row \in ConnRow : row = conn[c]
  BY LiveTypes
<1>2. PICK u \in User : u = CHOOSE v \in User : TRUE
  BY LiveIs, LiveRows
<1>3. PICK cmd \in Command : cmd = [what |-> "quit", u |-> u, for |-> 0] /\ cmd.what = "quit"
                             /\ cmd.for = 0
  <2>1. PICK cmd : cmd = [what |-> "quit", u |-> u, for |-> 0]
    OBVIOUS
  <2>2. cmd \in Command /\ cmd.what = "quit" /\ cmd.for = 0
    BY <2>1 DEF Command
  <2> QED BY <2>1, <2>2
<1>4. PICK todo \in Seq(Command) : todo = Append(row.todo, cmd)
  <2>1. row.todo \in Seq(Command)
    BY DEF ConnRow
  <2> QED BY <2>1, Added
<1>5. PICK new : new = [row EXCEPT !.todo = todo]
  OBVIOUS
<1>6. new \in ConnRow /\ new.todo = todo /\ new.state = row.state
  BY <1>5 DEF ConnRow
<1>7. Live!Dropped(c) = [conn EXCEPT ![c] = new]
  BY <1>1, <1>2, <1>3, <1>4, <1>5, LiveTypes DEF Live!Dropped
<1>8. row.state # "quit" \/ new.state = "quit"
  BY <1>6
<1> QED BY <1>1, <1>3, <1>4, <1>6, <1>7, <1>8, Zenon DEF Tells

\* Streams go on among the places that have no handler.
LEMMA PlacesPass ==
  ASSUME LiveInv, handlers' = handlers, away' = away, registry' \subseteq registry,
         \A s \in Stream :
           \/ str'[s].at = str[s].at
           \/ /\ str[s].at \notin {"open", "closing"}
              /\ str'[s].at \notin {"open", "closing", "idle"}
              /\ s \in registry' => str'[s].at \in Tracked
  PROVE  Placing'
<1>1. ASSUME NEW s \in Stream
      PROVE  Placed(s, str'[s].at, handlers', away', registry')
  <2>1. PICK at, then : at = str[s].at /\ then = str'[s].at
    OBVIOUS
  <2>2. Placed(s, at, handlers, away, registry)
    BY <2>1, LiveIs, Zenon DEF Placing
  <2>3. \/ then = at
        \/ /\ at \notin {"open", "closing"} /\ then \notin {"open", "closing", "idle"}
           /\ s \in registry' => then \in Tracked
    BY <2>1, Zenon
  <2>4. Placed(s, then, handlers', away', registry')
    BY <2>2, <2>3 DEF Placed
  <2> QED BY <2>1, <2>4, Zenon
<1> QED BY <1>1, Zenon DEF Placing

\* One stream moves; nothing changes for the others.
LEMMA StreamMoves ==
  ASSUME LiveInv, NEW s \in Stream, NEW row \in StreamRow, str' = [str EXCEPT ![s] = row],
         Placed(s, row.at, handlers', away', registry'),
         \A t \in Stream \ {s} : /\ t \in handlers'[Owner[t]] <=> t \in handlers[Owner[t]]
                                 /\ t \in away' <=> t \in away
                                 /\ t \in registry' => t \in registry
  PROVE  Placing' /\ str' \in [Stream -> StreamRow]
<1>1. str' \in [Stream -> StreamRow] /\ str'[s] = row /\ \A t \in Stream \ {s} : str'[t] = str[t]
  BY LiveTypes
<1>2. ASSUME NEW t \in Stream, t # s
      PROVE  Placed(t, str'[t].at, handlers', away', registry')
  <2>1. PICK at : at = str[t].at
    OBVIOUS
  <2>2. str'[t].at = at
    BY <1>1, <1>2, <2>1
  <2>3. Placed(t, at, handlers, away, registry)
    BY <2>1, LiveIs, Zenon DEF Placing
  <2>4. Placed(t, at, handlers', away', registry')
    BY <1>2, <2>3 DEF Placed
  <2> QED BY <2>2, <2>4, Zenon
<1> QED BY <1>1, <1>2, Zenon DEF Placing

(***************************************************************************)
(* The steps of a stream.                                                  *)
(***************************************************************************)
LEMMA Ensures ==
  ASSUME LiveInv, Live!Ensure, \A s \in Stream : str[s].at = "leaving" => str'[s] = str[s]
  PROVE  /\ sub' \in AnyConn /\ joining' \in AnyConn
         /\ conn' \in [Live!Conn -> ConnRow] /\ Commanded'
<1>1. CASE sub # Live!NoConn
  <2>1. sub' = sub /\ joining' = joining /\ conn' = conn
    BY <1>1 DEF Live!Ensure
  <2> QED BY <2>1, LiveTypes, ConnsStay
<1>2. CASE sub = Live!NoConn
  <2>1. PICK c \in Live!Conn : c = Live!Fresh /\ conn[c].state = "none"
    BY <1>2, FreshIsUnused, Zenon DEF Live!Ensure
  <2>2. PICK row \in ConnRow : row = conn[c]
    BY LiveTypes
  <2>3. PICK state : state = IF joining = Live!NoConn THEN "opening" ELSE "idle"
    OBVIOUS
  <2>4. PICK wait \in BOOLEAN : wait = (joining = Live!NoConn)
    OBVIOUS
  <2>5. PICK new : new = [row EXCEPT !.state = state, !.wait = wait]
    OBVIOUS
  <2>6. new \in ConnRow /\ new.todo = row.todo
    BY <2>3, <2>4, <2>5 DEF ConnRow
  <2>7. conn' = [conn EXCEPT ![c] = new]
    BY <1>2, <2>1, <2>2, <2>3, <2>4, <2>5, LiveTypes DEF Live!Ensure
  <2>8. sub' \in AnyConn /\ joining' \in AnyConn
    BY <1>2, <2>1, LiveTypes DEF Live!Ensure, AnyConn
  <2>9. conn[c].state # "quit"
    BY <2>1
  <2> QED BY <2>2, <2>6, <2>7, <2>8, <2>9, StateMoves, Zenon
<1> QED BY <1>1, <1>2

LEMMA LiveOpen ==
  ASSUME LiveInv, NEW s \in Stream, Live!Open(s)
  PROVE  LiveInv'
<1>1. /\ str[s].at = "idle" /\ opens < MaxOpens /\ opens' = opens + 1
      /\ registry' = registry \cup {s} /\ Live!Ensure
      /\ handlers' = handlers /\ count' = count /\ pending' = pending /\ attempts' = attempts
      /\ again' = again /\ away' = away /\ fix' = fix /\ breaks' = breaks
  BY DEF Live!Open
<1>2. PICK row : /\ str' = [str EXCEPT ![s] = row]
                 /\ row = IF joining' = Live!NoConn
                          THEN [at |-> "joined", on |-> Live!NoConn]
                          ELSE [at |-> "joining", on |-> joining']
  BY Zenon DEF Live!Open
<1>3. \A t \in Stream : str[t].at = "leaving" => str'[t] = str[t]
  BY <1>1, <1>2, LiveTypes
<1>4. /\ sub' \in AnyConn /\ joining' \in AnyConn
      /\ conn' \in [Live!Conn -> ConnRow] /\ Commanded'
  BY <1>1, <1>3, Ensures, Zenon
<1>5. row \in StreamRow /\ row.at \in {"joined", "joining"}
  BY <1>2, <1>4 DEF StreamRow, AnyConn, Place
<1>6. Placed(s, row.at, handlers', away', registry')
  <2>1. Placed(s, "idle", handlers, away, registry)
    BY <1>1, LiveIs, Zenon DEF Placing
  <2> QED BY <2>1, <1>1, <1>5 DEF Placed, Tracked
<1>7. Placing' /\ str' \in [Stream -> StreamRow]
  BY <1>1, <1>2, <1>5, <1>6, StreamMoves
<1>8. Tallying'
  BY <1>1, TallyStays, Zenon
<1>9. opens' \in 0..MaxOpens /\ registry' \subseteq Stream
  BY <1>1, LiveTypes, LiveIs, LiveConstants
<1> QED BY <1>1, <1>4, <1>7, <1>8, <1>9, LiveTypes, LiveIs, LiveKept

\* A stream is registered, closed again at once, or ends; only it moves.
LEMMA Commits ==
  ASSUME LiveInv, NEW s \in Stream, str[s].at \in {"joined", "asked"}, Live!Commit(s), away' = away
  PROVE  /\ Placing' /\ Tallying' /\ str' \in [Stream -> StreamRow]
         /\ handlers' \in [User -> SUBSET Stream] /\ count' \in [User -> Nat]
         /\ registry' \subseteq Stream
         /\ \A t \in Stream : str[t].at = "leaving" => str'[t] = str[t]
<1>1. PICK at : at = str[s].at /\ at \in {"joined", "asked"}
  OBVIOUS
<1>2. Placed(s, at, handlers, away, registry)
  BY <1>1, LiveIs, Zenon DEF Placing
<1>3. ASSUME NEW how \in {"failed", "refused"}, Live!Ends(s, how), handlers' = handlers,
             count' = count
      PROVE  /\ Placing' /\ Tallying' /\ str' \in [Stream -> StreamRow]
             /\ registry' \subseteq Stream
             /\ \A t \in Stream : str[t].at = "leaving" => str'[t] = str[t]
  <2>1. PICK row : row = [at |-> how, on |-> Live!NoConn]
    OBVIOUS
  <2>2. row \in StreamRow /\ row.at = how
    BY <2>1 DEF StreamRow, Place, AnyConn
  <2>3. str' = [str EXCEPT ![s] = row] /\ registry' = registry \ {s}
    BY <1>3, <2>1 DEF Live!Ends
  <2>4. Placed(s, how, handlers', away', registry')
    BY <1>1, <1>2, <1>3, <2>3 DEF Placed
  <2>5. Placing' /\ str' \in [Stream -> StreamRow]
    BY <1>3, <2>2, <2>3, <2>4, StreamMoves
  <2>6. Tallying'
    BY <1>3, TallyStays, Zenon
  <2>7. \A t \in Stream : str[t].at = "leaving" => str'[t] = str[t]
    BY <1>1, <2>3, LiveTypes
  <2> QED BY <2>3, <2>5, <2>6, <2>7, LiveTypes
<1>4. CASE sub = Live!NoConn \/ Live!Full(Owner[s], TRUE)
  BY <1>3, <1>4, LiveTypes DEF Live!Commit
<1>5. CASE ~(sub = Live!NoConn \/ Live!Full(Owner[s], TRUE))
  <2>1. PICK u \in User : u = Owner[s]
    BY LiveIs, LiveConstants
  <2>2. /\ handlers' = [handlers EXCEPT ![u] = @ \cup {s}]
        /\ count' = [count EXCEPT ![u] = @ + 1] /\ registry' = registry
        /\ ~(count[u] >= MaxStreams)
        /\ str' = [str EXCEPT ![s] = [at |-> Live!Opened(s), on |-> Live!NoConn]]
    BY <1>5, <2>1 DEF Live!Commit, Live!Full
  <2>3. PICK then : then = IF s \in away THEN "closing" ELSE "open"
    OBVIOUS
  <2>4. PICK row : row = [at |-> then, on |-> Live!NoConn]
    OBVIOUS
  <2>5. row \in StreamRow /\ row.at = then /\ str' = [str EXCEPT ![s] = row]
    BY <2>2, <2>3, <2>4 DEF StreamRow, Place, AnyConn, Live!Opened
  <2>6. /\ handlers' \in [User -> SUBSET Stream] /\ count' \in [User -> Nat]
        /\ handlers'[u] = handlers[u] \cup {s} /\ count'[u] = count[u] + 1
        /\ \A v \in User \ {u} : handlers'[v] = handlers[v] /\ count'[v] = count[v]
    BY <2>2, LiveTypes
  <2>7. Placed(s, then, handlers', away', registry')
    <3>1. s \in handlers'[Owner[s]]
      BY <2>1, <2>6
    <3>2. s \in registry' => then \in Tracked
      BY <1>2, <2>2, <2>3 DEF Placed, Tracked
    <3> QED BY <1>2, <2>2, <2>3, <3>1, <3>2 DEF Placed
  <2>8. Placing' /\ str' \in [Stream -> StreamRow]
    <3>1. \A t \in Stream \ {s} : t \in handlers'[Owner[t]] <=> t \in handlers[Owner[t]]
      <4>1. \A t \in Stream : Owner[t] \in User
        BY LiveIs, LiveConstants
      <4> QED BY <4>1, <2>6
    <3> QED BY <2>2, <2>5, <2>7, <3>1, StreamMoves
  <2>9. Tallying'
    <3>1. Tallied(u, handlers[u], count[u])
      BY LiveIs, Zenon DEF Tallying
    <3>2. s \notin handlers[u]
      BY <1>1, <1>2, <2>1 DEF Placed
    <3>3. PICK h : h = handlers[u]
      OBVIOUS
    <3>10. PICK n \in Nat : n = count[u]
      BY LiveTypes
    <3>4. IsFiniteSet(h) /\ n = Cardinality(h) /\ \A t \in h : Owner[t] = u
      BY <3>1, <3>3, <3>10 DEF Tallied
    <3>5. IsFiniteSet(h \cup {s}) /\ Cardinality(h \cup {s}) = n + 1
      BY <3>2, <3>3, <3>4, FS_AddElement
    <3>6. n + 1 <= MaxStreams
      BY <2>2, <3>10, LiveIs, LiveConstants
    <3>7. \A t \in h \cup {s} : Owner[t] = u
      BY <2>1, <3>4
    <3>8. Tallied(u, handlers'[u], count'[u])
      BY <2>6, <3>3, <3>10, <3>5, <3>6, <3>7 DEF Tallied
    <3>9. \A v \in User \ {u} : Tallied(v, handlers'[v], count'[v])
      BY <2>6, LiveIs, Zenon DEF Tallying
    <3> QED BY <3>8, <3>9, Zenon DEF Tallying
  <2>10. \A t \in Stream : str[t].at = "leaving" => str'[t] = str[t]
    BY <1>1, <2>5, LiveTypes
  <2> QED BY <2>2, <2>6, <2>8, <2>9, <2>10, LiveTypes
<1> QED BY <1>4, <1>5

LEMMA LiveSubscribed ==
  ASSUME LiveInv, NEW s \in Stream, Live!Subscribed(s)
  PROVE  LiveInv'
<1>1. /\ str[s].at = "asked" /\ Live!Commit(s) /\ sub' = sub /\ joining' = joining
      /\ attempts' = attempts /\ conn' = conn /\ again' = again /\ away' = away /\ fix' = fix
      /\ opens' = opens /\ breaks' = breaks
  BY DEF Live!Subscribed
<1>2. pending' \in [User -> AnyConn]
  BY LiveTypes DEF Live!Subscribed, AnyConn
<1>3. /\ Placing' /\ Tallying' /\ str' \in [Stream -> StreamRow]
      /\ handlers' \in [User -> SUBSET Stream] /\ count' \in [User -> Nat]
      /\ registry' \subseteq Stream
      /\ \A t \in Stream : str[t].at = "leaving" => str'[t] = str[t]
  BY <1>1, Commits
<1>4. Commanded'
  BY <1>1, <1>3, ConnsStay, Zenon
<1> QED BY <1>1, <1>2, <1>3, <1>4, LiveTypes, LiveIs, LiveKept

\* A handler is asked for, and with it the subscription.
LEMMA Asks ==
  ASSUME LiveInv, NEW s \in Stream, str[s].at = "joined", NEW c \in AnyConn, c # Live!NoConn,
         str' = [str EXCEPT ![s] = [at |-> "asking", on |-> c]],
         conn' = IF pending[Owner[s]] = Live!NoConn /\ Live!Running(c)
                 THEN Live!Queued(c, "sub", Owner[s], s) ELSE conn,
         handlers' = handlers, registry' = registry, away' = away
  PROVE  /\ Placing' /\ str' \in [Stream -> StreamRow] /\ Commanded'
         /\ conn' \in [Live!Conn -> ConnRow]
<1>1. PICK row : row = [at |-> "asking", on |-> c]
  OBVIOUS
<1>2. row \in StreamRow /\ row.at = "asking" /\ str' = [str EXCEPT ![s] = row]
  BY <1>1 DEF StreamRow, Place
<1>3. Placing' /\ str' \in [Stream -> StreamRow]
  <2>1. Placed(s, "joined", handlers, away, registry)
    BY LiveIs, Zenon DEF Placing
  <2>2. Placed(s, row.at, handlers', away', registry')
    BY <1>2, <2>1 DEF Placed, Tracked
  <2> QED BY <1>2, <2>2, StreamMoves
<1>4. \A t \in Stream : str[t].at = "leaving" => str'[t] = str[t]
  BY <1>2, LiveTypes
<1>5. CASE conn' = conn
  BY <1>3, <1>4, <1>5, ConnsStay, LiveTypes
<1>6. CASE Live!Running(c) /\ conn' = Live!Queued(c, "sub", Owner[s], s)
  <2>1. PICK d \in Live!Conn : d = c
    BY <1>6 DEF Live!Running, AnyConn
  <2>2. PICK u \in User : u = Owner[s]
    BY LiveIs, LiveConstants
  <2>3. PICK what \in {"sub", "unsub", "quit"}, t \in Stream \cup {0} : what = "sub" /\ t = s
    OBVIOUS
  <2>4. PICK new, cmd : Tells(d, Live!Queued(d, what, u, t), what, t, new, cmd)
    BY Queues, Zenon
  <2>5. /\ conn' = [conn EXCEPT ![d] = new] /\ cmd.what # "unsub" /\ new \in ConnRow
        /\ cmd \in Command /\ new.todo = Append(conn[d].todo, cmd)
        /\ conn[d].state # "quit" \/ new.state = "quit"
    BY <1>6, <2>1, <2>2, <2>3, <2>4 DEF Tells
  <2>6. Commanded' /\ conn' \in [Live!Conn -> ConnRow]
    BY <1>4, <2>5, CommandMoves
  <2> QED BY <1>3, <2>6
<1> QED BY <1>5, <1>6

LEMMA LiveSubscribe ==
  ASSUME LiveInv, NEW s \in Stream, Live!Subscribe(s)
  PROVE  LiveInv'
<1>1. /\ str[s].at = "joined" /\ sub' = sub /\ joining' = joining /\ attempts' = attempts
      /\ again' = again /\ away' = away /\ fix' = fix /\ opens' = opens /\ breaks' = breaks
  BY DEF Live!Subscribe
<1>2. PICK u \in User : u = Owner[s]
  BY LiveIs, LiveConstants
<1>3. PICK c \in AnyConn : c = IF pending[u] = Live!NoConn THEN sub ELSE pending[u]
  BY LiveTypes
<1>4. \/ /\ Live!Ends(s, "refused") \/ Live!Ends(s, "failed")
         /\ handlers' = handlers /\ count' = count /\ pending' = pending /\ conn' = conn
      \/ /\ Live!Commit(s) /\ pending' = pending /\ conn' = conn
      \/ /\ c # Live!NoConn /\ pending' = [pending EXCEPT ![u] = c]
         /\ str' = [str EXCEPT ![s] = [at |-> "asking", on |-> c]]
         /\ conn' = IF pending[u] = Live!NoConn /\ Live!Running(c)
                    THEN Live!Queued(c, "sub", u, s) ELSE conn
         /\ handlers' = handlers /\ count' = count /\ registry' = registry
  <2>1. PICK over : over = IF Live!Full(u, FALSE) THEN "refused" ELSE "failed"
    OBVIOUS
  <2>2. over \in {"refused", "failed"}
    BY <2>1
  <2>3. \/ /\ Live!Ends(s, over)
           /\ handlers' = handlers /\ count' = count /\ pending' = pending /\ conn' = conn
        \/ /\ Live!Commit(s) /\ pending' = pending /\ conn' = conn
        \/ /\ c # Live!NoConn /\ pending' = [pending EXCEPT ![u] = c]
           /\ str' = [str EXCEPT ![s] = [at |-> "asking", on |-> c]]
           /\ conn' = IF pending[u] = Live!NoConn /\ Live!Running(c)
                      THEN Live!Queued(c, "sub", u, s) ELSE conn
           /\ handlers' = handlers /\ count' = count /\ registry' = registry
    BY <1>2, <1>3, <2>1, Zenon DEF Live!Subscribe
  <2>4. CASE over = "refused"
    BY <2>3, <2>4, Zenon
  <2>5. CASE over = "failed"
    BY <2>3, <2>5, Zenon
  <2> QED BY <2>2, <2>4, <2>5
<1>5. ASSUME NEW how \in {"refused", "failed"}, Live!Ends(s, how),
             handlers' = handlers, count' = count, pending' = pending, conn' = conn
      PROVE  LiveInv'
  <2>1. PICK row : row = [at |-> how, on |-> Live!NoConn]
    OBVIOUS
  <2>2. row \in StreamRow /\ row.at = how
    BY <2>1 DEF StreamRow, Place, AnyConn
  <2>3. str' = [str EXCEPT ![s] = row] /\ registry' = registry \ {s}
    BY <1>5, <2>1 DEF Live!Ends
  <2>4. Placed(s, how, handlers', away', registry')
    <3>1. Placed(s, "joined", handlers, away, registry)
      BY <1>1, LiveIs, Zenon DEF Placing
    <3> QED BY <3>1, <1>1, <1>5, <2>3 DEF Placed
  <2>5. Placing' /\ str' \in [Stream -> StreamRow]
    BY <1>1, <1>5, <2>2, <2>3, <2>4, StreamMoves
  <2>6. Tallying'
    BY <1>5, TallyStays, Zenon
  <2>7. \A t \in Stream : str[t].at = "leaving" => str'[t] = str[t]
    BY <1>1, <2>3, LiveTypes
  <2>8. Commanded'
    BY <1>5, <2>7, ConnsStay, Zenon
  <2>9. registry' \subseteq Stream
    BY <2>3, LiveTypes
  <2> QED BY <1>1, <1>5, <2>5, <2>6, <2>8, <2>9, LiveTypes, LiveIs, LiveKept
<1>6. CASE Live!Commit(s) /\ pending' = pending /\ conn' = conn
  <2>1. /\ Placing' /\ Tallying' /\ str' \in [Stream -> StreamRow]
        /\ handlers' \in [User -> SUBSET Stream] /\ count' \in [User -> Nat]
        /\ registry' \subseteq Stream
        /\ \A t \in Stream : str[t].at = "leaving" => str'[t] = str[t]
    BY <1>1, <1>6, Commits
  <2>2. Commanded'
    BY <1>6, <2>1, ConnsStay, Zenon
  <2> QED BY <1>1, <1>6, <2>1, <2>2, LiveTypes, LiveIs, LiveKept
<1>7. CASE /\ c # Live!NoConn /\ pending' = [pending EXCEPT ![u] = c]
           /\ str' = [str EXCEPT ![s] = [at |-> "asking", on |-> c]]
           /\ conn' = IF pending[u] = Live!NoConn /\ Live!Running(c)
                      THEN Live!Queued(c, "sub", u, s) ELSE conn
           /\ handlers' = handlers /\ count' = count /\ registry' = registry
  <2>1. /\ Placing' /\ str' \in [Stream -> StreamRow] /\ Commanded'
        /\ conn' \in [Live!Conn -> ConnRow]
    BY <1>1, <1>2, <1>7, Asks
  <2>2. Tallying'
    BY <1>7, TallyStays, Zenon
  <2>3. pending' \in [User -> AnyConn]
    BY <1>7, LiveTypes
  <2> QED BY <1>1, <1>7, <2>1, <2>2, <2>3, LiveTypes, LiveIs, LiveKept
<1> QED BY <1>4, <1>5, <1>6, <1>7

LEMMA LiveGone ==
  ASSUME LiveInv, NEW s \in Stream, Live!Gone(s)
  PROVE  LiveInv'
<1>1. /\ str[s].at \in {"joining", "asking", "open"}
      /\ away' = away \cup {s} /\ registry' = registry \ {s}
      /\ str' = [str EXCEPT ![s].at = IF str[s].at = "open" THEN "closing" ELSE str[s].at]
      /\ sub' = sub /\ joining' = joining /\ handlers' = handlers /\ count' = count
      /\ pending' = pending /\ attempts' = attempts /\ conn' = conn /\ again' = again
      /\ fix' = fix /\ opens' = opens /\ breaks' = breaks
  BY DEF Live!Gone
<1>2. PICK old \in StreamRow : old = str[s]
  BY LiveTypes
<1>3. PICK at : at = IF old.at = "open" THEN "closing" ELSE old.at
  OBVIOUS
<1>4. PICK row : row = [old EXCEPT !.at = at]
  OBVIOUS
<1>5. row \in StreamRow /\ row.at = at /\ str' = [str EXCEPT ![s] = row]
  BY <1>1, <1>2, <1>3, <1>4, LiveTypes DEF StreamRow, Place
<1>6. Placed(s, at, handlers', away', registry')
  <2>1. Placed(s, old.at, handlers, away, registry)
    BY <1>2, LiveIs, Zenon DEF Placing
  <2> QED BY <2>1, <1>1, <1>2, <1>3 DEF Placed
<1>7. Placing' /\ str' \in [Stream -> StreamRow]
  BY <1>1, <1>5, <1>6, StreamMoves
<1>8. Tallying'
  BY <1>1, TallyStays, Zenon
<1>9. \A t \in Stream : str[t].at = "leaving" => str'[t] = str[t]
  BY <1>1, <1>5, LiveTypes
<1>10. Commanded'
  BY <1>1, <1>9, ConnsStay, Zenon
<1>11. away' \subseteq Stream /\ registry' \subseteq Stream
  BY <1>1, LiveTypes
<1> QED BY <1>1, <1>7, <1>8, <1>10, <1>11, LiveTypes, LiveIs, LiveKept

\* A stream that is over goes back to rest.
LEMMA LiveRetry ==
  ASSUME LiveInv, NEW s \in Stream, Live!Retry(s)
  PROVE  LiveInv'
<1>1. /\ str[s].at \in {"refused", "failed"} /\ away' = away \ {s}
      /\ str' = [str EXCEPT ![s] = Live!Idle]
      /\ sub' = sub /\ joining' = joining /\ handlers' = handlers /\ count' = count
      /\ pending' = pending /\ attempts' = attempts /\ conn' = conn /\ again' = again
      /\ registry' = registry /\ fix' = fix /\ opens' = opens /\ breaks' = breaks
  BY DEF Live!Retry
<1>2. Live!Idle \in StreamRow /\ Live!Idle.at = "idle"
  BY LiveIs, LiveRows
<1>3. Placed(s, Live!Idle.at, handlers', away', registry')
  <2>1. PICK at : at = str[s].at /\ at \in {"refused", "failed"}
    BY <1>1
  <2>2. Placed(s, at, handlers, away, registry)
    BY <2>1, LiveIs, Zenon DEF Placing
  <2> QED BY <1>1, <1>2, <2>1, <2>2 DEF Placed, Tracked
<1>4. Placing' /\ str' \in [Stream -> StreamRow]
  BY <1>1, <1>2, <1>3, StreamMoves
<1>5. Tallying'
  BY <1>1, TallyStays, Zenon
<1>6. \A t \in Stream : str[t].at = "leaving" => str'[t] = str[t]
  BY <1>1, LiveTypes
<1>7. Commanded'
  BY <1>1, <1>6, ConnsStay, Zenon
<1>8. away' \subseteq Stream
  BY <1>1, LiveTypes
<1> QED BY <1>1, <1>4, <1>5, <1>7, <1>8, LiveTypes, LiveIs, LiveKept

LEMMA LiveLeave ==
  ASSUME LiveInv, NEW s \in Stream, Live!Leave(s)
  PROVE  LiveInv'
<1>1. /\ str[s].at = "closing" /\ sub' = sub /\ joining' = joining /\ pending' = pending
      /\ attempts' = attempts /\ again' = again /\ registry' = registry /\ fix' = fix
      /\ opens' = opens /\ breaks' = breaks
  BY DEF Live!Leave
<1>2. PICK u \in User : u = Owner[s]
  BY LiveIs, LiveConstants
<1>3. /\ handlers' = [handlers EXCEPT ![u] = handlers[u] \ {s}]
      /\ count' = [count EXCEPT ![u] = IF count[u] > 1 THEN count[u] - 1 ELSE 0]
  BY <1>2 DEF Live!Leave
<1>4. Placed(s, "closing", handlers, away, registry)
  BY <1>1, LiveIs, Zenon DEF Placing
<1>5. s \in handlers[u] /\ s \notin registry
  BY <1>2, <1>4 DEF Placed, Tracked
<1>6. /\ handlers' \in [User -> SUBSET Stream] /\ handlers'[u] = handlers[u] \ {s}
      /\ \A v \in User \ {u} : handlers'[v] = handlers[v] /\ count'[v] = count[v]
      /\ count'[u] = IF count[u] > 1 THEN count[u] - 1 ELSE 0
  BY <1>3, LiveTypes
<1>7. Tallied(u, handlers'[u], count'[u]) /\ count'[u] \in Nat
  <2>1. Tallied(u, handlers[u], count[u])
    BY LiveIs, Zenon DEF Tallying
  <2>2. PICK h : h = handlers[u]
    OBVIOUS
  <2>3. PICK n \in Nat : n = count[u]
    BY LiveTypes
  <2>4. IsFiniteSet(h) /\ n = Cardinality(h) /\ n <= MaxStreams /\ \A t \in h : Owner[t] = u
    BY <2>1, <2>2, <2>3 DEF Tallied
  <2>5. IsFiniteSet(h \ {s}) /\ Cardinality(h \ {s}) = n - 1
    <3>1. s \in h /\ IsFiniteSet(h) /\ Cardinality(h) = n
      BY <1>5, <2>2, <2>4
    <3> QED BY <3>1, FS_RemoveElement, Zenon
  <2>6. Cardinality(h \ {s}) \in Nat
    BY <2>5, FS_CardinalityType
  <2>7. PICK m \in Nat : m = n - 1
    BY <2>5, <2>6
  <2>8. count'[u] = m /\ m <= MaxStreams
    BY <1>6, <2>3, <2>4, <2>7, LiveIs, LiveConstants
  <2>9. \A t \in h \ {s} : Owner[t] = u
    BY <2>4
  <2>10. handlers'[u] = h \ {s} /\ Cardinality(h \ {s}) = m
    BY <1>6, <2>2, <2>5, <2>7
  <2> QED BY <2>5, <2>8, <2>9, <2>10 DEF Tallied
<1>8. Tallying' /\ count' \in [User -> Nat]
  <2>1. ASSUME NEW v \in User
        PROVE  Tallied(v, handlers'[v], count'[v]) /\ count'[v] \in Nat
    <3>1. CASE v = u
      BY <3>1, <1>7, Zenon
    <3>2. CASE v # u
      <4>1. handlers'[v] = handlers[v] /\ count'[v] = count[v] /\ count[v] \in Nat
        BY <3>2, <1>6, LiveTypes
      <4>2. Tallied(v, handlers[v], count[v])
        BY LiveIs, Zenon DEF Tallying
      <4> QED BY <4>1, <4>2
    <3> QED BY <3>1, <3>2
  <2>2. count' = [v \in User |-> count'[v]]
    BY <1>3, LiveTypes
  <2> QED BY <2>1, <2>2 DEF Tallying
<1>9. \A t \in Stream \ {s} : t \in handlers'[Owner[t]] <=> t \in handlers[Owner[t]]
  <2>1. \A t \in Stream : Owner[t] \in User
    BY LiveIs, LiveConstants
  <2> QED BY <2>1, <1>6
<1>10. s \notin handlers'[Owner[s]]
  BY <1>2, <1>6
<1>11. CASE /\ str' = [str EXCEPT ![s] = Live!Idle] /\ away' = away \ {s} /\ conn' = conn
  <2>1. Live!Idle \in StreamRow /\ Live!Idle.at = "idle"
    BY LiveIs, LiveRows
  <2>2. Placed(s, Live!Idle.at, handlers', away', registry')
    BY <1>1, <1>5, <1>10, <1>11, <2>1 DEF Placed
  <2>3. Placing' /\ str' \in [Stream -> StreamRow]
    BY <1>1, <1>9, <1>11, <2>1, <2>2, StreamMoves
  <2>4. \A t \in Stream : str[t].at = "leaving" => str'[t] = str[t]
    BY <1>1, <1>11, LiveTypes
  <2>5. Commanded'
    BY <1>11, <2>4, ConnsStay, Zenon
  <2>6. away' \subseteq Stream
    BY <1>11, LiveTypes
  <2> QED BY <1>1, <1>6, <1>8, <1>11, <2>3, <2>5, <2>6, LiveTypes, LiveIs, LiveKept
<1>12. CASE /\ str' = [str EXCEPT ![s] = [at |-> IF Live!Running(sub) THEN "leaving" ELSE "left",
                                          on |-> sub]]
            /\ conn' = IF Live!Running(sub) THEN Live!Queued(sub, "unsub", u, s) ELSE conn
            /\ away' = away
  <2>1. PICK at : at = IF Live!Running(sub) THEN "leaving" ELSE "left"
    OBVIOUS
  <2>2. PICK row : row = [at |-> at, on |-> sub]
    OBVIOUS
  <2>3. row \in StreamRow /\ row.at = at /\ str' = [str EXCEPT ![s] = row]
    BY <1>12, <2>1, <2>2, LiveTypes DEF StreamRow, Place
  <2>4. Placed(s, row.at, handlers', away', registry')
    BY <1>1, <1>5, <1>10, <1>12, <2>1, <2>3 DEF Placed
  <2>5. Placing' /\ str' \in [Stream -> StreamRow]
    BY <1>1, <1>9, <1>12, <2>3, <2>4, StreamMoves
  <2>6. \A t \in Stream : str[t].at = "leaving" => str'[t] = str[t]
    BY <1>1, <2>3, LiveTypes
  <2>7. Commanded' /\ conn' \in [Live!Conn -> ConnRow]
    <3>1. CASE ~Live!Running(sub)
      <4>1. conn' = conn
        BY <1>12, <3>1
      <4> QED BY <4>1, <2>6, ConnsStay, LiveTypes
    <3>2. CASE Live!Running(sub)
      <4>1. PICK c \in Live!Conn : c = sub
        BY <3>2, LiveTypes DEF Live!Running, AnyConn
      <4>2. PICK what \in {"sub", "unsub", "quit"}, t \in Stream \cup {0} :
              what = "unsub" /\ t = s
        OBVIOUS
      <4>3. PICK new, cmd : Tells(c, Live!Queued(c, what, u, t), what, t, new, cmd)
        BY Queues, Zenon
      <4>4. /\ conn' = [conn EXCEPT ![c] = new] /\ cmd.what = "unsub" /\ cmd.for = s
            /\ new \in ConnRow /\ cmd \in Command /\ new.todo = Append(conn[c].todo, cmd)
            /\ conn[c].state # "quit" \/ new.state = "quit"
        BY <1>12, <3>2, <4>1, <4>2, <4>3 DEF Tells
      <4>5. str[s].at # "leaving" /\ str'[s] = [at |-> "leaving", on |-> c]
        BY <1>1, <2>1, <2>2, <2>3, <3>2, <4>1, LiveTypes
      <4> QED BY <2>6, <4>4, <4>5, CommandMoves
    <3> QED BY <3>1, <3>2
  <2> QED BY <1>1, <1>6, <1>8, <1>12, <2>5, <2>7, LiveTypes, LiveIs, LiveKept
<1> QED BY <1>2, <1>11, <1>12 DEF Live!Leave

LEMMA LiveLeft ==
  ASSUME LiveInv, NEW s \in Stream, Live!Left(s)
  PROVE  LiveInv'
<1>1. /\ str[s].at = "left" /\ away' = away \ {s} /\ str' = [str EXCEPT ![s] = Live!Idle]
      /\ joining' = joining /\ handlers' = handlers /\ count' = count /\ pending' = pending
      /\ attempts' = attempts /\ again' = again /\ registry' = registry /\ fix' = fix
      /\ opens' = opens /\ breaks' = breaks
  BY DEF Live!Left
<1>2. Live!Idle \in StreamRow /\ Live!Idle.at = "idle"
  BY LiveIs, LiveRows
<1>3. Placed(s, Live!Idle.at, handlers', away', registry')
  <2>1. Placed(s, "left", handlers, away, registry)
    BY <1>1, LiveIs, Zenon DEF Placing
  <2> QED BY <1>1, <1>2, <2>1 DEF Placed, Tracked
<1>4. Placing' /\ str' \in [Stream -> StreamRow]
  BY <1>1, <1>2, <1>3, StreamMoves
<1>5. Tallying'
  BY <1>1, TallyStays, Zenon
<1>6. \A t \in Stream : str[t].at = "leaving" => str'[t] = str[t]
  BY <1>1, LiveTypes
<1>7. sub' \in AnyConn /\ conn' \in [Live!Conn -> ConnRow] /\ Commanded'
  <2>1. CASE conn' = conn
    <3>1. sub' \in AnyConn
      BY LiveTypes DEF Live!Left, AnyConn
    <3> QED BY <2>1, <3>1, <1>6, ConnsStay, LiveTypes
  <2>2. CASE Live!Running(sub) /\ sub' = Live!NoConn /\ conn' = Live!Dropped(sub)
    <3>1. PICK c \in Live!Conn : c = sub
      BY <2>2, LiveTypes DEF Live!Running, AnyConn
    <3>2. PICK new, cmd : Tells(c, Live!Dropped(c), "quit", 0, new, cmd)
      BY Drops, Zenon
    <3>3. /\ conn' = [conn EXCEPT ![c] = new] /\ cmd.what # "unsub"
          /\ new \in ConnRow /\ cmd \in Command /\ new.todo = Append(conn[c].todo, cmd)
          /\ conn[c].state # "quit" \/ new.state = "quit"
      BY <2>2, <3>1, <3>2 DEF Tells
    <3>4. sub' \in AnyConn
      BY <2>2 DEF AnyConn
    <3> QED BY <1>6, <3>3, <3>4, CommandMoves
  <2> QED BY <2>1, <2>2 DEF Live!Left
<1>8. away' \subseteq Stream
  BY <1>1, LiveTypes
<1> QED BY <1>1, <1>4, <1>5, <1>7, <1>8, LiveTypes, LiveIs, LiveKept

(***************************************************************************)
(* The steps of a connection.                                              *)
(***************************************************************************)

\* A connection comes up, or connects again by itself.
LEMMA LiveUp ==
  ASSUME LiveInv, NEW c \in Live!Conn, Live!Up(c) \/ Live!Heal(c)
  PROVE  LiveInv'
<1>1. /\ conn[c].state # "quit" /\ conn' = [conn EXCEPT ![c].state = "up"]
      /\ sub' = sub /\ joining' = joining /\ handlers' = handlers /\ count' = count
      /\ pending' = pending /\ attempts' = attempts /\ again' = again /\ str' = str
      /\ away' = away /\ registry' = registry /\ fix' = fix /\ opens' = opens
      /\ breaks' = breaks
  BY DEF Live!Up, Live!Heal
<1>2. PICK row \in ConnRow : row = conn[c]
  BY LiveTypes
<1>3. PICK new : new = [row EXCEPT !.state = "up"]
  OBVIOUS
<1>4. new \in ConnRow /\ new.todo = row.todo /\ conn' = [conn EXCEPT ![c] = new]
  BY <1>1, <1>2, <1>3, LiveTypes DEF ConnRow
<1>5. \A t \in Stream : str[t].at = "leaving" => str'[t] = str[t]
  BY <1>1
<1>6. Commanded' /\ conn' \in [Live!Conn -> ConnRow]
  BY <1>1, <1>2, <1>4, <1>5, StateMoves
<1>7. Placing'
  <2>1. registry' \subseteq registry /\ \A s \in Stream : str'[s].at = str[s].at
    BY <1>1
  <2> QED BY <1>1, <2>1, PlacesPass
<1>8. Tallying'
  BY <1>1, TallyStays, Zenon
<1> QED BY <1>1, <1>6, <1>7, <1>8, LiveTypes, LiveIs, LiveKept

LEMMA LiveTakeUp ==
  ASSUME LiveInv, NEW c \in Live!Conn, Live!TakeUp(c)
  PROVE  LiveInv'
<1>1. /\ conn[c].state = "up"
      /\ sub' = sub /\ handlers' = handlers /\ count' = count /\ pending' = pending
      /\ attempts' = attempts /\ away' = away /\ registry' = registry /\ fix' = fix
      /\ opens' = opens /\ breaks' = breaks
  BY DEF Live!TakeUp
<1>2. Tallying'
  BY <1>1, TallyStays, Zenon
<1>3. CASE \E u \in Live!ToTakeUp(c) :
             /\ conn' = Live!Queued(c, "sub", u, 0)
             /\ again' = [again EXCEPT ![c] = again[c] \cup {u}]
             /\ joining' = joining /\ str' = str
  <2>1. PICK u \in User : /\ conn' = Live!Queued(c, "sub", u, 0)
                          /\ again' = [again EXCEPT ![c] = again[c] \cup {u}]
                          /\ joining' = joining /\ str' = str
    BY <1>3 DEF Live!ToTakeUp
  <2>2. PICK what \in {"sub", "unsub", "quit"}, t \in Stream \cup {0} : what = "sub" /\ t = 0
    OBVIOUS
  <2>3. PICK new, cmd : Tells(c, Live!Queued(c, what, u, t), what, t, new, cmd)
    BY Queues, Zenon
  <2>4. /\ conn' = [conn EXCEPT ![c] = new] /\ cmd.what # "unsub"
        /\ new \in ConnRow /\ cmd \in Command /\ new.todo = Append(conn[c].todo, cmd)
        /\ conn[c].state # "quit" \/ new.state = "quit"
    BY <2>1, <2>2, <2>3 DEF Tells
  <2>5. \A s \in Stream : str[s].at = "leaving" => str'[s] = str[s]
    BY <2>1
  <2>6. Commanded' /\ conn' \in [Live!Conn -> ConnRow]
    BY <2>4, <2>5, CommandMoves
  <2>7. Placing'
    <3>1. registry' \subseteq registry /\ \A s \in Stream : str'[s].at = str[s].at
      BY <1>1, <2>1
    <3> QED BY <1>1, <3>1, PlacesPass
  <2>8. again' \in [Live!Conn -> SUBSET User]
    BY <2>1, LiveTypes
  <2> QED BY <1>1, <1>2, <2>1, <2>6, <2>7, <2>8, LiveTypes, LiveIs, LiveKept
<1>4. CASE /\ joining' = Live!NoConn /\ str' = Live!Woken(c)
           /\ conn' = [conn EXCEPT ![c].wait = FALSE] /\ again' = again
  <2>1. PICK row \in ConnRow : row = conn[c]
    BY LiveTypes
  <2>2. PICK new : new = [row EXCEPT !.wait = FALSE]
    OBVIOUS
  <2>3. new \in ConnRow /\ new.todo = row.todo /\ conn' = [conn EXCEPT ![c] = new]
    BY <1>4, <2>1, <2>2, LiveTypes DEF ConnRow
  <2>4. ASSUME NEW s \in Stream
        PROVE  /\ str'[s] \in StreamRow
               /\ str[s].at = "leaving" => str'[s] = str[s]
               /\ \/ str'[s].at = str[s].at
                  \/ str[s].at = "joining" /\ str'[s].at = "joined"
    <3>1. PICK old \in StreamRow : old = str[s]
      BY LiveTypes
    <3>2. str'[s] = IF old = [at |-> "joining", on |-> c] THEN [old EXCEPT !.at = "joined"]
                    ELSE old
      BY <1>4, <3>1 DEF Live!Woken
    <3> QED BY <3>1, <3>2 DEF StreamRow, Place
  <2>5. str' \in [Stream -> StreamRow]
    <3>1. str' = [s \in Stream |-> str'[s]]
      BY <1>4 DEF Live!Woken
    <3> QED BY <2>4, <3>1
  <2>6. conn[c].state # "quit"
    BY <1>1
  <2>7. Commanded' /\ conn' \in [Live!Conn -> ConnRow]
    BY <2>1, <2>3, <2>4, <2>6, StateMoves
  <2>8. Placing'
    <3>1. \A s \in Stream :
            \/ str'[s].at = str[s].at
            \/ /\ str[s].at \notin {"open", "closing"}
               /\ str'[s].at \notin {"open", "closing", "idle"}
               /\ s \in registry' => str'[s].at \in Tracked
      BY <2>4 DEF Tracked
    <3> QED BY <1>1, <3>1, PlacesPass
  <2>9. joining' \in AnyConn
    BY <1>4 DEF AnyConn
  <2> QED BY <1>1, <1>2, <1>4, <2>5, <2>7, <2>8, <2>9, LiveTypes, LiveIs, LiveKept
<1> QED BY <1>3, <1>4 DEF Live!TakeUp

\* The answer to a subscription wakes who waits for it, the one to a quit everybody who waits; the
\* answer to the end of a subscription wakes the stream it was for.
LEMMA LiveAnswer ==
  ASSUME LiveInv, NEW c \in Live!Conn, Live!Answer(c)
  PROVE  LiveInv'
<1>1. /\ conn[c].state = "up" /\ conn[c].todo # <<>>
      /\ sub' = sub /\ joining' = joining /\ handlers' = handlers /\ count' = count
      /\ attempts' = attempts /\ again' = again /\ away' = away /\ fix' = fix
      /\ opens' = opens /\ breaks' = breaks
      /\ registry' = {s \in registry : str'[s].at # "failed"}
  BY DEF Live!Answer
<1>2. PICK row \in ConnRow : row = conn[c]
  BY LiveTypes
<1>3. PICK todo \in Seq(Command) : todo = row.todo /\ todo # <<>>
  BY <1>1, <1>2 DEF ConnRow
<1>4. PICK head \in Command : head = Head(todo) /\ head = todo[1] /\ 1 \in 1..Len(todo)
  <2>1. Head(todo) \in Command /\ Head(todo) = todo[1] /\ Len(todo) \in Nat /\ Len(todo) # 0
    BY <1>3, HeadTailProperties
  <2>2. 1 \in 1..Len(todo)
    BY <2>1
  <2> QED BY <2>1, <2>2, Zenon
<1>5. PICK rest \in Seq(Command) : rest = Tail(todo)
  BY <1>3, HeadTailProperties
<1>6. Sound(c, row, str) /\ row.state # "quit"
  BY <1>1, <1>2, LiveIs, Zenon DEF Commanded
<1>15. PICK mid \in ConnRow : /\ mid = [row EXCEPT !.todo = rest] /\ mid.todo = rest
                             /\ mid.chans = row.chans /\ mid.state = row.state
                             /\ mid.wait = row.wait
  <2>1. PICK mid : mid = [row EXCEPT !.todo = rest]
    OBVIOUS
  <2> QED BY <2>1 DEF ConnRow
<1>16. PICK on : on = [conn EXCEPT ![c].todo = Tail(conn[c].todo)]
  OBVIOUS
<1>17. on = [conn EXCEPT ![c] = mid]
  BY <1>2, <1>3, <1>5, <1>15, <1>16
<1>7. \/ /\ head.what = "sub" /\ conn' = [on EXCEPT ![c].chans = on[c].chans \cup {head.u}]
         /\ str' = [s \in Stream |-> IF head.for # 0 /\ Owner[s] = head.u
                                        /\ str[s] = [at |-> "asking", on |-> c]
                                     THEN [at |-> "asked", on |-> c] ELSE str[s]]
      \/ /\ head.what = "unsub" /\ conn' = [on EXCEPT ![c].chans = on[c].chans \ {head.u}]
         /\ str' = [str EXCEPT ![head.for].at = "left"]
      \/ /\ head.what = "quit" /\ conn' = [conn EXCEPT ![c].state = "quit", ![c].chans = {}]
         /\ str' = [s \in Stream |-> IF str[s].on = c /\ str[s].at = "asking"
                                     THEN [str[s] EXCEPT !.at = "failed"]
                                     ELSE IF str[s].on = c /\ str[s].at = "leaving"
                                     THEN [str[s] EXCEPT !.at = "left"] ELSE str[s]]
  <2>1. Head(conn[c].todo) = head
    BY <1>2, <1>3, <1>4
  <2> QED BY <2>1, <1>16 DEF Live!Answer
<1>8. registry' \subseteq registry /\ registry' \subseteq Stream
  BY <1>1, LiveTypes
<1>9. pending' \in [User -> AnyConn]
  BY LiveTypes DEF Live!Answer, AnyConn
<1>10. Tallying'
  BY <1>1, TallyStays, Zenon
<1>11. SUFFICES /\ str' \in [Stream -> StreamRow]
                /\ \A s \in Stream :
                     \/ str'[s].at = str[s].at
                     \/ str[s].at = "asking" /\ str'[s].at \in {"asked", "failed"}
                     \/ str[s].at = "leaving" /\ str'[s].at = "left"
                /\ Commanded' /\ conn' \in [Live!Conn -> ConnRow]
  <2> SUFFICES ASSUME /\ str' \in [Stream -> StreamRow]
                      /\ \A s \in Stream :
                           \/ str'[s].at = str[s].at
                           \/ str[s].at = "asking" /\ str'[s].at \in {"asked", "failed"}
                           \/ str[s].at = "leaving" /\ str'[s].at = "left"
                      /\ Commanded' /\ conn' \in [Live!Conn -> ConnRow]
               PROVE  LiveInv'
    OBVIOUS
  <2>1. \A s \in Stream : str[s].at = "leaving" => s \notin registry
    BY LiveIs DEF Placing, Placed, Tracked
  <2>2. \A s \in Stream :
          \/ str'[s].at = str[s].at
          \/ /\ str[s].at \notin {"open", "closing"}
             /\ str'[s].at \notin {"open", "closing", "idle"}
             /\ s \in registry' => str'[s].at \in Tracked
    BY <1>1, <2>1 DEF Tracked
  <2>3. Placing'
    BY <1>1, <1>8, <2>2, PlacesPass
  <2> QED BY <1>1, <1>8, <1>9, <1>10, <2>3, LiveTypes, LiveIs, LiveKept
<1>12. CASE head.what = "sub"
  <2>1. PICK chans \in SUBSET User : chans = row.chans \cup {head.u}
    BY DEF ConnRow, Command
  <2>2. PICK new : new = [mid EXCEPT !.chans = chans]
    OBVIOUS
  <2>3. new \in ConnRow /\ new.todo = rest
    BY <1>15, <2>2 DEF ConnRow
  <2>4. conn' = [conn EXCEPT ![c] = new]
    BY <1>7, <1>15, <1>17, <1>12, <2>1, <2>2, LiveTypes
  <2>5. str' = [s \in Stream |-> IF head.for # 0 /\ Owner[s] = head.u
                                    /\ str[s] = [at |-> "asking", on |-> c]
                                 THEN [at |-> "asked", on |-> c] ELSE str[s]]
    BY <1>7, <1>12
  <2>6. ASSUME NEW s \in Stream
        PROVE  /\ str'[s] \in StreamRow
               /\ \/ str'[s] = str[s]
                  \/ str[s].at = "asking" /\ str'[s].at = "asked"
    <3>1. PICK old \in StreamRow : old = str[s]
      BY LiveTypes
    <3>2. PICK then : then = [at |-> "asked", on |-> c]
      OBVIOUS
    <3>3. then \in StreamRow /\ then.at = "asked"
      BY <3>2 DEF StreamRow, Place, AnyConn
    <3>4. str'[s] = old \/ (str'[s] = then /\ old.at = "asking")
      BY <2>5, <3>1, <3>2
    <3> QED BY <3>1, <3>3, <3>4
  <2>7. str' \in [Stream -> StreamRow]
    BY <2>5, <2>6
  <2>8. PICK at, then : at = str /\ then = str'
    OBVIOUS
  <2>9. \A s \in Stream : at[s].at = "leaving" => then[s] = at[s]
    BY <2>6, <2>8
  <2>10. \A s \in Stream : at[s] = [at |-> "leaving", on |-> c] =>
           then[s] = at[s] \/ (Head(row.todo).what = "unsub" /\ Head(row.todo).for = s)
    BY <2>9
  <2>11. Sound(c, new, then)
    BY <1>3, <1>5, <1>6, <2>3, <2>8, <2>10, SoundAnswered
  <2>12. Commanded' /\ conn' \in [Live!Conn -> ConnRow]
    BY <2>3, <2>4, <2>8, <2>9, <2>11, ConnMoves
  <2> QED BY <2>6, <2>7, <2>12
<1>13. CASE head.what = "unsub"
  <2>1. PICK chans \in SUBSET User : chans = row.chans \ {head.u}
    BY DEF ConnRow, Command
  <2>2. PICK new : new = [mid EXCEPT !.chans = chans]
    OBVIOUS
  <2>3. new \in ConnRow /\ new.todo = rest
    BY <1>15, <2>2 DEF ConnRow
  <2>4. conn' = [conn EXCEPT ![c] = new]
    BY <1>7, <1>15, <1>17, <1>13, <2>1, <2>2, LiveTypes
  <2>5. PICK s \in Stream : s = head.for /\ str[s] = [at |-> "leaving", on |-> c]
    BY <1>3, <1>4, <1>6, <1>13, Zenon DEF Sound
  <2>6. PICK then : then = [at |-> "left", on |-> c]
    OBVIOUS
  <2>7. then \in StreamRow /\ then.at = "left"
    BY <2>6 DEF StreamRow, Place, AnyConn
  <2>8. str' = [str EXCEPT ![s] = then]
    BY <1>7, <1>13, <2>5, <2>6, LiveTypes
  <2>9. /\ str' \in [Stream -> StreamRow] /\ str'[s] = then
        /\ \A t \in Stream \ {s} : str'[t] = str[t]
    BY <2>7, <2>8, LiveTypes
  <2>10. PICK at, later : at = str /\ later = str'
    OBVIOUS
  <2>11. \A t \in Stream : at[t] = [at |-> "leaving", on |-> c] =>
           later[t] = at[t] \/ (Head(row.todo).what = "unsub" /\ Head(row.todo).for = t)
    BY <1>3, <1>4, <1>13, <2>5, <2>9, <2>10
  <2>12. Sound(c, new, later)
    BY <1>3, <1>5, <1>6, <2>3, <2>10, <2>11, SoundAnswered
  <2>13. str[s].at = "leaving" /\ str[s].on = c
    BY <2>5
  <2>14. Commanded' /\ conn' \in [Live!Conn -> ConnRow]
    BY <2>3, <2>4, <2>9, <2>10, <2>12, <2>13, ConnMoves
  <2>15. ASSUME NEW t \in Stream
         PROVE  str'[t].at = str[t].at \/ (str[t].at = "leaving" /\ str'[t].at = "left")
    BY <2>7, <2>9, <2>13
  <2> QED BY <2>9, <2>14, <2>15
<1>14. CASE head.what = "quit"
  <2>1. PICK new : new = [row EXCEPT !.state = "quit", !.chans = {}]
    OBVIOUS
  <2>2. new \in ConnRow /\ new.state = "quit"
    BY <2>1 DEF ConnRow
  <2>3. conn' = [conn EXCEPT ![c] = new]
    BY <1>2, <1>7, <1>14, <2>1, LiveTypes
  <2>4. str' = [s \in Stream |-> IF str[s].on = c /\ str[s].at = "asking"
                                 THEN [str[s] EXCEPT !.at = "failed"]
                                 ELSE IF str[s].on = c /\ str[s].at = "leaving"
                                 THEN [str[s] EXCEPT !.at = "left"] ELSE str[s]]
    BY <1>7, <1>14
  <2>5. ASSUME NEW s \in Stream
        PROVE  /\ str'[s] \in StreamRow
               /\ str'[s] = str[s] \/ str[s].on = c
               /\ \/ str'[s].at = str[s].at
                  \/ str[s].at = "asking" /\ str'[s].at = "failed"
                  \/ str[s].at = "leaving" /\ str'[s].at = "left"
    <3>1. PICK old \in StreamRow : old = str[s]
      BY LiveTypes
    <3>2. str'[s] = IF old.on = c /\ old.at = "asking" THEN [old EXCEPT !.at = "failed"]
                    ELSE IF old.on = c /\ old.at = "leaving" THEN [old EXCEPT !.at = "left"]
                    ELSE old
      BY <2>4, <3>1
    <3>3. CASE old.on = c /\ old.at = "asking"
      BY <3>1, <3>2, <3>3 DEF StreamRow, Place
    <3>4. CASE old.on = c /\ old.at = "leaving"
      BY <3>1, <3>2, <3>4 DEF StreamRow, Place
    <3>5. CASE ~(old.on = c /\ old.at = "asking") /\ ~(old.on = c /\ old.at = "leaving")
      BY <3>1, <3>2, <3>5
    <3> QED BY <3>3, <3>4, <3>5
  <2>6. str' \in [Stream -> StreamRow]
    BY <2>4, <2>5
  <2>7. PICK then : then = str'
    OBVIOUS
  <2>8. Sound(c, new, then)
    BY <2>2, SoundWhenOver, Zenon
  <2>9. Commanded' /\ conn' \in [Live!Conn -> ConnRow]
    BY <2>2, <2>3, <2>5, <2>7, <2>8, ConnMoves
  <2> QED BY <2>5, <2>6, <2>9
<1> QED BY <1>7, <1>12, <1>13, <1>14

\* An error of a connection fails who waits for it, and may be the end of the one in use.
LEMMA LiveBreak ==
  ASSUME LiveInv, NEW c \in Live!Conn, NEW tired \in BOOLEAN, Live!Break(c, tired)
  PROVE  LiveInv'
<1>1. PICK act : act = Live!Reacts
  OBVIOUS
<1>2. PICK ends : ends = ((act /\ sub = c) \/ Live!Quits(c))
  OBVIOUS
<1>3. PICK fails : fails = (ends \/ tired)
  OBVIOUS
<1>4. PICK rejects : rejects = (conn[c].wait /\ (conn[c].state = "opening"
                                                 \/ (Live!TakingUp(c) /\ fails)))
  OBVIOUS
<1> DEFINE failed(s) == /\ str[s].on = c
                        /\ \/ str[s].at = "asking" /\ fails
                           \/ str[s].at = "joining" /\ rejects
           left(s) == str[s].on = c /\ str[s].at = "leaving" /\ fails
           mine == [conn[c] EXCEPT !.todo = IF fails THEN <<>> ELSE conn[c].todo,
                                   !.wait = conn[c].wait /\ ~rejects,
                                   !.state = IF ends THEN "quit" ELSE "broken"]
<1>5. /\ conn[c].state \in {"opening", "up"} /\ breaks < MaxBreaks /\ breaks' = breaks + 1
      /\ handlers' = handlers /\ count' = count /\ again' = again /\ away' = away
      /\ opens' = opens
  BY DEF Live!Break
<1>6. /\ str' = [s \in Stream |-> IF failed(s) THEN [at |-> "failed", on |-> Live!NoConn]
                                  ELSE IF left(s) THEN [str[s] EXCEPT !.at = "left"]
                                  ELSE str[s]]
      /\ registry' = {s \in registry : ~failed(s)}
  BY <1>1, <1>2, <1>3, <1>4, Zenon DEF Live!Break
<1>7. /\ pending' = [u \in User |-> IF pending[u] = c /\ fails THEN Live!NoConn ELSE pending[u]]
      /\ attempts' = IF act THEN attempts + 1 ELSE attempts
      /\ fix' = IF act THEN fix \cup {sub} ELSE fix
      /\ sub' = IF act \/ rejects THEN Live!NoConn ELSE sub
      /\ joining' = IF rejects THEN Live!NoConn ELSE joining
  BY <1>1, <1>2, <1>3, <1>4, Zenon DEF Live!Break
<1>8. conn' = [d \in Live!Conn |-> IF d = c THEN mine
                                   ELSE IF act /\ d = sub THEN Live!Dropped(d)[d] ELSE conn[d]]
  BY <1>1, <1>2, <1>3, <1>4, Zenon DEF Live!Break
<1>9. /\ pending' \in [User -> AnyConn] /\ attempts' \in 0..MaxReconnect
      /\ fix' \subseteq AnyConn /\ sub' \in AnyConn /\ joining' \in AnyConn
      /\ breaks' \in 0..MaxBreaks /\ registry' \subseteq Stream /\ registry' \subseteq registry
  <2>1. pending' \in [User -> AnyConn]
    BY <1>7, LiveTypes DEF AnyConn
  <2>2. attempts' \in 0..MaxReconnect
    <3>0. attempts \in 0..MaxReconnect /\ MaxReconnect \in Nat
      BY LiveTypes, LiveIs, LiveConstants
    <3>1. CASE act
      <4>1. attempts < MaxReconnect
        BY <3>1, <1>1, Zenon DEF Live!Reacts
      <4>2. attempts' = attempts + 1
        BY <3>1, <1>7
      <4> QED BY <4>1, <4>2, <3>0
    <3>2. CASE ~act
      <4>1. attempts' = attempts
        BY <3>2, <1>7
      <4> QED BY <4>1, <3>0
    <3> QED BY <3>1, <3>2
  <2>3. fix' \subseteq AnyConn /\ sub' \in AnyConn /\ joining' \in AnyConn
    BY <1>7, LiveTypes DEF AnyConn
  <2>4. breaks' \in 0..MaxBreaks
    BY <1>5, LiveTypes, LiveIs, LiveConstants
  <2>5. registry' \subseteq Stream /\ registry' \subseteq registry
    BY <1>6, LiveTypes
  <2> QED BY <2>1, <2>2, <2>3, <2>4, <2>5
<1>10. ASSUME NEW s \in Stream
       PROVE  /\ str'[s] \in StreamRow
              /\ str'[s] = str[s] \/ str[s].on = c
              /\ str[s].at = "leaving" /\ ~fails => str'[s] = str[s]
              /\ \/ str'[s].at = str[s].at
                 \/ /\ str[s].at \in {"asking", "joining"} /\ str'[s].at = "failed"
                    /\ s \notin registry'
                 \/ str[s].at = "leaving" /\ str'[s].at = "left"
  <2>1. PICK old \in StreamRow : old = str[s]
    BY LiveTypes
  <2>2. PICK none : none = [at |-> "failed", on |-> Live!NoConn]
    OBVIOUS
  <2>3. none \in StreamRow /\ none.at = "failed"
    BY <2>2 DEF StreamRow, Place, AnyConn
  <2>4. str'[s] = IF failed(s) THEN none ELSE IF left(s) THEN [old EXCEPT !.at = "left"] ELSE old
    BY <1>6, <2>1, <2>2
  <2>5. CASE failed(s)
    <3>1. s \notin registry'
      BY <1>6, <2>5
    <3>2. str'[s] = none
      BY <2>4, <2>5
    <3>3. str[s].on = c /\ str[s].at \in {"asking", "joining"}
      BY <2>5
    <3> QED BY <2>3, <3>1, <3>2, <3>3
  <2>6. CASE left(s) /\ ~failed(s)
    <3>1. str'[s] = [old EXCEPT !.at = "left"]
      BY <2>4, <2>6
    <3>2. str'[s] \in StreamRow /\ str'[s].at = "left"
      BY <3>1 DEF StreamRow, Place
    <3>3. str[s].on = c /\ str[s].at = "leaving" /\ fails
      BY <2>6
    <3> QED BY <3>2, <3>3
  <2>7. CASE ~failed(s) /\ ~left(s)
    <3>1. str'[s] = old
      BY <2>4, <2>7
    <3> QED BY <2>1, <3>1
  <2> QED BY <2>5, <2>6, <2>7
<1>11. str' \in [Stream -> StreamRow]
  BY <1>6, <1>10
<1> HIDE DEF failed, left
<1>12. Placing'
  <2>1. \A s \in Stream : str[s].at = "leaving" => s \notin registry
    BY LiveIs DEF Placing, Placed, Tracked
  <2>2. \A s \in Stream :
          \/ str'[s].at = str[s].at
          \/ /\ str[s].at \notin {"open", "closing"}
             /\ str'[s].at \notin {"open", "closing", "idle"}
             /\ s \in registry' => str'[s].at \in Tracked
    BY <1>9, <1>10, <2>1
  <2> QED BY <1>5, <1>9, <2>2, PlacesPass
<1>13. Tallying'
  BY <1>5, TallyStays, Zenon
<1>14. ASSUME NEW d \in Live!Conn
       PROVE  conn'[d] \in ConnRow /\ Sound(d, conn'[d], str')
  <2>1. PICK row \in ConnRow : row = conn[d]
    BY LiveTypes
  <2>2. PICK at, then : at = str /\ then = str'
    OBVIOUS
  <2>3. Sound(d, row, at)
    BY <2>1, <2>2, LiveIs, Zenon DEF Commanded
  <2>4. CASE d = c
    <3>1. PICK todo \in Seq(Command) : todo = IF fails THEN <<>> ELSE row.todo
      <4>1. row.todo \in Seq(Command) /\ <<>> \in Seq(Command)
        BY DEF ConnRow
      <4> QED BY <4>1
    <3>2. PICK wait \in BOOLEAN : wait = (row.wait /\ ~rejects)
      OBVIOUS
    <3>3. PICK state \in {"quit", "broken"} : state = IF ends THEN "quit" ELSE "broken"
      OBVIOUS
    <3>4. PICK new : new = [row EXCEPT !.todo = todo, !.wait = wait, !.state = state]
      OBVIOUS
    <3>5. new \in ConnRow /\ new.todo = todo /\ new.state = state
      BY <3>4 DEF ConnRow
    <3>6. conn'[d] = new
      BY <1>8, <2>1, <2>4, <3>1, <3>2, <3>3, <3>4
    <3>7. Sound(d, new, then)
      <4>1. CASE fails
        BY <3>1, <3>5, <4>1, SoundWhenOver, Zenon
      <4>2. CASE ~fails
        <5>1. \A s \in Stream : at[s] = [at |-> "leaving", on |-> d] => then[s] = at[s]
          BY <1>10, <2>2, <4>2
        <5>2. new.todo = row.todo /\ row.state # "quit"
          BY <1>5, <2>1, <2>4, <3>1, <3>5, <4>2
        <5> QED BY <2>3, <3>5, <5>1, <5>2, SoundStays, Zenon
      <4> QED BY <4>1, <4>2
    <3> QED BY <2>2, <3>5, <3>6, <3>7, Zenon
  <2>5. \A s \in Stream : d # c /\ at[s] = [at |-> "leaving", on |-> d] => then[s] = at[s]
    BY <1>10, <2>2
  <2>6. CASE d # c /\ ~(act /\ d = sub)
    <3>1. conn'[d] = row
      BY <1>8, <2>1, <2>6
    <3>2. Sound(d, row, then)
      BY <2>3, <2>5, <2>6, SoundStays, Zenon
    <3> QED BY <2>2, <3>1, <3>2, Zenon
  <2>7. CASE d # c /\ act /\ d = sub
    <3>1. conn'[d] = Live!Dropped(d)[d]
      BY <1>8, <2>7
    <3>2. PICK new, cmd : Tells(d, Live!Dropped(d), "quit", 0, new, cmd)
      BY Drops, Zenon
    <3>3. /\ new \in ConnRow /\ cmd \in Command /\ Live!Dropped(d) = [conn EXCEPT ![d] = new]
          /\ new.todo = Append(row.todo, cmd) /\ cmd.what # "unsub"
          /\ row.state # "quit" \/ new.state = "quit"
      BY <2>1, <3>2 DEF Tells
    <3>4. conn'[d] = new
      BY <3>1, <3>3, LiveTypes
    <3>5. Sound(d, new, then)
      <4>1. CASE new.state = "quit"
        BY <3>3, <4>1, SoundWhenOver, Zenon
      <4>2. CASE row.state # "quit"
        <5>1. Adds(d, row, at, new, then, cmd)
          BY <2>3, <2>5, <2>7, <3>3, <4>2, Zenon DEF Adds
        <5> QED BY <5>1, SoundAdds, Zenon
      <4> QED BY <3>3, <4>1, <4>2
    <3> QED BY <2>2, <3>3, <3>4, <3>5, Zenon
  <2> QED BY <2>4, <2>6, <2>7
<1>15. Commanded' /\ conn' \in [Live!Conn -> ConnRow]
  <2>1. conn' = [d \in Live!Conn |-> conn'[d]]
    BY <1>8
  <2> QED BY <1>14, <2>1 DEF Commanded
<1> QED BY <1>5, <1>9, <1>11, <1>12, <1>13, <1>15, LiveTypes, LiveIs, LiveKept

LEMMA LiveFix ==
  ASSUME LiveInv, NEW d \in Live!Conn \cup {Live!NoConn}, Live!Fix(d)
  PROVE  LiveInv'
<1>1. /\ fix' = fix \ {d} /\ handlers' = handlers /\ count' = count /\ pending' = pending
      /\ attempts' = attempts /\ again' = again /\ str' = str /\ away' = away
      /\ registry' = registry /\ opens' = opens /\ breaks' = breaks
  BY DEF Live!Fix
<1>2. \A t \in Stream : str[t].at = "leaving" => str'[t] = str[t]
  BY <1>1
<1>3. /\ sub' \in AnyConn /\ joining' \in AnyConn
      /\ conn' \in [Live!Conn -> ConnRow] /\ Commanded'
  <2>1. CASE sub # Live!NoConn
    <3>1. sub' = sub /\ joining' = Live!NoConn /\ conn' = conn
      BY <2>1 DEF Live!Fix
    <3>2. joining' \in AnyConn
      BY <3>1 DEF AnyConn
    <3> QED BY <1>2, <3>1, <3>2, LiveTypes, ConnsStay
  <2>2. CASE sub = Live!NoConn
    <3>1. PICK c \in Live!Conn : c = Live!Fresh /\ conn[c].state = "none"
      BY <2>2, FreshIsUnused, Zenon DEF Live!Fix
    <3>2. PICK row \in ConnRow : row = conn[c]
      BY LiveTypes
    <3>3. PICK new : new = [row EXCEPT !.state = "opening", !.wait = TRUE]
      OBVIOUS
    <3>4. new \in ConnRow /\ new.todo = row.todo
      BY <3>3 DEF ConnRow
    <3>5. conn' = [conn EXCEPT ![c] = new]
      BY <2>2, <3>1, <3>2, <3>3, LiveTypes DEF Live!Fix
    <3>6. sub' \in AnyConn /\ joining' \in AnyConn
      BY <2>2, <3>1 DEF Live!Fix, AnyConn
    <3>7. conn[c].state # "quit"
      BY <3>1
    <3> QED BY <1>2, <3>2, <3>4, <3>5, <3>6, <3>7, StateMoves, Zenon
  <2> QED BY <2>1, <2>2
<1>4. Placing'
  <2>1. registry' \subseteq registry /\ \A s \in Stream : str'[s].at = str[s].at
    BY <1>1
  <2> QED BY <1>1, <2>1, PlacesPass
<1>5. Tallying'
  BY <1>1, TallyStays, Zenon
<1>6. fix' \subseteq AnyConn
  BY <1>1, LiveTypes
<1> QED BY <1>1, <1>3, <1>4, <1>5, <1>6, LiveTypes, LiveIs, LiveKept

(***************************************************************************)
(* The theorems.                                                           *)
(***************************************************************************)
LEMMA LiveBegins ==
  ASSUME Live!RealtimeAssumption, Live!Init
  PROVE  LiveInv
<1>1. /\ sub = Live!NoConn /\ joining = Live!NoConn /\ handlers = [u \in User |-> {}]
      /\ count = [u \in User |-> 0] /\ pending = [u \in User |-> Live!NoConn] /\ attempts = 0
      /\ conn = [c \in Live!Conn |-> Live!NewConn] /\ again = [c \in Live!Conn |-> {}]
      /\ str = [s \in Stream |-> Live!Idle] /\ away = {} /\ registry = {} /\ fix = {}
      /\ opens = 0 /\ breaks = 0
  BY DEF Live!Init
<1>2. Live!NoConn \in AnyConn
  BY DEF AnyConn
<1>3. LiveTyped
  BY <1>1, <1>2, LiveRows, LiveConstants DEF LiveTyped
<1>4. Placing
  <2>1. ASSUME NEW s \in Stream
        PROVE  Placed(s, str[s].at, handlers, away, registry)
    <3>1. str[s].at = "idle" /\ handlers[Owner[s]] = {}
      BY <1>1, LiveRows, LiveConstants
    <3> QED BY <1>1, <3>1 DEF Placed
  <2> QED BY <2>1, Zenon DEF Placing
<1>5. Tallying
  <2>1. ASSUME NEW u \in User
        PROVE  Tallied(u, handlers[u], count[u])
    <3>1. handlers[u] = {} /\ count[u] = 0
      BY <1>1
    <3>2. IsFiniteSet({}) /\ Cardinality({}) = 0
      BY FS_EmptySet
    <3>3. 0 <= MaxStreams
      BY LiveConstants
    <3> QED BY <3>1, <3>2, <3>3 DEF Tallied
  <2> QED BY <2>1, Zenon DEF Tallying
<1>6. Commanded
  <2>1. ASSUME NEW c \in Live!Conn
        PROVE  Sound(c, conn[c], str)
    <3>1. PICK at : at = str
      OBVIOUS
    <3>2. conn[c] = Live!NewConn
      BY <1>1
    <3>3. Sound(c, Live!NewConn, at)
      BY LiveRows, SoundWhenOver, Zenon
    <3> QED BY <3>1, <3>2, <3>3, Zenon
  <2> QED BY <2>1, Zenon DEF Commanded
<1> QED BY <1>3, <1>4, <1>5, <1>6, Zenon DEF LiveInv

LEMMA LiveStays ==
  ASSUME LiveInv, [Live!Next]_Live!vars
  PROVE  LiveInv'
<1>1. CASE UNCHANGED Live!vars
  <2>1. /\ sub' = sub /\ joining' = joining /\ handlers' = handlers /\ count' = count
        /\ pending' = pending /\ attempts' = attempts /\ conn' = conn /\ again' = again
        /\ str' = str /\ away' = away /\ registry' = registry /\ fix' = fix
        /\ opens' = opens /\ breaks' = breaks
    BY <1>1 DEF Live!vars
  <2>2. Placing'
    <3>1. registry' \subseteq registry /\ \A s \in Stream : str'[s].at = str[s].at
      BY <2>1
    <3> QED BY <2>1, <3>1, PlacesPass
  <2>3. Tallying'
    BY <2>1, TallyStays, Zenon
  <2>4. Commanded'
    BY <2>1, ConnsStay
  <2> QED BY <2>1, <2>2, <2>3, <2>4, LiveTypes, LiveIs, LiveKept
<1>2. ASSUME NEW s \in Stream,
             Live!Open(s) \/ Live!Subscribe(s) \/ Live!Subscribed(s) \/ Live!Gone(s)
             \/ Live!Leave(s) \/ Live!Left(s) \/ Live!Retry(s)
      PROVE  LiveInv'
  BY <1>2, LiveOpen, LiveSubscribe, LiveSubscribed, LiveGone, LiveLeave, LiveLeft, LiveRetry, Zenon
<1>3. ASSUME NEW c \in Live!Conn, Live!Up(c) \/ Live!TakeUp(c) \/ Live!Answer(c) \/ Live!Heal(c)
      PROVE  LiveInv'
  BY <1>3, LiveUp, LiveTakeUp, LiveAnswer, Zenon
<1>4. ASSUME NEW c \in Live!Conn, NEW tired \in BOOLEAN, Live!Break(c, tired)
      PROVE  LiveInv'
  BY <1>4, LiveBreak, Zenon
<1>5. ASSUME NEW d \in Live!Conn \cup {Live!NoConn}, Live!Fix(d)
      PROVE  LiveInv'
  BY <1>5, LiveFix, Zenon
<1> QED BY <1>1, <1>2, <1>3, <1>4, <1>5, Zenon DEF Live!Next

\* Streams, connections and counters keep their types (realtime.service.ts, sse-registry.ts).
THEOREM LiveTypesHold == Live!RealtimeAssumption => (Live!Spec => []Live!TypeOK)
<1>1. LiveInv => Live!TypeOK
  <2> SUFFICES ASSUME LiveInv
               PROVE  Live!TypeOK
    OBVIOUS
  <2>2. \A c \in Live!Conn :
          /\ conn[c].state \in {"none", "idle", "opening", "up", "broken", "quit"}
          /\ conn[c].chans \subseteq User
    BY LiveTypes DEF ConnRow
  <2>3. str \in [Stream -> [at : {"idle", "joining", "joined", "asking", "asked", "open",
                                  "closing", "leaving", "left", "refused", "failed"},
                            on : Live!Conn \cup {Live!NoConn}]]
    BY LiveTypes, Zenon DEF StreamRow, Place, AnyConn
  <2> QED BY <2>2, <2>3, LiveTypes DEF Live!TypeOK, AnyConn
<1>2. Live!RealtimeAssumption /\ Live!Init => LiveInv
  BY LiveBegins, Zenon
<1>3. LiveInv /\ [Live!Next]_Live!vars => LiveInv'
  BY LiveStays, Zenon
<1> SUFFICES ASSUME Live!RealtimeAssumption
             PROVE  Live!Spec => []Live!TypeOK
  OBVIOUS
<1> QED BY <1>1, <1>2, <1>3, PTL DEF Live!Spec

\* A user's streams are counted as they have handlers, and never beyond the limit; a stream that
\* has ended, or failed on its way, leaves no handler and is not tracked: for any users, streams and
\* connections, whichever breaks and whoever leaves at whatever moment (subscribe, unsubscribe, the
\* route's abort).
THEOREM NoStreamLeaks ==
  Live!RealtimeAssumption => (Live!Spec => [](Live!CountsAgree /\ Live!NothingLeaks))
<1>1. LiveInv => Live!CountsAgree /\ Live!NothingLeaks
  <2> SUFFICES ASSUME LiveInv
               PROVE  Live!CountsAgree /\ Live!NothingLeaks
    OBVIOUS
  <2>2. ASSUME NEW u \in User
        PROVE  count[u] = Live!Cardinality(handlers[u]) /\ count[u] <= MaxStreams
    <3>1. Tallied(u, handlers[u], count[u])
      BY LiveIs, Zenon DEF Tallying
    <3>2. Live!Cardinality(handlers[u]) = Cardinality(handlers[u])
      BY Zenon DEF Live!Cardinality, Cardinality
    <3> QED BY <3>1, <3>2 DEF Tallied
  <2>3. Live!NothingLeaks
    BY LiveIs, LiveTypes DEF Placing, Placed, Tracked, Live!NothingLeaks
  <2> QED BY <2>2, <2>3 DEF Live!CountsAgree
<1>2. Live!RealtimeAssumption /\ Live!Init => LiveInv
  BY LiveBegins, Zenon
<1>3. LiveInv /\ [Live!Next]_Live!vars => LiveInv'
  BY LiveStays, Zenon
<1> SUFFICES ASSUME Live!RealtimeAssumption
             PROVE  Live!Spec => [](Live!CountsAgree /\ Live!NothingLeaks)
  OBVIOUS
<1> QED BY <1>1, <1>2, <1>3, PTL DEF Live!Spec

---------------------------------------------------------------------------

(***************************************************************************)
(* Preferences: the save queue of the panel.                               *)
(***************************************************************************)
CONSTANTS Last, Calls, MaxEdits, Others, Buttons
VARIABLES userRow, cache, seen, get, call, theme, isOpen, draft, ack, held, phase, closing, wanted,
          edits, failures

Panel == INSTANCE Preferences WITH server <- userRow, pending <- held, faults <- failures

Shown == [Panel!Key -> Panel!Offered]
AnyRow == Panel!Preference \cup {None}
CallRow == [at : {"none", "sent", "written", "late"}, patch : Panel!Patch, prev : AnyRow,
            ans : AnyRow, queued : BOOLEAN]

\* A call has the cache before it, and an answer once it is written.
CallFits(c) ==
  /\ c.at # "none" => c.prev \in Panel!Preference
  /\ c.at = "written" => c.ans \in Panel!Preference

PanelTyped ==
  /\ {userRow, cache, seen} \subseteq Panel!Preference
  /\ get \in [at : {"none", "asked", "read"}, ans : AnyRow]
  /\ get.at = "read" => get.ans \in Panel!Preference
  /\ call \in [Panel!Call -> CallRow] /\ \A i \in Panel!Call : CallFits(call[i])
  /\ theme \in Panel!Offered /\ draft \in Shown /\ ack \in Shown
  /\ held \in Panel!Patch /\ wanted \in Panel!Patch
  /\ isOpen \in BOOLEAN /\ closing \in BOOLEAN
  /\ phase \in {"clean", "debounced", "saving", "failed"}

\* A save of the panel that the browser waits for.
Runs(c) == c.at \in {"sent", "written"} /\ c.queued

\* What the user has chosen is shown and is held back, or is on its way in the one save; what is
\* held back of it is the last choice.
PanelKept ==
  /\ \A i, j \in Panel!Call : Runs(call[i]) /\ Runs(call[j]) => i = j /\ phase = "saving"
  /\ \A k \in DOMAIN held : k \in DOMAIN wanted => held[k] = wanted[k]
  /\ \A k \in DOMAIN wanted :
       /\ draft[k] = wanted[k]
       /\ \/ k \in DOMAIN held
          \/ \E i \in Panel!Call : Runs(call[i]) /\ k \in DOMAIN call[i].patch
                                   /\ call[i].patch[k] = wanted[k]
  /\ ~isOpen => wanted = Panel!NoEdits

PanelInv == Panel!PreferencesAssumption /\ PanelTyped /\ PanelKept

LEMMA PanelIs ==
  ASSUME PanelInv
  PROVE  /\ Panel!TypeOK /\ Panel!OneSaveAtATime /\ Panel!ClosedKept /\ Panel!DraftKept
<1>1. PanelTyped /\ PanelKept
  BY DEF PanelInv
<1>2. Panel!TypeOK
  BY <1>1 DEF PanelTyped, Panel!TypeOK, CallRow, AnyRow, Shown
<1>3. Panel!OneSaveAtATime
  BY <1>1 DEF PanelKept, Panel!OneSaveAtATime, Panel!Waiting, Panel!Saving, Runs
<1>4. Panel!ClosedKept /\ Panel!DraftKept
  BY <1>1 DEF PanelKept, Panel!ClosedKept, Panel!DraftKept, Panel!Waiting, Runs
<1> QED BY <1>2, <1>3, <1>4

---------------------------------------------------------------------------
\* Patches.
LEMMA NoEditsIs ==
  /\ Panel!NoEdits \in Panel!Patch /\ DOMAIN Panel!NoEdits = {}
  /\ \A p \in Panel!Patch : DOMAIN p = {} => p = Panel!NoEdits
  /\ \A p \in Panel!Patch : DOMAIN p \subseteq Panel!Key
<1>1. DOMAIN Panel!NoEdits = {} /\ Panel!NoEdits \in [{} -> Panel!Offered]
  BY DEF Panel!NoEdits
<1>2. Panel!NoEdits \in Panel!Patch
  BY <1>1 DEF Panel!Patch
<1>3. ASSUME NEW p \in Panel!Patch
      PROVE  DOMAIN p \subseteq Panel!Key /\ (DOMAIN p = {} => p = Panel!NoEdits)
  <2>1. PICK S \in SUBSET Panel!Key : p \in [S -> Panel!Offered]
    BY <1>3 DEF Panel!Patch
  <2> QED BY <2>1 DEF Panel!NoEdits
<1> QED BY <1>1, <1>2, <1>3

LEMMA PatchValues ==
  ASSUME NEW p \in Panel!Patch, NEW k \in DOMAIN p
  PROVE  k \in Panel!Key /\ p[k] \in Panel!Offered
BY DEF Panel!Patch

LEMMA OverIs ==
  ASSUME NEW a, NEW b
  PROVE  /\ DOMAIN Panel!Over(a, b) = DOMAIN a \cup DOMAIN b
         /\ \A k \in DOMAIN a : Panel!Over(a, b)[k] = a[k]
         /\ \A k \in DOMAIN b : k \notin DOMAIN a => Panel!Over(a, b)[k] = b[k]
BY DEF Panel!Over

LEMMA OverPatch ==
  ASSUME NEW a \in Panel!Patch, NEW b \in Panel!Patch
  PROVE  Panel!Over(a, b) \in Panel!Patch
<1>1. PICK S \in SUBSET Panel!Key : a \in [S -> Panel!Offered]
  BY DEF Panel!Patch
<1>2. PICK T \in SUBSET Panel!Key : b \in [T -> Panel!Offered]
  BY DEF Panel!Patch
<1>3. Panel!Over(a, b) \in [S \cup T -> Panel!Offered]
  BY <1>1, <1>2 DEF Panel!Over
<1>4. S \cup T \in SUBSET Panel!Key
  BY <1>1, <1>2
<1> QED BY <1>3, <1>4 DEF Panel!Patch

LEMMA OverShown ==
  ASSUME NEW a \in Panel!Patch, NEW b \in Shown
  PROVE  Panel!Over(a, b) \in Shown
<1>1. PICK S \in SUBSET Panel!Key : a \in [S -> Panel!Offered]
  BY DEF Panel!Patch
<1>2. S \cup Panel!Key = Panel!Key
  BY <1>1
<1> QED BY <1>1, <1>2 DEF Panel!Over, Shown

LEMMA OverRow ==
  ASSUME NEW a \in Panel!Patch, NEW b \in Panel!Preference, Last \in Nat
  PROVE  Panel!Over(a, b) \in Panel!Preference
<1>1. PICK S \in SUBSET Panel!Key : a \in [S -> Panel!Offered]
  BY DEF Panel!Patch
<1>2. S \cup Panel!Key = Panel!Key
  BY <1>1
<1>3. b \in [Panel!Key -> 0..Last + 1] /\ b["view"] \in Panel!Offered
  BY DEF Panel!Preference
<1>4. Panel!Offered \subseteq 0..Last + 1
  BY DEF Panel!Offered
<1>5. Panel!Over(a, b) \in [Panel!Key -> 0..Last + 1]
  BY <1>1, <1>2, <1>3, <1>4 DEF Panel!Over
<1>6. Panel!Over(a, b)["view"] \in Panel!Offered
  BY <1>1, <1>2, <1>3 DEF Panel!Over, Panel!Key
<1> QED BY <1>5, <1>6 DEF Panel!Preference

LEMMA OnlyIs ==
  ASSUME NEW k \in Panel!Key, NEW v
  PROVE  /\ DOMAIN Panel!Only(k, v) = {k} /\ Panel!Only(k, v)[k] = v
         /\ v \in Panel!Offered => Panel!Only(k, v) \in Panel!Patch
<1>1. DOMAIN Panel!Only(k, v) = {k} /\ Panel!Only(k, v)[k] = v
  BY DEF Panel!Only
<1>2. v \in Panel!Offered => Panel!Only(k, v) \in [{k} -> Panel!Offered]
  BY DEF Panel!Only
<1>3. {k} \in SUBSET Panel!Key
  OBVIOUS
<1> QED BY <1>1, <1>2, <1>3 DEF Panel!Patch

LEMMA OverOnly ==
  ASSUME NEW k \in Panel!Key, NEW v, NEW b
  PROVE  /\ DOMAIN Panel!Over(Panel!Only(k, v), b) = {k} \cup DOMAIN b
         /\ Panel!Over(Panel!Only(k, v), b)[k] = v
         /\ \A x \in DOMAIN b : x # k => Panel!Over(Panel!Only(k, v), b)[x] = b[x]
<1>1. PICK o : o = Panel!Only(k, v)
  OBVIOUS
<1>2. DOMAIN o = {k} /\ o[k] = v
  BY <1>1, OnlyIs
<1>3. DOMAIN Panel!Over(o, b) = {k} \cup DOMAIN b
  BY <1>2, OverIs
<1>4. Panel!Over(o, b)[k] = v /\ \A x \in DOMAIN b : x # k => Panel!Over(o, b)[x] = b[x]
  BY <1>2 DEF Panel!Over
<1> QED BY <1>1, <1>3, <1>4

\* A theme of the Android client may be written by another device.
LEMMA OtherRow ==
  ASSUME NEW k \in Panel!Key, NEW v \in 0..Last + 1, v = Panel!Amoled => k = "theme", Last \in Nat,
         NEW b \in Panel!Preference
  PROVE  Panel!Over(Panel!Only(k, v), b) \in Panel!Preference
<1>1. b \in [Panel!Key -> 0..Last + 1] /\ b["view"] \in Panel!Offered
  BY DEF Panel!Preference
<1>2. {k} \cup Panel!Key = Panel!Key
  OBVIOUS
<1>3. Panel!Over(Panel!Only(k, v), b) = [x \in Panel!Key |-> IF x = k THEN v ELSE b[x]]
  BY <1>1, <1>2 DEF Panel!Over, Panel!Only
<1>4. k = "view" => v \in Panel!Offered
  BY DEF Panel!Amoled, Panel!Offered
<1>5. Panel!Over(Panel!Only(k, v), b) \in [Panel!Key -> 0..Last + 1]
  BY <1>1, <1>3
<1>6. Panel!Over(Panel!Only(k, v), b)["view"] \in Panel!Offered
  BY <1>1, <1>3, <1>4 DEF Panel!Key
<1> QED BY <1>5, <1>6 DEF Panel!Preference

LEMMA NormalShown ==
  ASSUME NEW p \in Panel!Preference, Last \in Nat
  PROVE  Panel!Normal(p) \in Shown /\ Panel!Normal(p)["theme"] \in Panel!Offered
<1>1. p \in [Panel!Key -> 0..Last + 1] /\ p["view"] \in Panel!Offered
  BY DEF Panel!Preference
<1>2. Panel!Normal(p) = [x \in Panel!Key |-> IF x = "theme"
                           THEN IF p[x] = Panel!Amoled THEN 0 ELSE p[x] ELSE p[x]]
  BY <1>1 DEF Panel!Normal, Panel!Key
<1>3. \A x \in Panel!Key : Panel!Normal(p)[x] \in Panel!Offered
  BY <1>1, <1>2 DEF Panel!Key, Panel!Offered, Panel!Amoled
<1> QED BY <1>2, <1>3 DEF Shown, Panel!Key

---------------------------------------------------------------------------
\* The calls.
LEMMA PanelConstants ==
  ASSUME Panel!PreferencesAssumption
  PROVE  /\ Last \in Nat \ {0} /\ Calls \in Nat \ {0}
         /\ Panel!NoCall \in CallRow /\ Panel!NoCall.at = "none" /\ CallFits(Panel!NoCall)
         /\ ~Runs(Panel!NoCall)
         /\ Panel!NoGet \in [at : {"none", "asked", "read"}, ans : AnyRow]
         /\ Panel!NoGet.at = "none"
<1>1. Last \in Nat \ {0} /\ Calls \in Nat \ {0}
  BY DEF Panel!PreferencesAssumption
<1>2. Panel!NoCall \in CallRow
  BY NoEditsIs DEF Panel!NoCall, CallRow, AnyRow
<1>3. Panel!NoCall.at = "none" /\ CallFits(Panel!NoCall) /\ ~Runs(Panel!NoCall)
  BY DEF Panel!NoCall, CallFits, Runs
<1>4. Panel!NoGet \in [at : {"none", "asked", "read"}, ans : AnyRow] /\ Panel!NoGet.at = "none"
  BY DEF Panel!NoGet, AnyRow
<1> QED BY <1>1, <1>2, <1>3, <1>4

Sent(patch, base, asked) == [at |-> "sent", patch |-> patch, prev |-> base, ans |-> None,
                             queued |-> asked]

LEMMA SentIs ==
  ASSUME NEW patch \in Panel!Patch, NEW base \in Panel!Preference, NEW asked \in BOOLEAN
  PROVE  /\ Sent(patch, base, asked) \in CallRow /\ CallFits(Sent(patch, base, asked))
         /\ Runs(Sent(patch, base, asked)) <=> asked
         /\ Sent(patch, base, asked).patch = patch
BY DEF Sent, CallRow, AnyRow, CallFits, Runs

\* A save takes a call that is free, and shows what it saves.
LEMMA Mutates ==
  ASSUME Panel!PreferencesAssumption, NEW calls \in [Panel!Call -> CallRow],
         \A i \in Panel!Call : CallFits(calls[i]),
         NEW base \in Panel!Preference, NEW patch \in Panel!Patch, NEW asked \in BOOLEAN,
         NEW f \in Panel!Call, calls[f].at = "none", Panel!Mutate(calls, base, patch, asked)
  PROVE  /\ call' \in [Panel!Call -> CallRow] /\ \A i \in Panel!Call : CallFits(call[i])'
         /\ cache' \in Panel!Preference
         /\ get' \in [at : {"none", "asked", "read"}, ans : AnyRow] /\ get'.at = "none"
         /\ \E i \in Panel!Call : /\ calls[i].at = "none"
                                  /\ call' = [calls EXCEPT ![i] = Sent(patch, base, asked)]
<1>1. PICK i \in Panel!Call : i = CHOOSE j \in Panel!Call : calls[j].at = "none"
  OBVIOUS
<1>2. calls[i].at = "none"
  BY <1>1
<1>3. call' = [calls EXCEPT ![i] = Sent(patch, base, asked)]
  BY <1>1 DEF Panel!Mutate, Sent
<1>4. call' \in [Panel!Call -> CallRow]
  BY <1>3, SentIs
<1>5. \A j \in Panel!Call : CallFits(call'[j])
  BY <1>3, SentIs
<1>6. cache' \in Panel!Preference
  BY PanelConstants, OverRow DEF Panel!Mutate
<1>7. get' = Panel!NoGet
  BY DEF Panel!Mutate
<1>8. \A j \in Panel!Call : CallFits(call[j])'
  BY <1>5 DEF CallFits
<1> QED BY <1>2, <1>3, <1>4, <1>8, <1>6, <1>7, PanelConstants

\* A call that goes from one stage to another.
LEMMA CallMoves ==
  ASSUME PanelTyped, NEW i \in Panel!Call, NEW c \in CallRow, CallFits(c),
         call' = [call EXCEPT ![i] = c]
  PROVE  call' \in [Panel!Call -> CallRow] /\ \A j \in Panel!Call : CallFits(call[j])'
<1>1. call' \in [Panel!Call -> CallRow]
  BY DEF PanelTyped
<1>2. \A j \in Panel!Call : CallFits(call'[j])
  BY DEF PanelTyped
<1>3. \A j \in Panel!Call : CallFits(call[j])'
  BY <1>2 DEF CallFits
<1> QED BY <1>1, <1>3

---------------------------------------------------------------------------
\* What a step does to the choices.
LEMMA ChoicesStay ==
  ASSUME PanelKept, UNCHANGED <<held, wanted, draft, phase>>, isOpen => isOpen',
         \A i \in Panel!Call : Runs(call'[i]) <=> Runs(call[i]),
         \A i \in Panel!Call : Runs(call[i]) => call'[i].patch = call[i].patch
  PROVE  PanelKept'
BY DEF PanelKept, Runs

\* What is held back is handed over to a save.
LEMMA HandedOver ==
  ASSUME NEW calls \in [Panel!Call -> CallRow], \A j \in Panel!Call : ~Runs(calls[j]),
         held \in Panel!Patch, NEW base \in Panel!Preference,
         NEW i \in Panel!Call, call' = [calls EXCEPT ![i] = Sent(held, base, TRUE)],
         held' = Panel!NoEdits, phase' = "saving", ~isOpen' => wanted' = Panel!NoEdits,
         \A k \in DOMAIN wanted' : /\ draft'[k] = wanted'[k]
                                   /\ k \in DOMAIN held /\ held[k] = wanted'[k]
  PROVE  PanelKept'
<1>1. /\ Runs(call'[i]) /\ call'[i].patch = held
      /\ \A j \in Panel!Call : Runs(call'[j]) => j = i
  BY SentIs
<1>2. DOMAIN held' = {}
  BY NoEditsIs
<1>3. \A j, l \in Panel!Call : Runs(call'[j]) /\ Runs(call'[l]) => j = l /\ phase' = "saving"
  BY <1>1
<1>4. \A k \in DOMAIN wanted' :
        /\ draft'[k] = wanted'[k]
        /\ \E j \in Panel!Call : Runs(call'[j]) /\ k \in DOMAIN call'[j].patch
                                 /\ call'[j].patch[k] = wanted'[k]
  BY <1>1
<1> QED BY <1>2, <1>3, <1>4 DEF PanelKept, Runs

\* Of what is held back when no save is under way.
LEMMA Resting ==
  ASSUME PanelKept, ~Panel!Saving
  PROVE  /\ \A i \in Panel!Call : ~Runs(call[i])
         /\ \A k \in DOMAIN wanted : draft[k] = wanted[k] /\ k \in DOMAIN held
                                     /\ held[k] = wanted[k]
<1>1. \A i \in Panel!Call : ~Runs(call[i])
  BY DEF PanelKept, Panel!Saving
<1> QED BY <1>1 DEF PanelKept

LEMMA NothingWanted ==
  ASSUME PanelTyped, PanelKept, ~Panel!Saving, held = Panel!NoEdits
  PROVE  wanted = Panel!NoEdits
<1>1. DOMAIN wanted = {}
  BY Resting, NoEditsIs
<1> QED BY <1>1, NoEditsIs DEF PanelTyped

---------------------------------------------------------------------------
\* The steps.
LEMMA PanelInit ==
  ASSUME Panel!PreferencesAssumption, Panel!Init
  PROVE  PanelInv
<1>1. Panel!Defaults \in Panel!Preference /\ Panel!Defaults \in Shown /\ 0 \in Panel!Offered
  BY PanelConstants DEF Panel!Defaults, Panel!Preference, Shown, Panel!Offered, Panel!Key
<1>2. \A i \in Panel!Call : call[i] = Panel!NoCall
  BY DEF Panel!Init
<1>3. call \in [Panel!Call -> CallRow] /\ \A i \in Panel!Call : CallFits(call[i])
  BY <1>2, PanelConstants DEF Panel!Init
<1>4. PanelTyped
  BY <1>1, <1>3, PanelConstants, NoEditsIs DEF Panel!Init, PanelTyped
<1>5. PanelKept
  BY <1>2, PanelConstants, NoEditsIs DEF Panel!Init, PanelKept
<1> QED BY <1>4, <1>5 DEF PanelInv

LEMMA PanelStutter ==
  ASSUME PanelInv, UNCHANGED Panel!vars
  PROVE  PanelInv'
<1>1. PanelTyped'
  BY DEF PanelInv, PanelTyped, CallFits, Panel!vars, Panel!browser
<1>2. PanelKept'
  BY ChoicesStay DEF PanelInv, Panel!vars, Panel!browser
<1> QED BY <1>1, <1>2 DEF PanelInv

\* The query, another device, the panel opened: the choices stay as they are.
LEMMA QueryKept ==
  ASSUME PanelInv, Panel!Refetch \/ Panel!Read \/ Panel!Arrive \/ Panel!Open
  PROVE  PanelInv'
<1>1. PanelKept'
  BY ChoicesStay DEF PanelInv, Panel!Refetch, Panel!Read, Panel!Arrive, Panel!Open, Panel!panel,
                     PanelTyped
<1>2. CASE Panel!Refetch
  <2>1. get' \in [at : {"none", "asked", "read"}, ans : AnyRow] /\ get'.at = "asked"
    BY <1>2 DEF PanelInv, PanelTyped, Panel!Refetch
  <2> QED BY <1>1, <1>2, <2>1 DEF PanelInv, PanelTyped, CallFits, Panel!Refetch, Panel!panel
<1>3. CASE Panel!Read
  <2>1. get' \in [at : {"none", "asked", "read"}, ans : AnyRow] /\ get'.ans \in Panel!Preference
    BY <1>3 DEF PanelInv, PanelTyped, Panel!Read, AnyRow
  <2> QED BY <1>1, <1>3, <2>1 DEF PanelInv, PanelTyped, CallFits, Panel!Read, Panel!panel
<1>4. CASE Panel!Arrive
  BY <1>1, <1>4, PanelConstants DEF PanelInv, PanelTyped, CallFits, Panel!Arrive, Panel!panel
<1>5. CASE Panel!Open
  BY <1>1, <1>5 DEF PanelInv, PanelTyped, CallFits, Panel!Open
<1> QED BY <1>2, <1>3, <1>4, <1>5

LEMMA OtherKept ==
  ASSUME PanelInv, NEW k \in Panel!Key, NEW v \in 0..Last + 1, Panel!OtherDevice(k, v),
         v = Panel!Amoled => k = "theme"
  PROVE  PanelInv'
<1>1. userRow' \in Panel!Preference
  BY OtherRow, PanelConstants DEF PanelInv, PanelTyped, Panel!OtherDevice, Panel!Upserted
<1>2. PanelKept'
  BY ChoicesStay DEF PanelInv, Panel!OtherDevice, Panel!browser
<1>3. PanelTyped'
  BY <1>1 DEF PanelInv, PanelTyped, CallFits, Panel!OtherDevice, Panel!browser
<1> QED BY <1>2, <1>3 DEF PanelInv

LEMMA CommitKept ==
  ASSUME PanelInv, Panel!Commit
  PROVE  PanelInv'
<1>1. PanelTyped'
  BY NormalShown, PanelConstants DEF PanelInv, PanelTyped, CallFits, Panel!Commit
<1>2. CASE Panel!Follows
  <2>1. wanted = Panel!NoEdits
    BY <1>2, NothingWanted DEF PanelInv, Panel!Follows
  <2>2. \A i \in Panel!Call : ~Runs(call[i])
    BY <1>2, Resting DEF PanelInv, Panel!Follows
  <2> QED BY <1>1, <2>1, <2>2, NoEditsIs DEF PanelInv, PanelKept, Panel!Commit
<1>3. CASE ~Panel!Follows
  <2>1. PanelKept'
    BY <1>3, ChoicesStay DEF PanelInv, Panel!Commit
  <2> QED BY <1>1, <2>1 DEF PanelInv
<1> QED BY <1>2, <1>3

LEMMA ChangeKept ==
  ASSUME PanelInv, NEW k \in Panel!Key, NEW v \in Panel!Offered, Panel!HandleChange(k, v)
  PROVE  PanelInv'
<1>1. Panel!Only(k, v) \in Panel!Patch /\ DOMAIN Panel!Only(k, v) = {k}
      /\ Panel!Only(k, v)[k] = v
  BY OnlyIs
<1>2. held' \in Panel!Patch /\ wanted' \in Panel!Patch
  BY <1>1, OverPatch DEF PanelInv, PanelTyped, Panel!HandleChange
<1>3. draft' \in Shown /\ theme' \in Panel!Offered
  BY DEF PanelInv, PanelTyped, Panel!HandleChange, Shown
<1>4. PanelTyped'
  BY <1>2, <1>3 DEF PanelInv, PanelTyped, CallFits, Panel!HandleChange
<1>5. /\ DOMAIN held' = {k} \cup DOMAIN held /\ held'[k] = v
      /\ \A x \in DOMAIN held : x # k => held'[x] = held[x]
  <2>1. held' = Panel!Over(Panel!Only(k, v), held)
    BY DEF Panel!HandleChange
  <2>2. DOMAIN Panel!Over(Panel!Only(k, v), held) = {k} \cup DOMAIN held
    BY OverOnly, Zenon
  <2>3. Panel!Over(Panel!Only(k, v), held)[k] = v
    BY OverOnly, Zenon
  <2>4. \A x \in DOMAIN held : x # k => Panel!Over(Panel!Only(k, v), held)[x] = held[x]
    BY DEF Panel!Over, Panel!Only
  <2> QED BY <2>1, <2>2, <2>3, <2>4
<1>6. /\ DOMAIN wanted' = {k} \cup DOMAIN wanted /\ wanted'[k] = v
      /\ \A x \in DOMAIN wanted : x # k => wanted'[x] = wanted[x]
  <2>1. wanted' = Panel!Over(Panel!Only(k, v), wanted)
    BY DEF Panel!HandleChange
  <2>2. DOMAIN Panel!Over(Panel!Only(k, v), wanted) = {k} \cup DOMAIN wanted
    BY OverOnly, Zenon
  <2>3. Panel!Over(Panel!Only(k, v), wanted)[k] = v
    BY OverOnly, Zenon
  <2>4. \A x \in DOMAIN wanted : x # k => Panel!Over(Panel!Only(k, v), wanted)[x] = wanted[x]
    BY DEF Panel!Over, Panel!Only
  <2> QED BY <2>1, <2>2, <2>3, <2>4
<1>7. draft'[k] = v /\ \A x \in Panel!Key : x # k => draft'[x] = draft[x]
  BY DEF PanelInv, PanelTyped, Panel!HandleChange, Shown
<1>8. DOMAIN wanted \subseteq Panel!Key
  BY NoEditsIs DEF PanelInv, PanelTyped
<1>9. call' = call /\ isOpen' /\ (phase = "saving" => phase' = "saving")
  BY DEF Panel!HandleChange
<1>10. PanelKept'
  <2>1. \A x \in DOMAIN held' : x \in DOMAIN wanted' => held'[x] = wanted'[x]
    BY <1>5, <1>6 DEF PanelInv, PanelKept
  <2>2. \A i, j \in Panel!Call : Runs(call'[i]) /\ Runs(call'[j]) => i = j /\ phase' = "saving"
    BY <1>9 DEF PanelInv, PanelKept
  <2>3. ASSUME NEW x \in DOMAIN wanted'
        PROVE  /\ draft'[x] = wanted'[x]
               /\ \/ x \in DOMAIN held'
                  \/ \E i \in Panel!Call : Runs(call'[i]) /\ x \in DOMAIN call'[i].patch
                                           /\ call'[i].patch[x] = wanted'[x]
    <3>1. CASE x = k
      BY <3>1, <1>5, <1>6, <1>7
    <3>2. CASE x # k
      <4>1. x \in DOMAIN wanted /\ wanted'[x] = wanted[x]
        BY <3>2, <1>6, <2>3
      <4> QED BY <3>2, <4>1, <1>5, <1>7, <1>8, <1>9 DEF PanelInv, PanelKept
    <3> QED BY <3>1, <3>2
  <2> QED BY <2>1, <2>2, <2>3, <1>9 DEF PanelKept, Runs
<1> QED BY <1>4, <1>10 DEF PanelInv

LEMMA DrainKept ==
  ASSUME PanelInv, NEW asked \in BOOLEAN, Panel!Drain(asked),
         UNCHANGED <<userRow, seen, theme, isOpen, draft, ack, wanted>>
  PROVE  PanelInv'
<1>1. CASE ~Panel!Saving /\ held # Panel!NoEdits
  <2>1. /\ Panel!Mutate(call, cache, held, TRUE) /\ held' = Panel!NoEdits /\ phase' = "saving"
        /\ closing' = asked /\ Panel!Free # {}
    BY <1>1 DEF Panel!Drain
  <2>2. PICK f \in Panel!Call : call[f].at = "none"
    BY <2>1 DEF Panel!Free
  <2>3. /\ call' \in [Panel!Call -> CallRow] /\ \A i \in Panel!Call : CallFits(call[i])'
        /\ cache' \in Panel!Preference
        /\ get' \in [at : {"none", "asked", "read"}, ans : AnyRow] /\ get'.at = "none"
        /\ \E i \in Panel!Call : /\ call[i].at = "none"
                                 /\ call' = [call EXCEPT ![i] = Sent(held, cache, TRUE)]
    <3>1. /\ call \in [Panel!Call -> CallRow] /\ \A i \in Panel!Call : CallFits(call[i])
          /\ cache \in Panel!Preference /\ held \in Panel!Patch /\ Panel!PreferencesAssumption
      BY DEF PanelInv, PanelTyped
    <3>2. PICK q \in BOOLEAN : q = TRUE
      OBVIOUS
    <3>3. PICK p \in Panel!Patch, b \in Panel!Preference : p = held /\ b = cache
      BY <3>1
    <3>4. Panel!Mutate(call, b, p, q)
      BY <2>1, <3>2, <3>3
    <3>5. \E i \in Panel!Call : call[i].at = "none" /\ call' = [call EXCEPT ![i] = Sent(p, b, q)]
      BY <2>2, <3>1, <3>4, Mutates
    <3>6. call' \in [Panel!Call -> CallRow] /\ \A i \in Panel!Call : CallFits(call[i])'
      BY <2>2, <3>1, <3>4, Mutates, Zenon
    <3>7. cache' \in Panel!Preference
      BY <2>2, <3>1, <3>4, Mutates, Zenon
    <3>8. get' \in [at : {"none", "asked", "read"}, ans : AnyRow] /\ get'.at = "none"
      BY <2>2, <3>1, <3>4, Mutates, Zenon
    <3> QED BY <3>2, <3>3, <3>5, <3>6, <3>7, <3>8
  <2>4. PanelTyped'
    BY <2>1, <2>3, NoEditsIs DEF PanelInv, PanelTyped
  <2>5. PICK i \in Panel!Call : call' = [call EXCEPT ![i] = Sent(held, cache, TRUE)]
    BY <2>3
  <2>6. /\ \A j \in Panel!Call : ~Runs(call[j])
        /\ \A k \in DOMAIN wanted : draft[k] = wanted[k] /\ k \in DOMAIN held
                                    /\ held[k] = wanted[k]
    BY <1>1, Resting DEF PanelInv
  <2>7. call \in [Panel!Call -> CallRow] /\ held \in Panel!Patch /\ cache \in Panel!Preference
        /\ (~isOpen => wanted = Panel!NoEdits)
    BY DEF PanelInv, PanelTyped, PanelKept
  <2>8. PanelKept'
    BY <2>1, <2>5, <2>6, <2>7, HandedOver
  <2> QED BY <2>4, <2>8 DEF PanelInv
<1>2. CASE ~(~Panel!Saving /\ held # Panel!NoEdits)
  <2>1. UNCHANGED <<call, cache, get, held, phase>> /\ closing' = asked
    BY <1>2 DEF Panel!Drain
  <2>2. PanelKept'
    BY <2>1, ChoicesStay DEF PanelInv
  <2>3. PanelTyped'
    BY <2>1 DEF PanelInv, PanelTyped, CallFits
  <2> QED BY <2>2, <2>3 DEF PanelInv
<1> QED BY <1>1, <1>2

LEMMA SaveKept ==
  ASSUME PanelInv, Panel!Save
  PROVE  PanelInv'
<1>1. PICK asked \in BOOLEAN : asked = closing
  BY DEF PanelInv, PanelTyped
<1>2. Panel!Drain(asked) /\ UNCHANGED <<userRow, seen, theme, isOpen, draft, ack, wanted>>
  BY <1>1 DEF Panel!Save
<1> QED BY <1>2, DrainKept

LEMMA CloseKept ==
  ASSUME PanelInv, Panel!ClosePanel
  PROVE  PanelInv'
<1>1. CASE Panel!Unsaved
  <2>1. PICK asked \in BOOLEAN : asked = TRUE
    OBVIOUS
  <2>2. Panel!Drain(asked) /\ UNCHANGED <<userRow, seen, theme, isOpen, draft, ack, wanted>>
    BY <1>1, <2>1 DEF Panel!ClosePanel
  <2> QED BY <2>2, DrainKept
<1>2. CASE ~Panel!Unsaved
  <2>1. wanted = Panel!NoEdits
    BY <1>2, NothingWanted DEF PanelInv, Panel!Unsaved
  <2>2. \A i \in Panel!Call : ~Runs(call[i])
    BY <1>2, Resting DEF PanelInv, Panel!Unsaved
  <2>3. /\ UNCHANGED <<userRow, cache, seen, get, call, theme, draft, ack, held, phase>>
        /\ UNCHANGED <<closing, wanted>> /\ isOpen' = FALSE
    BY <1>2 DEF Panel!ClosePanel
  <2>4. PanelKept'
    BY <2>1, <2>2, <2>3, NoEditsIs DEF PanelInv, PanelKept, Runs
  <2>5. PanelTyped'
    BY <2>3 DEF PanelInv, PanelTyped, CallFits
  <2> QED BY <2>4, <2>5 DEF PanelInv
<1> QED BY <1>1, <1>2

LEMMA RevertKept ==
  ASSUME PanelInv, Panel!RevertChanges
  PROVE  PanelInv'
<1>1. \A i \in Panel!Call : ~Runs(call[i])
  BY Resting DEF PanelInv, Panel!RevertChanges, Panel!Saving
<1>2. PanelKept'
  BY <1>1, NoEditsIs DEF PanelKept, Panel!RevertChanges, Runs
<1>3. theme' \in Panel!Offered
  BY DEF PanelInv, PanelTyped, Panel!RevertChanges, Shown, Panel!Key
<1>4. PanelTyped'
  BY <1>3, NoEditsIs DEF PanelInv, PanelTyped, Panel!RevertChanges, CallFits
<1> QED BY <1>2, <1>4 DEF PanelInv

\* A button saves beside the panel.
LEMMA ButtonKept ==
  ASSUME PanelInv, NEW k \in Buttons, Panel!Button(k)
  PROVE  PanelInv'
<1>1. k \in Panel!Key
  BY DEF PanelInv, Panel!PreferencesAssumption, Panel!Key
<1>2. PICK v \in Panel!Offered : /\ theme' = IF k = "theme" THEN v ELSE theme
                                 /\ Panel!Mutate(call, cache, Panel!Only(k, v), FALSE)
  BY DEF Panel!Button
<1>3. PICK p \in Panel!Patch : p = Panel!Only(k, v)
  BY <1>1, OnlyIs
<1>4. PICK q \in BOOLEAN : q = FALSE
  OBVIOUS
<1>5. PICK b \in Panel!Preference : b = cache
  BY DEF PanelInv, PanelTyped
<1>6. Panel!Mutate(call, b, p, q)
  BY <1>2, <1>3, <1>4, <1>5
<1>7. PICK f \in Panel!Call : call[f].at = "none"
  BY DEF Panel!Button, Panel!Free
<1>8. /\ call \in [Panel!Call -> CallRow] /\ \A i \in Panel!Call : CallFits(call[i])
      /\ Panel!PreferencesAssumption
  BY DEF PanelInv, PanelTyped
<1>9. PICK i \in Panel!Call : call[i].at = "none" /\ call' = [call EXCEPT ![i] = Sent(p, b, q)]
  BY <1>6, <1>7, <1>8, Mutates
<1>10. call' \in [Panel!Call -> CallRow] /\ \A j \in Panel!Call : CallFits(call[j])'
  BY <1>6, <1>7, <1>8, Mutates, Zenon
<1>11. cache' \in Panel!Preference
  BY <1>6, <1>7, <1>8, Mutates, Zenon
<1>12. get' \in [at : {"none", "asked", "read"}, ans : AnyRow] /\ get'.at = "none"
  BY <1>6, <1>7, <1>8, Mutates, Zenon
<1>13. UNCHANGED <<userRow, seen, isOpen, draft, ack, held, phase, closing, wanted>>
  BY DEF Panel!Button, Panel!panel
<1>14. PanelTyped'
  BY <1>2, <1>10, <1>11, <1>12, <1>13 DEF PanelInv, PanelTyped
<1>15. ~Runs(call[i]) /\ ~Runs(call'[i])
  <2>1. call'[i] = Sent(p, b, q)
    BY <1>8, <1>9
  <2> QED BY <1>4, <1>9, <2>1, SentIs DEF Runs
<1>16. \A j \in Panel!Call : j # i => call'[j] = call[j]
  BY <1>8, <1>9
<1>17. PanelKept'
  BY <1>13, <1>15, <1>16, ChoicesStay DEF PanelInv
<1> QED BY <1>14, <1>17 DEF PanelInv

LEMMA WriteKept ==
  ASSUME PanelInv, NEW i \in Panel!Call, Panel!Write(i)
  PROVE  PanelInv'
<1>1. /\ call \in [Panel!Call -> CallRow] /\ call[i] \in CallRow /\ CallFits(call[i])
      /\ call[i].at \in {"sent", "late"} /\ PanelTyped /\ PanelKept
  BY DEF PanelInv, PanelTyped, Panel!Write
<1>2. userRow' \in Panel!Preference
  <2>1. PICK p \in Panel!Patch, b \in Panel!Preference : p = call[i].patch /\ b = userRow
    BY <1>1 DEF CallRow, PanelTyped
  <2>2. userRow' = Panel!Over(p, b)
    BY <2>1 DEF Panel!Write, Panel!Upserted
  <2> QED BY <2>2, OverRow, PanelConstants DEF PanelInv
<1>3. PICK c : c = IF call[i].at = "late" THEN Panel!NoCall
                   ELSE [call[i] EXCEPT !.at = "written", !.ans = userRow']
  OBVIOUS
<1>4. c \in CallRow /\ CallFits(c) /\ (Runs(c) <=> Runs(call[i]))
      /\ (Runs(call[i]) => c.patch = call[i].patch)
  <2>1. CASE call[i].at = "late"
    BY <1>3, <2>1, PanelConstants DEF PanelInv, Runs
  <2>2. CASE call[i].at = "sent"
    BY <1>1, <1>2, <1>3, <2>2 DEF CallRow, CallFits, Runs, AnyRow
  <2> QED BY <1>1, <2>1, <2>2
<1>5. call' = [call EXCEPT ![i] = c]
  BY <1>1, <1>3 DEF Panel!Write
<1>6. UNCHANGED <<cache, seen, get, theme, isOpen, draft, ack, held, phase, closing, wanted>>
  BY DEF Panel!Write, Panel!panel
<1>7. PanelTyped'
  BY <1>1, <1>2, <1>4, <1>5, <1>6, CallMoves DEF PanelTyped
<1>8. PanelKept'
  BY <1>1, <1>4, <1>5, <1>6, ChoicesStay
<1> QED BY <1>7, <1>8 DEF PanelInv

\* What is still wanted when the one save has been answered is held back.
LEMMA StillWanted ==
  ASSUME PanelInv, NEW i \in Panel!Call, Runs(call[i]),
         NEW w, w = Panel!Saved(call[i].patch)
  PROVE  /\ w \in Panel!Patch
         /\ \A k \in DOMAIN w : k \in DOMAIN wanted /\ k \in DOMAIN held /\ held[k] = w[k]
         /\ wanted = Panel!NoEdits => w = Panel!NoEdits
<1>1. PICK p : p = call[i].patch
  OBVIOUS
<1>2. PICK S \in SUBSET Panel!Key : wanted \in [S -> Panel!Offered]
  BY DEF PanelInv, PanelTyped, Panel!Patch
<1>3. PICK R \in SUBSET S : R = {x \in S : ~(x \in DOMAIN p /\ p[x] = wanted[x])}
  OBVIOUS
<1>4. w = [k \in R |-> wanted[k]]
  BY <1>1, <1>2, <1>3 DEF Panel!Saved
<1>5. w \in [R -> Panel!Offered] /\ R \in SUBSET Panel!Key
  BY <1>2, <1>4
<1>6. w \in Panel!Patch
  BY <1>5 DEF Panel!Patch
<1>7. ASSUME NEW k \in DOMAIN w
      PROVE  k \in DOMAIN wanted /\ k \in DOMAIN held /\ held[k] = w[k]
  <2>1. k \in S /\ k \in DOMAIN wanted /\ w[k] = wanted[k] /\ ~(k \in DOMAIN p /\ p[k] = wanted[k])
    BY <1>2, <1>3, <1>4, <1>7
  <2>2. k \in DOMAIN held
    BY <1>1, <2>1 DEF PanelInv, PanelKept
  <2> QED BY <2>1, <2>2 DEF PanelInv, PanelKept
<1>8. wanted = Panel!NoEdits => w = Panel!NoEdits
  BY <1>6, <1>7, NoEditsIs
<1> QED BY <1>6, <1>7, <1>8

LEMMA AnsweredKept ==
  ASSUME PanelInv, NEW i \in Panel!Call, Panel!Answered(i)
  PROVE  PanelInv'
<1>1. /\ call \in [Panel!Call -> CallRow] /\ call[i] \in CallRow /\ call[i].at = "written"
      /\ call[i].ans \in Panel!Preference /\ PanelTyped /\ PanelKept /\ Panel!PreferencesAssumption
  BY DEF PanelInv, PanelTyped, Panel!Answered, CallFits
<1>2. PICK a \in Panel!Preference : a = call[i].ans
  BY <1>1
<1>3. PICK c : c = [call EXCEPT ![i] = Panel!NoCall]
  OBVIOUS
<1>4. /\ c \in [Panel!Call -> CallRow] /\ \A j \in Panel!Call : CallFits(c[j])
      /\ c[i] = Panel!NoCall /\ c[i].at = "none" /\ ~Runs(c[i])
      /\ \A j \in Panel!Call : j # i => c[j] = call[j]
  BY <1>1, <1>3, PanelConstants DEF PanelTyped
<1>5. UNCHANGED <<userRow, seen>>
  BY DEF Panel!Answered
<1>6. Panel!Invalidated \in [at : {"none", "asked", "read"}, ans : AnyRow]
      /\ Panel!Invalidated.at = "asked"
  BY <1>1, PanelConstants DEF Panel!Invalidated
<1>7. call' = c => /\ call' \in [Panel!Call -> CallRow]
                   /\ \A j \in Panel!Call : CallFits(call[j])'
  BY <1>4 DEF CallFits
<1>8. CASE ~call[i].queued
  <2>1. /\ call' = c /\ cache' = a /\ get' = Panel!Invalidated
        /\ UNCHANGED <<theme, isOpen, draft, ack, held, phase, closing, wanted>>
    BY <1>2, <1>3, <1>8 DEF Panel!Answered, Panel!panel
  <2>2. ~Runs(call[i])
    BY <1>8 DEF Runs
  <2>3. PanelKept'
    BY <1>1, <1>4, <2>1, <2>2, ChoicesStay
  <2>4. PanelTyped'
    BY <1>1, <1>5, <1>6, <1>7, <2>1 DEF PanelTyped
  <2> QED BY <1>1, <2>3, <2>4 DEF PanelInv
<1>9. CASE call[i].queued
  <2>1. Runs(call[i]) /\ phase = "saving" /\ \A j \in Panel!Call : ~Runs(c[j])
    BY <1>1, <1>4, <1>9 DEF Runs, PanelKept
  <2>2. PICK n \in Shown : n = Panel!Normal(a) /\ n["theme"] \in Panel!Offered
    BY <1>1, NormalShown, PanelConstants
  <2>3. /\ ack' = n /\ draft' = Panel!Over(held, n)
        /\ theme' = IF "theme" \in DOMAIN held THEN theme ELSE n["theme"]
        /\ wanted' = Panel!Saved(call[i].patch)
    BY <1>2, <1>9, <2>2 DEF Panel!Answered
  <2>4. PICK h \in Panel!Patch : h = held
    BY <1>1 DEF PanelTyped
  <2>5. draft' \in Shown /\ \A k \in DOMAIN held : draft'[k] = held[k]
    <3>1. draft' = Panel!Over(h, n)
      BY <2>3, <2>4
    <3>2. Panel!Over(h, n) \in Shown
      BY OverShown
    <3>3. \A k \in DOMAIN h : Panel!Over(h, n)[k] = h[k]
      BY DEF Panel!Over
    <3> QED BY <2>4, <3>1, <3>2, <3>3
  <2>6. theme' \in Panel!Offered
    BY <1>1, <2>2, <2>3 DEF PanelTyped
  <2>7. PICK w : w = Panel!Saved(call[i].patch)
    OBVIOUS
  <2>8. /\ w \in Panel!Patch /\ (wanted = Panel!NoEdits => w = Panel!NoEdits)
        /\ \A k \in DOMAIN w : k \in DOMAIN held /\ held[k] = w[k]
    BY <2>1, <2>7, StillWanted
  <2>9. wanted' = w
    BY <2>3, <2>7
  <2>10. CASE held # Panel!NoEdits
    <3>1. PICK q \in BOOLEAN : q = TRUE
      OBVIOUS
    <3>2. Panel!Mutate(c, a, h, q)
      BY <1>2, <1>3, <1>9, <2>4, <2>10, <3>1 DEF Panel!Answered
    <3>3. held' = Panel!NoEdits /\ UNCHANGED <<phase, closing, isOpen>>
      BY <1>9, <2>10 DEF Panel!Answered
    <3>4. PICK j \in Panel!Call : c[j].at = "none" /\ call' = [c EXCEPT ![j] = Sent(h, a, q)]
      BY <1>1, <1>4, <3>2, Mutates
    <3>5. call' \in [Panel!Call -> CallRow] /\ \A l \in Panel!Call : CallFits(call[l])'
      BY <1>1, <1>4, <3>2, Mutates, Zenon
    <3>6. cache' \in Panel!Preference
      BY <1>1, <1>4, <3>2, Mutates, Zenon
    <3>7. get' \in [at : {"none", "asked", "read"}, ans : AnyRow] /\ get'.at = "none"
      BY <1>1, <1>4, <3>2, Mutates, Zenon
    <3>8. call' = [c EXCEPT ![j] = Sent(held, a, TRUE)]
      BY <2>4, <3>1, <3>4
    <3>9. ~isOpen' => wanted' = Panel!NoEdits
      BY <1>1, <2>8, <2>9, <3>3 DEF PanelKept
    <3>10. \A k \in DOMAIN wanted' : /\ draft'[k] = wanted'[k]
                                     /\ k \in DOMAIN held /\ held[k] = wanted'[k]
      BY <2>5, <2>8, <2>9
    <3>11. PanelKept'
      <4>1. held \in Panel!Patch /\ phase' = "saving"
        BY <2>1, <2>4, <3>3
      <4> QED BY <1>4, <2>1, <3>3, <3>8, <3>9, <3>10, <4>1, HandedOver
    <3>12. PanelTyped'
      BY <1>1, <1>5, <2>3, <2>5, <2>6, <2>8, <2>9, <3>3, <3>5, <3>6, <3>7, NoEditsIs DEF PanelTyped
    <3> QED BY <1>1, <3>11, <3>12 DEF PanelInv
  <2>11. CASE held = Panel!NoEdits
    <3>1. /\ call' = c /\ cache' = a /\ get' = Panel!Invalidated /\ phase' = "clean"
          /\ closing' = FALSE /\ isOpen' = Panel!StaysOpen /\ held' = held
      BY <1>2, <1>3, <1>9, <2>11 DEF Panel!Answered
    <3>2. isOpen' \in BOOLEAN
      BY <1>1, <3>1, Zenon DEF PanelTyped, Panel!StaysOpen
    <3>3. wanted' = Panel!NoEdits
      BY <2>8, <2>9, <2>11, NoEditsIs
    <3>4. PanelKept'
      BY <2>1, <2>11, <3>1, <3>3, NoEditsIs DEF PanelKept, Runs
    <3>5. PanelTyped'
      BY <1>1, <1>5, <1>6, <1>7, <2>3, <2>5, <2>6, <2>8, <2>9, <3>1, <3>2 DEF PanelTyped
    <3> QED BY <1>1, <3>4, <3>5 DEF PanelInv
  <2> QED BY <2>10, <2>11
<1> QED BY <1>8, <1>9

LEMMA FailsKept ==
  ASSUME PanelInv, NEW i \in Panel!Call, Panel!Fails(i)
  PROVE  PanelInv'
<1>1. /\ call \in [Panel!Call -> CallRow] /\ call[i] \in CallRow
      /\ call[i].at \in {"sent", "written"} /\ call[i].prev \in Panel!Preference
      /\ PanelTyped /\ PanelKept /\ Panel!PreferencesAssumption
  BY DEF PanelInv, PanelTyped, Panel!Fails, Panel!Waiting, CallFits
<1>2. PICK late \in BOOLEAN :
        call' = [call EXCEPT ![i] = IF late THEN [@ EXCEPT !.at = "late"] ELSE Panel!NoCall]
  BY DEF Panel!Fails
<1>3. PICK c : c = IF late THEN [call[i] EXCEPT !.at = "late"] ELSE Panel!NoCall
  OBVIOUS
<1>4. c \in CallRow /\ CallFits(c) /\ ~Runs(c)
  <2>1. CASE late
    BY <1>1, <1>3, <2>1 DEF CallRow, CallFits, Runs
  <2>2. CASE ~late
    BY <1>1, <1>3, <2>2, PanelConstants
  <2> QED BY <2>1, <2>2
<1>5. call' = [call EXCEPT ![i] = c]
  BY <1>1, <1>2, <1>3
<1>6. call' \in [Panel!Call -> CallRow] /\ \A j \in Panel!Call : CallFits(call[j])'
  BY <1>1, <1>4, <1>5, CallMoves
<1>7. /\ cache' = call[i].prev
      /\ UNCHANGED <<userRow, seen, get, theme, isOpen, draft, ack, wanted>>
  BY DEF Panel!Fails
<1>8. CASE ~call[i].queued
  <2>1. UNCHANGED <<held, phase, closing>>
    BY <1>8 DEF Panel!Fails
  <2>2. ~Runs(call[i])
    BY <1>8 DEF Runs
  <2>3. PanelKept'
    BY <1>1, <1>4, <1>5, <1>7, <2>1, <2>2, ChoicesStay
  <2>4. PanelTyped'
    BY <1>1, <1>6, <1>7, <2>1 DEF PanelTyped
  <2> QED BY <1>1, <2>3, <2>4 DEF PanelInv
<1>9. CASE call[i].queued
  <2>1. PICK h \in Panel!Patch, p \in Panel!Patch : h = held /\ p = call[i].patch
    BY <1>1 DEF PanelTyped, CallRow
  <2>2. held' = Panel!Over(h, p) /\ phase' = "failed" /\ closing' = FALSE
    BY <1>9, <2>1 DEF Panel!Fails, Panel!Retained
  <2>3. held' \in Panel!Patch
    BY <2>2, OverPatch
  <2>4. PanelTyped'
    BY <1>1, <1>6, <1>7, <2>2, <2>3 DEF PanelTyped
  <2>5. Runs(call[i]) /\ \A j \in Panel!Call : Runs(call[j]) => j = i
    BY <1>1, <1>9 DEF Runs, PanelKept
  <2>6. \A j \in Panel!Call : ~Runs(call'[j])
    BY <1>1, <1>4, <1>5, <2>5
  <2>7. /\ DOMAIN held' = DOMAIN h \cup DOMAIN p
        /\ \A k \in DOMAIN h : held'[k] = h[k]
        /\ \A k \in DOMAIN p : k \notin DOMAIN h => held'[k] = p[k]
    BY <2>2 DEF Panel!Over
  <2>8. \A k \in DOMAIN wanted :
          \/ k \in DOMAIN h /\ h[k] = wanted[k]
          \/ k \notin DOMAIN h /\ k \in DOMAIN p /\ p[k] = wanted[k]
    BY <1>1, <2>1, <2>5 DEF PanelKept
  <2>9. \A k \in DOMAIN wanted : k \in DOMAIN held' /\ held'[k] = wanted[k]
    BY <2>7, <2>8
  <2>10. PanelKept'
    BY <1>1, <1>7, <2>6, <2>9 DEF PanelKept, Runs
  <2> QED BY <1>1, <2>4, <2>10 DEF PanelInv
<1> QED BY <1>8, <1>9

LEMMA PanelStep ==
  ASSUME PanelInv, [Panel!Next]_Panel!vars
  PROVE  PanelInv'
<1>1. CASE UNCHANGED Panel!vars
  BY <1>1, PanelStutter
<1>2. CASE Panel!Commit \/ Panel!Save \/ Panel!ClosePanel \/ Panel!RevertChanges
  BY <1>2, CommitKept, SaveKept, CloseKept, RevertKept
<1>3. CASE Panel!Refetch \/ Panel!Read \/ Panel!Arrive \/ Panel!Open
  BY <1>3, QueryKept
<1>4. CASE \E k \in Panel!Key, v \in Panel!Offered : Panel!HandleChange(k, v)
  BY <1>4, ChangeKept
<1>5. CASE \E k \in Buttons : Panel!Button(k)
  BY <1>5, ButtonKept
<1>6. CASE \E k \in Panel!Key, v \in 0..Last + 1 :
             Panel!OtherDevice(k, v) /\ (v = Panel!Amoled => k = "theme")
  BY <1>6, OtherKept
<1>7. CASE \E i \in Panel!Call : Panel!Write(i) \/ Panel!Answered(i) \/ Panel!Fails(i)
  BY <1>7, WriteKept, AnsweredKept, FailsKept
<1> QED BY <1>1, <1>2, <1>3, <1>4, <1>5, <1>6, <1>7 DEF Panel!Next

LEMMA PanelHolds == Panel!PreferencesAssumption => (Panel!Spec => []PanelInv)
<1>1. ASSUME Panel!PreferencesAssumption
      PROVE  Panel!Spec => []PanelInv
  <2>1. Panel!Init => PanelInv
    BY <1>1, PanelInit
  <2>2. PanelInv /\ [Panel!Next]_Panel!vars => PanelInv'
    BY PanelStep
  <2> QED BY <2>1, <2>2, PTL DEF Panel!Spec
<1> QED BY <1>1

\* The row, the cache, the calls and the save queue keep their types.
THEOREM PanelTypes == Panel!PreferencesAssumption => (Panel!Spec => []Panel!TypeOK)
<1>1. PanelInv => Panel!TypeOK
  BY PanelIs
<1> QED BY <1>1, PanelHolds, PTL

\* The panel never has two saves under way: their order could be lost.
THEOREM OneSaveRuns == Panel!PreferencesAssumption => (Panel!Spec => []Panel!OneSaveAtATime)
<1>1. PanelInv => Panel!OneSaveAtATime
  BY PanelIs
<1> QED BY <1>1, PanelHolds, PTL

\* Whatever fails, arrives or is chosen in the meantime, what the user has chosen in the panel is
\* shown, and waits or is on its way, until it is saved or reverted; the panel closes over none.
THEOREM ChoicesAreKept ==
  Panel!PreferencesAssumption => (Panel!Spec => [](Panel!DraftKept /\ Panel!ClosedKept))
<1>1. PanelInv => Panel!DraftKept /\ Panel!ClosedKept
  BY PanelIs
<1> QED BY <1>1, PanelHolds, PTL

---------------------------------------------------------------------------

(***************************************************************************)
(* ArticlePages: a list of articles, page by page.                         *)
(***************************************************************************)
CONSTANTS Articles, Limit, UnreadOnly, Visible, MaxChanges, MaxToggles, MaxGen
VARIABLES listed, gen, events, data, req, silent, selected, retained, stayed, mine, asked, altered,
          toggles

List == INSTANCE ArticlePages WITH changes <- altered

---------------------------------------------------------------------------
\* Sets of articles, and the pages of the server.
LEMMA ListConstants ==
  ASSUME List!ArticlePagesAssumption
  PROVE  /\ Articles \in Nat \ {0} /\ Limit \in Nat \ {0} /\ MaxGen \in Nat
         /\ MaxChanges \in Nat /\ MaxToggles \in Nat /\ UnreadOnly \in BOOLEAN
BY DEF List!ArticlePagesAssumption

LEMMA CardinalityIs ==
  ASSUME NEW S
  PROVE  List!Cardinality(S) = Cardinality(S)
BY Zenon DEF List!Cardinality, Cardinality

LEMMA FirstIs ==
  ASSUME NEW n, NEW rows
  PROVE  \A a : a \in List!First(n, rows) <=> a \in rows /\ Cardinality({b \in rows : b < a}) < n
BY CardinalityIs DEF List!First

\* A set of naturals has a least one.
LEMMA LeastNatural ==
  ASSUME NEW S \in SUBSET Nat, S # {}
  PROVE  \E a \in S : \A b \in S : a <= b
<1> DEFINE R == OpToRel(<, Nat)
<1>1. IsWellFoundedOn(R, Nat)
  BY NatLessThanWellFounded, Zenon
<1>2. \A x, y \in Nat : x < y => <<x, y>> \in R
  BY SMT DEF OpToRel
<1> HIDE DEF R
<1>3. PICK x \in S : \A y \in S : <<y, x>> \notin R
  BY <1>1, WFMin, Zenon
<1>4. ASSUME NEW b \in S
      PROVE  x <= b
  <2>1. x \in Nat /\ b \in Nat
    OBVIOUS
  <2>2. ~ (b < x)
    BY <1>2, <1>3, <2>1
  <2> QED BY <2>1, <2>2
<1> QED BY <1>4

LEMMA LowestArticle ==
  ASSUME List!ArticlePagesAssumption, NEW S \in SUBSET List!Article, S # {}
  PROVE  \E a \in S : \A b \in S : a <= b
<1>1. S \in SUBSET Nat
  BY ListConstants DEF List!Article
<1> QED BY <1>1, LeastNatural

LEMMA HighestArticle ==
  ASSUME List!ArticlePagesAssumption, NEW S \in SUBSET List!Article, S # {}
  PROVE  \E a \in S : \A b \in S : b <= a
<1> DEFINE T == {n \in Nat : \E a \in S : n = Articles - a}
<1>1. \A a \in S : a \in Nat /\ Articles - a \in Nat
  BY ListConstants DEF List!Article
<1>2. T \in SUBSET Nat /\ T # {}
  BY <1>1
<1>3. PICK n \in T : \A m \in T : n <= m
  BY <1>2, LeastNatural
<1>4. PICK a \in S : n = Articles - a
  BY <1>3
<1>5. ASSUME NEW b \in S
      PROVE  b <= a
  <2>1. Articles - b \in T
    BY <1>1
  <2>2. Articles - a <= Articles - b
    BY <1>3, <1>4, <2>1
  <2> QED BY <1>1, <2>2, ListConstants
<1> QED BY <1>5

LEMMA ArticleSet ==
  ASSUME List!ArticlePagesAssumption, NEW S \in SUBSET List!Article
  PROVE  IsFiniteSet(S)
<1>1. IsFiniteSet(1..Articles)
  BY ListConstants, FS_Interval
<1> QED BY <1>1, FS_Subset DEF List!Article

\* The first rows are the lowest, and there is one if there is any.
LEMMA FirstRows ==
  ASSUME List!ArticlePagesAssumption, NEW rows \in SUBSET List!Article
  PROVE  /\ List!First(Limit, rows) \subseteq rows
         /\ \A a \in List!First(Limit, rows) : \A b \in rows : b < a => b \in List!First(Limit, rows)
         /\ rows # {} => List!First(Limit, rows) # {}
<1>1. List!First(Limit, rows) \subseteq rows
  BY FirstIs
<1>2. ASSUME NEW a \in List!First(Limit, rows), NEW b \in rows, b < a
      PROVE  b \in List!First(Limit, rows)
  <2>1. a \in rows /\ Cardinality({c \in rows : c < a}) < Limit
    BY FirstIs
  <2>2. {c \in rows : c < b} \subseteq {c \in rows : c < a}
    <3>1. ASSUME NEW c \in rows, c < b
          PROVE  c < a
      <4>1. a \in Int /\ b \in Int /\ c \in Int
        BY <2>1 DEF List!Article
      <4> QED BY <4>1, <1>2, <3>1
    <3> QED BY <3>1
  <2>3. /\ IsFiniteSet({c \in rows : c < a})
        /\ Cardinality({c \in rows : c < b}) <= Cardinality({c \in rows : c < a})
        /\ Cardinality({c \in rows : c < b}) \in Nat /\ Cardinality({c \in rows : c < a}) \in Nat
    <3>1. IsFiniteSet({c \in rows : c < a}) /\ IsFiniteSet({c \in rows : c < b})
      BY ArticleSet
    <3> QED BY <2>2, <3>1, FS_Subset, FS_CardinalityType
  <2>4. Cardinality({c \in rows : c < b}) < Limit
    BY <2>1, <2>3, ListConstants
  <2> QED BY <2>4, FirstIs
<1>3. ASSUME rows # {}
      PROVE  List!First(Limit, rows) # {}
  <2>1. PICK a \in rows : \A b \in rows : a <= b
    BY <1>3, LowestArticle
  <2>2. {b \in rows : b < a} = {}
    <3>1. ASSUME NEW b \in rows
          PROVE  ~ (b < a)
      <4>1. a \in Int /\ b \in Int /\ a <= b
        BY <2>1 DEF List!Article
      <4> QED BY <4>1
    <3> QED BY <3>1
  <2>3. Cardinality({b \in rows : b < a}) < Limit
    BY <2>2, FS_EmptySet, ListConstants
  <2> QED BY <2>3, FirstIs
<1> QED BY <1>1, <1>2, <1>3

LEMMA LastIs ==
  ASSUME List!ArticlePagesAssumption, NEW S \in SUBSET List!Article, S # {}
  PROVE  List!Last(S) \in S /\ \A b \in S : b <= List!Last(S)
BY HighestArticle DEF List!Last

\* A page of the server: the rows after the cursor, all of them up to its own.
LEMMA PageIs ==
  ASSUME List!ArticlePagesAssumption, gen \in 0..MaxGen,
         NEW cursor \in List!Article \cup {0}
  PROVE  /\ List!PageAfter(cursor) \in List!Page
         /\ \A a \in List!PageAfter(cursor).rows :
              /\ cursor < a
              /\ List!PageAfter(cursor).next # 0 => a <= List!PageAfter(cursor).next
         /\ List!PageAfter(cursor).next # 0 => cursor < List!PageAfter(cursor).next
         /\ \A a \in List!Article :
              /\ List!InView(a) /\ cursor < a
              /\ List!PageAfter(cursor).next = 0 \/ a <= List!PageAfter(cursor).next
              => a \in List!PageAfter(cursor).rows
<1> DEFINE all == List!Rest(cursor)
<1> DEFINE rows == List!First(Limit, all)
<1> DEFINE page == List!PageAfter(cursor)
<1>1. /\ all \in SUBSET List!Article
      /\ \A a : a \in all <=> a \in List!Article /\ a > cursor /\ List!InView(a)
  BY DEF List!Rest
<1>2. /\ page.rows = rows /\ page.next = (IF rows = all THEN 0 ELSE List!Last(rows))
      /\ page = [rows |-> page.rows, read |-> page.read, next |-> page.next, gen |-> page.gen]
      /\ page.read \subseteq rows /\ page.gen = gen
  BY DEF List!PageAfter, List!NoArticle
<1> HIDE DEF all, page
<1>3. /\ rows \subseteq all
      /\ all # {} => rows # {}
      /\ \A a \in rows : \A b \in all : b < a => b \in rows
  BY <1>1, FirstRows
<1> HIDE DEF rows
<1>4. rows \in SUBSET List!Article
  BY <1>1, <1>3
<1>5. rows # all => List!Last(rows) \in rows /\ \A b \in rows : b <= List!Last(rows)
  BY <1>3, <1>4, LastIs
<1>6. page.next \in List!Article \cup {0}
  BY <1>2, <1>4, <1>5
<1>7. page \in List!Page
  BY <1>2, <1>4, <1>6 DEF List!Page, List!NoArticle
<1>8. 0 \notin List!Article /\ \A a \in List!Article : a \in Int
  BY ListConstants DEF List!Article
<1>9. page.next # 0 => rows # all /\ page.next = List!Last(rows)
  BY <1>2
<1>10. ASSUME NEW a \in page.rows
       PROVE  cursor < a /\ (page.next # 0 => a <= page.next)
  <2>1. a \in all /\ a \in rows
    BY <1>2, <1>3, <1>10
  <2>2. a \in Int /\ cursor \in Int /\ a > cursor
    BY <1>1, <1>8, <2>1
  <2> QED BY <1>5, <1>9, <2>1, <2>2
<1>11. page.next # 0 => cursor < page.next
  BY <1>2, <1>5, <1>9, <1>10
<1>12. ASSUME NEW a \in List!Article, List!InView(a), cursor < a,
              page.next = 0 \/ a <= page.next
       PROVE  a \in page.rows
  <2>1. a \in Int /\ cursor \in Int
    BY <1>8
  <2>2. a \in all
    BY <1>1, <1>12, <2>1
  <2>3. CASE page.next = 0
    <3>1. rows = all
      BY <1>2, <1>4, <1>5, <1>8, <2>3
    <3> QED BY <1>2, <2>2, <3>1
  <2>4. CASE page.next # 0
    <3>1. page.next \in rows /\ page.next \in Int /\ a <= page.next
      BY <1>5, <1>8, <1>9, <1>12, <1>4, <2>4
    <3>2. a = page.next \/ a < page.next
      BY <2>1, <3>1
    <3> QED BY <1>2, <1>3, <2>2, <3>1, <3>2
  <2> QED BY <2>3, <2>4
<1> QED BY <1>7, <1>10, <1>11, <1>12 DEF page

---------------------------------------------------------------------------
\* Pages: each ends at its cursor, and the next one begins after it.
PagesOrdered(pages) ==
  /\ \A i \in 1..Len(pages) : \A a \in pages[i].rows :
       pages[i].next # 0 => a <= pages[i].next
  /\ \A i, j \in 1..Len(pages) : i < j =>
       /\ pages[i].next # 0
       /\ \A a \in pages[j].rows : pages[i].next < a
       /\ pages[j].next # 0 => pages[i].next < pages[j].next

\* All of them have a cursor.
PagesGoOn(pages) == \A i \in 1..Len(pages) : pages[i].next # 0

\* Every article of a set is in them, up to the last cursor.
PagesCover(pages, kept) ==
  pages # <<>> =>
    \A a \in kept :
      pages[Len(pages)].next = 0 \/ a <= pages[Len(pages)].next => a \in List!Rows(pages)

PagesFit(pages, kept) ==
  pages \in Seq(List!Page) /\ PagesOrdered(pages) /\ PagesCover(pages, kept)

LEMMA RowsAre ==
  ASSUME NEW pages, NEW a
  PROVE  a \in List!Rows(pages) <=> \E i \in 1..Len(pages) : a \in pages[i].rows
BY DEF List!Rows

LEMMA PageParts ==
  ASSUME NEW page \in List!Page
  PROVE  /\ page.rows \in SUBSET List!Article /\ page.read \in SUBSET List!Article
         /\ page.next \in List!Article \cup {0} /\ page.gen \in 0..MaxGen
         /\ page = [rows |-> page.rows, read |-> page.read, next |-> page.next, gen |-> page.gen]
BY DEF List!Page, List!NoArticle

LEMMA PageOf ==
  ASSUME NEW pages \in Seq(List!Page), NEW i \in 1..Len(pages)
  PROVE  /\ pages[i] \in List!Page
         /\ pages[i].rows \in SUBSET List!Article /\ pages[i].read \in SUBSET List!Article
         /\ pages[i].next \in List!Article \cup {0}
<1>1. pages[i] \in List!Page
  OBVIOUS
<1> QED BY <1>1, PageParts

LEMMA EmptyPages ==
  ASSUME NEW kept
  PROVE  PagesFit(<<>>, kept) /\ PagesGoOn(<<>>)
BY DEF PagesFit, PagesOrdered, PagesCover, PagesGoOn

LEMMA FewerCovered ==
  ASSUME NEW pages, NEW kept, NEW fewer \in SUBSET kept, PagesFit(pages, kept)
  PROVE  PagesFit(pages, fewer)
BY DEF PagesFit, PagesCover

\* Pages with the same rows and cursors.
LEMMA SamePages ==
  ASSUME NEW pages, NEW kept, PagesFit(pages, kept),
         NEW other \in Seq(List!Page), Len(other) = Len(pages),
         \A i \in 1..Len(pages) : other[i].rows = pages[i].rows /\ other[i].next = pages[i].next
  PROVE  PagesFit(other, kept) /\ List!Rows(other) = List!Rows(pages)
<1>1. pages \in Seq(List!Page) /\ Len(pages) \in Nat
  BY DEF PagesFit
<1>2. \A a : a \in List!Rows(other) <=> a \in List!Rows(pages)
  BY RowsAre
<1>3. List!Rows(other) = List!Rows(pages)
  BY <1>2
<1>4. PagesOrdered(other)
  BY DEF PagesFit, PagesOrdered
<1>5. ASSUME other # <<>>
      PROVE  pages # <<>> /\ other[Len(other)].next = pages[Len(pages)].next
  <2>1. Len(pages) \in 1..Len(pages)
    BY <1>1, <1>5
  <2> QED BY <1>1, <2>1
<1>6. PagesCover(other, kept)
  BY <1>3, <1>5 DEF PagesFit, PagesCover
<1> QED BY <1>3, <1>4, <1>6 DEF PagesFit

\* A page after the others: its rows are after their last cursor, and with them
\* it holds what is to be covered up to its own.
LEMMA AppendedPage ==
  ASSUME List!ArticlePagesAssumption, NEW pages, NEW kept \in SUBSET List!Article,
         PagesFit(pages, kept), PagesGoOn(pages), NEW page \in List!Page, NEW cursor,
         cursor = (IF pages = <<>> THEN 0 ELSE pages[Len(pages)].next),
         \A a \in page.rows : cursor < a /\ (page.next # 0 => a <= page.next),
         page.next # 0 => cursor < page.next,
         \A a \in kept : cursor < a /\ (page.next = 0 \/ a <= page.next) => a \in page.rows
  PROVE  PagesFit(Append(pages, page), kept)
<1> DEFINE more == Append(pages, page)
<1> DEFINE n == Len(pages)
<1>1. pages \in Seq(List!Page) /\ n \in Nat
  BY DEF PagesFit
<1>2. /\ more \in Seq(List!Page) /\ Len(more) = n + 1 /\ more[n + 1] = page
      /\ \A i \in 1..n : more[i] = pages[i]
  BY <1>1
<1> HIDE DEF more
<1>3. \A i \in 1..n : pages[i].next \in List!Article /\ pages[i].next \in Int
  <2> SUFFICES ASSUME NEW i \in 1..n
               PROVE  pages[i].next \in List!Article /\ pages[i].next \in Int
    OBVIOUS
  <2>1. pages[i].next \in List!Article
    BY <1>1, PageOf DEF PagesGoOn
  <2> QED BY <2>1 DEF List!Article
<1>4. /\ page.rows \in SUBSET List!Article /\ page.next \in List!Article \cup {0}
      /\ \A a \in List!Article : a \in Int
  BY PageParts DEF List!Article
<1>5. \A i \in 1..n : pages # <<>> /\ cursor = pages[n].next /\ pages[i].next <= cursor
                       /\ cursor \in Int
  <2> SUFFICES ASSUME NEW i \in 1..n
               PROVE  pages # <<>> /\ cursor = pages[n].next /\ pages[i].next <= cursor
                      /\ cursor \in Int
    OBVIOUS
  <2>1. n \in 1..n /\ pages # <<>>
    BY <1>1
  <2>2. cursor = pages[n].next /\ cursor \in Int /\ pages[i].next \in Int
    BY <1>3, <2>1
  <2>3. i = n \/ i < n
    BY <1>1
  <2>4. i < n => pages[i].next < pages[n].next
    BY <1>3, <2>1 DEF PagesFit, PagesOrdered, PagesGoOn
  <2> QED BY <2>1, <2>2, <2>3, <2>4
<1>6. \A i \in 1..(n + 1) : i \in 1..n \/ i = n + 1
  BY <1>1
<1>7. PagesOrdered(more)
  <2>1. ASSUME NEW i \in 1..Len(more), NEW a \in more[i].rows, more[i].next # 0
        PROVE  a <= more[i].next
    <3>1. CASE i = n + 1
      BY <1>2, <2>1, <3>1
    <3>2. CASE i \in 1..n
      BY <1>2, <2>1, <3>2 DEF PagesFit, PagesOrdered
    <3> QED BY <1>2, <1>6, <3>1, <3>2
  <2>2. ASSUME NEW i \in 1..Len(more), NEW j \in 1..Len(more), i < j
        PROVE  /\ more[i].next # 0
               /\ \A a \in more[j].rows : more[i].next < a
               /\ more[j].next # 0 => more[i].next < more[j].next
    <3>1. i \in 1..n /\ more[i] = pages[i]
      BY <1>1, <1>2, <2>2
    <3>2. CASE j = n + 1
      <4>1. more[j] = page /\ pages[i].next <= cursor /\ cursor \in Int /\ pages[i].next \in Int
        BY <1>2, <1>3, <1>5, <3>1, <3>2
      <4>2. pages[i].next # 0
        BY <3>1 DEF PagesGoOn
      <4>3. ASSUME NEW a \in page.rows
            PROVE  pages[i].next < a
        <5>1. a \in Int /\ cursor < a
          BY <1>4
        <5> QED BY <4>1, <5>1
      <4>4. ASSUME page.next # 0
            PROVE  pages[i].next < page.next
        <5>1. page.next \in Int /\ cursor < page.next
          BY <1>4, <4>4
        <5> QED BY <4>1, <5>1
      <4> QED BY <3>1, <4>1, <4>2, <4>3, <4>4
    <3>3. CASE j \in 1..n
      BY <1>2, <2>2, <3>1, <3>3 DEF PagesFit, PagesOrdered
    <3> QED BY <1>2, <1>6, <3>2, <3>3
  <2> QED BY <2>1, <2>2 DEF PagesOrdered
<1>8. PagesCover(more, kept)
  <2> SUFFICES ASSUME NEW a \in kept, page.next = 0 \/ a <= page.next
               PROVE  a \in List!Rows(more)
    BY <1>2 DEF PagesCover
  <2>1. a \in Int /\ 0 < a
    BY ListConstants DEF List!Article
  <2>2. CASE cursor < a
    <3>1. a \in more[n + 1].rows /\ n + 1 \in 1..Len(more)
      BY <1>1, <1>2, <2>2
    <3> QED BY <3>1, RowsAre
  <2>3. CASE ~ (cursor < a)
    <3>1. pages # <<>> /\ n \in 1..n
      BY <1>1, <2>1, <2>3
    <3>2. cursor = pages[n].next /\ cursor \in Int
      BY <1>5, <3>1
    <3>3. a <= pages[n].next
      BY <2>1, <2>3, <3>2
    <3>4. a \in List!Rows(pages)
      BY <3>1, <3>3 DEF PagesFit, PagesCover
    <3>5. PICK i \in 1..n : a \in pages[i].rows
      BY <3>4, RowsAre
    <3>6. i \in 1..Len(more) /\ a \in more[i].rows
      BY <1>1, <1>2, <3>5
    <3> QED BY <3>6, RowsAre
  <2> QED BY <2>2, <2>3
<1> QED BY <1>2, <1>7, <1>8 DEF PagesFit, more

---------------------------------------------------------------------------
\* The request for pages, and the pages that are shown.
RequestShape ==
  [kind : {"none", "next", "all"}, pages : Seq(List!Page), goal : Nat, got : List!Page,
   is : {"idle", "sent", "answered", "refused"}, since : SUBSET List!Article]

SilentShape ==
  [is : {"idle", "sent", "answered", "rests"}, cached : List!Page, fresh : List!Page]

\* What the pages of a request are to cover.
RequestBase(r, kept) == IF r.kind = "next" THEN kept ELSE r.since

Viewed == {a \in List!Article : List!InView(a)}

RequestFits(r, kept) ==
  /\ r \in RequestShape
  /\ PagesFit(r.pages, RequestBase(r, kept)) /\ PagesGoOn(r.pages)
  /\ r.kind = "next" => r.pages # <<>>
  /\ r.kind = "none" <=> r.is = "idle"
  /\ r.is = "answered" => PagesFit(Append(r.pages, r.got), RequestBase(r, kept))

ListTypes ==
  /\ listed \in [List!Article -> {"absent", "unread", "read"}]
  /\ gen \in 0..MaxGen /\ silent \in SilentShape
  /\ asked \in [List!Article -> {"nothing", "unread", "read"}]

KeptFits ==
  /\ selected \in List!Article \cup {0}
  /\ retained \in SUBSET List!Article /\ (~UnreadOnly => retained = {})
  /\ mine \in SUBSET List!Article /\ (UnreadOnly => mine \subseteq retained)

ListFits ==
  /\ PagesFit(data, stayed) /\ RequestFits(req, stayed)
  /\ stayed \in SUBSET Viewed /\ req.since \in SUBSET Viewed

ListInv == ListTypes /\ KeptFits /\ ListFits

LEMMA ViewedIs ==
  ASSUME NEW a
  PROVE  a \in Viewed <=> a \in List!Article /\ List!InView(a)
BY DEF Viewed

LEMMA BlankPage ==
  ASSUME List!ArticlePagesAssumption
  PROVE  List!NoPage \in List!Page
BY ListConstants DEF List!NoPage, List!Page, List!NoArticle

LEMMA BlankRequest ==
  ASSUME List!ArticlePagesAssumption, NEW kept
  PROVE  RequestFits(List!NoReq, kept) /\ List!NoReq.since = {}
<1>1. /\ List!NoReq = [kind |-> "none", pages |-> <<>>, goal |-> 0, got |-> List!NoPage,
                       is |-> "idle", since |-> {}]
      /\ <<>> \in Seq(List!Page)
  BY DEF List!NoReq
<1>2. List!NoReq \in RequestShape
  BY <1>1, BlankPage DEF RequestShape
<1> QED BY <1>1, <1>2, EmptyPages DEF RequestFits

LEMMA WholeRequest ==
  ASSUME List!ArticlePagesAssumption, NEW kept, NEW pages \in Seq(List!Page)
  PROVE  RequestFits(List!All(pages), kept) /\ List!All(pages).since = {}
<1> DEFINE g == IF pages = <<>> THEN 1 ELSE Len(pages)
<1> DEFINE r == [kind |-> "all", pages |-> <<>>, goal |-> g, got |-> List!NoPage,
                 is |-> "sent", since |-> {}]
<1>1. List!All(pages) = [List!NoReq EXCEPT !.kind = "all", !.is = "sent", !.goal = g]
  BY DEF List!All
<1>2. g \in Nat /\ <<>> \in Seq(List!Page)
  OBVIOUS
<1> HIDE DEF g
<1>5. List!All(pages) = r
  BY <1>1 DEF List!NoReq
<1>3. r \in RequestShape
  BY <1>2, BlankPage DEF RequestShape
<1>4. RequestFits(r, kept)
  BY <1>3, EmptyPages DEF RequestFits
<1> QED BY <1>5, <1>4

\* What was there at the time, less what has left the view.
LEMMA FewerAsked ==
  ASSUME NEW r, NEW kept, RequestFits(r, kept), NEW fewer \in SUBSET kept,
         NEW since \in SUBSET r.since
  PROVE  /\ RequestFits([r EXCEPT !.since = since], fewer)
         /\ [r EXCEPT !.since = since].since = since
<1> DEFINE s == [r EXCEPT !.since = since]
<1>1. r \in RequestShape
  BY DEF RequestFits
<1>2. /\ s.kind = r.kind /\ s.pages = r.pages /\ s.got = r.got /\ s.is = r.is /\ s.since = since
      /\ s \in RequestShape
  BY <1>1 DEF RequestShape
<1> HIDE DEF s
<1>3. RequestBase(s, fewer) \in SUBSET RequestBase(r, kept)
  BY <1>2 DEF RequestBase
<1>4. PagesFit(s.pages, RequestBase(s, fewer))
  BY <1>2, <1>3, FewerCovered DEF RequestFits
<1>5. s.is = "answered" => PagesFit(Append(s.pages, s.got), RequestBase(s, fewer))
  BY <1>2, <1>3, FewerCovered DEF RequestFits
<1>6. RequestFits(s, fewer)
  BY <1>2, <1>4, <1>5 DEF RequestFits
<1> QED BY <1>2, <1>6 DEF s

LEMMA SameSince ==
  ASSUME NEW r, NEW kept, RequestFits(r, kept), NEW fewer \in SUBSET kept
  PROVE  RequestFits(r, fewer)
<1>1. r \in RequestShape
  BY DEF RequestFits
<1>2. [r EXCEPT !.since = r.since] = r
  BY <1>1 DEF RequestShape
<1> QED BY <1>2, FewerAsked

LEMMA RefetchedFits ==
  ASSUME List!ArticlePagesAssumption, RequestFits(req, stayed), PagesFit(data, stayed)
  PROVE  /\ RequestFits(List!Refetched, stayed)
         /\ List!Refetched.since = req.since \/ List!Refetched.since = {}
BY WholeRequest DEF List!Refetched, PagesFit

---------------------------------------------------------------------------
\* What is shown.
LEMMA MarkedPages ==
  ASSUME NEW pages, NEW kept, PagesFit(pages, kept), NEW a, NEW state
  PROVE  /\ PagesFit(List!Marked(pages, a, state), kept)
         /\ List!Rows(List!Marked(pages, a, state)) = List!Rows(pages)
         /\ state = "read" /\ a \in List!Rows(pages)
              => a \in List!ReadRows(List!Marked(pages, a, state))
<1> DEFINE m == List!Marked(pages, a, state)
<1> DEFINE marked(i) == IF state = "read" THEN pages[i].read \cup {a} ELSE pages[i].read \ {a}
<1>1. pages \in Seq(List!Page) /\ Len(pages) \in Nat
  BY DEF PagesFit
<1>2. m = [i \in 1..Len(pages) |->
             IF a \notin pages[i].rows THEN pages[i]
             ELSE [pages[i] EXCEPT !.read = marked(i)]]
  BY DEF List!Marked
<1>3. \A i \in 1..Len(pages) :
        /\ m[i] \in List!Page /\ m[i].rows = pages[i].rows /\ m[i].next = pages[i].next
        /\ a \in pages[i].rows => m[i].read = marked(i)
  <2> SUFFICES ASSUME NEW i \in 1..Len(pages)
               PROVE  /\ m[i] \in List!Page /\ m[i].rows = pages[i].rows
                      /\ m[i].next = pages[i].next
                      /\ a \in pages[i].rows => m[i].read = marked(i)
    OBVIOUS
  <2> DEFINE p == pages[i]
  <2>1. p \in List!Page
    BY <1>1
  <2>2. m[i] = IF a \notin p.rows THEN p ELSE [p EXCEPT !.read = marked(i)]
    BY <1>2
  <2>3. CASE a \notin p.rows
    BY <2>1, <2>2, <2>3
  <2>4. CASE a \in p.rows
    <3>1. p.rows \in SUBSET List!Article /\ p.read \in SUBSET List!Article
      BY <2>1, PageParts
    <3>2. marked(i) \in SUBSET List!Article
      BY <2>4, <3>1
    <3> HIDE DEF marked
    <3> QED BY <2>1, <2>2, <2>4, <3>2 DEF List!Page
  <2> QED BY <2>3, <2>4
<1>4. m \in Seq(List!Page) /\ Len(m) = Len(pages)
  <2>1. m \in [1..Len(pages) -> List!Page]
    BY <1>2, <1>3
  <2> QED BY <1>1, <2>1
<1> HIDE DEF m, marked
<1>5. PagesFit(m, kept) /\ List!Rows(m) = List!Rows(pages)
  BY <1>3, <1>4, SamePages
<1>6. ASSUME state = "read", a \in List!Rows(pages)
      PROVE  a \in List!ReadRows(m)
  <2>1. PICK i \in 1..Len(pages) : a \in pages[i].rows
    BY <1>6, RowsAre
  <2>2. a \in m[i].read /\ i \in 1..Len(m)
    BY <1>3, <1>4, <1>6, <2>1 DEF marked
  <2> QED BY <2>2 DEF List!ReadRows
<1> QED BY <1>5, <1>6 DEF m

LEMMA RowsInArticles ==
  ASSUME NEW pages \in Seq(List!Page)
  PROVE  List!Rows(pages) \subseteq List!Article /\ List!ReadRows(pages) \subseteq List!Article
<1>1. List!Rows(pages) \subseteq List!Article
  BY PageOf DEF List!Rows
<1>2. List!ReadRows(pages) \subseteq List!Article
  BY PageOf DEF List!ReadRows
<1> QED BY <1>1, <1>2

\* A render keeps what is retained, and retains the open article once read.
LEMMA RendersFits ==
  ASSUME NEW pages \in Seq(List!Page), NEW open \in List!Article \cup {0},
         NEW kept \in SUBSET List!Article, ~UnreadOnly => kept = {},
         List!Renders(pages, open, kept)
  PROVE  /\ data' = pages
         /\ retained' \in SUBSET List!Article /\ kept \subseteq retained'
         /\ ~UnreadOnly => retained' = {}
         /\ UnreadOnly /\ open \in List!ReadRows(pages) => open \in retained'
         /\ selected' \in List!Article \cup {0}
<1>1. /\ data' = pages /\ retained' = List!Retained(pages, open, kept)
      /\ selected' \in {open, 0}
  BY DEF List!Renders, List!NoArticle
<1>2. List!Retained(pages, open, kept) =
        IF UnreadOnly /\ open \in List!ReadRows(pages) THEN kept \cup {open} ELSE kept
  BY DEF List!Retained
<1>3. List!ReadRows(pages) \subseteq List!Article
  BY RowsInArticles
<1> QED BY <1>1, <1>2, <1>3

---------------------------------------------------------------------------
\* The steps.
LEMMA ListInit ==
  ASSUME List!ArticlePagesAssumption, List!Init
  PROVE  ListInv
<1>1. /\ listed \in [List!Article -> {"absent", "unread"}]
      /\ gen = 0 /\ data = <<>> /\ req = List!All(<<>>) /\ silent = List!NoSilent
      /\ selected = 0 /\ retained = {} /\ stayed = {} /\ mine = {}
      /\ asked = [a \in List!Article |-> "nothing"]
  BY DEF List!Init, List!NoArticle
<1>2. silent \in SilentShape
  BY <1>1, BlankPage DEF SilentShape, List!NoSilent
<1>3. ListTypes
  <2>1. listed \in [List!Article -> {"absent", "unread", "read"}]
    BY <1>1
  <2>2. gen \in 0..MaxGen
    BY <1>1, ListConstants
  <2> QED BY <1>1, <1>2, <2>1, <2>2 DEF ListTypes
<1>4. KeptFits
  BY <1>1 DEF KeptFits
<1>5. RequestFits(req, stayed) /\ req.since = {}
  <2>1. <<>> \in Seq(List!Page)
    OBVIOUS
  <2> QED BY <1>1, <2>1, WholeRequest
<1>6. PagesFit(data, stayed)
  BY <1>1, EmptyPages
<1>7. ListFits
  BY <1>1, <1>5, <1>6 DEF ListFits
<1> QED BY <1>3, <1>4, <1>7 DEF ListInv

LEMMA StillIs ==
  ASSUME NEW rows
  PROVE  rows \in SUBSET List!Article
           => List!Still(rows) \in SUBSET rows /\ List!Still(rows) \in SUBSET Viewed'
BY DEF List!Still, Viewed

\* The view, of the server's articles as they were.
LEMMA ViewStays ==
  ASSUME listed' = listed
  PROVE  Viewed' = Viewed
BY DEF Viewed, List!InView

LEMMA ChangedKeeps ==
  ASSUME List!ArticlePagesAssumption, ListInv, NEW a \in List!Article,
         NEW state \in {"absent", "unread", "read"}, NEW told, List!Changed(a, state, told)
  PROVE  ListInv'
<1>1. /\ listed' = [listed EXCEPT ![a] = state] /\ asked' = [asked EXCEPT ![a] = "nothing"]
      /\ stayed' = List!Still(stayed) /\ req' = [req EXCEPT !.since = List!Still(@)]
      /\ UNCHANGED <<gen, data, silent, selected, retained, mine>>
  BY DEF List!Changed
<1>2. ListTypes'
  BY <1>1 DEF ListInv, ListTypes
<1>3. KeptFits'
  BY <1>1 DEF ListInv, KeptFits
<1>4. /\ stayed \in SUBSET List!Article /\ req.since \in SUBSET List!Article
      /\ RequestFits(req, stayed) /\ PagesFit(data, stayed)
  BY ViewedIs DEF ListInv, ListFits
<1>5. /\ stayed' \in SUBSET stayed /\ stayed' \in SUBSET Viewed'
      /\ List!Still(req.since) \in SUBSET req.since /\ List!Still(req.since) \in SUBSET Viewed'
  BY <1>1, <1>4, StillIs
<1>6. req' = [req EXCEPT !.since = List!Still(req.since)]
  BY <1>1
<1>7. RequestFits(req', stayed') /\ req'.since = List!Still(req.since)
  BY <1>4, <1>5, <1>6, FewerAsked
<1>8. PagesFit(data', stayed')
  BY <1>1, <1>4, <1>5, FewerCovered
<1>9. ListFits'
  BY <1>5, <1>7, <1>8 DEF ListFits
<1> QED BY <1>2, <1>3, <1>9 DEF ListInv

LEMMA LoadMoreKeeps ==
  ASSUME List!ArticlePagesAssumption, ListInv, List!LoadMore
  PROVE  ListInv'
<1>1. /\ data # <<>> /\ data[Len(data)].next # 0
      /\ req' = [List!NoReq EXCEPT !.kind = "next", !.is = "sent", !.pages = data,
                                   !.goal = Len(data) + 1]
      /\ UNCHANGED <<listed, gen, data, silent, selected, retained, stayed, mine, asked>>
  BY DEF List!LoadMore, List!NoArticle, List!history
<1>2. ListTypes' /\ KeptFits' /\ Viewed' = Viewed
  <2>1. ListTypes'
    BY <1>1 DEF ListInv, ListTypes
  <2>2. KeptFits'
    BY <1>1 DEF ListInv, KeptFits
  <2> QED BY <1>1, <2>1, <2>2, ViewStays
<1>3. PagesFit(data, stayed) /\ data \in Seq(List!Page) /\ Len(data) \in Nat
  BY DEF ListInv, ListFits, PagesFit
<1>4. PagesGoOn(data)
  <2>1. ASSUME NEW i \in 1..Len(data)
        PROVE  data[i].next # 0
    <3>1. i = Len(data) \/ i < Len(data)
      BY <1>3
    <3>2. Len(data) \in 1..Len(data)
      BY <1>1, <1>3
    <3> QED BY <1>1, <1>3, <3>1, <3>2 DEF PagesFit, PagesOrdered
  <2> QED BY <2>1 DEF PagesGoOn
<1>5. /\ req' = [kind |-> "next", pages |-> data, goal |-> Len(data) + 1, got |-> List!NoPage,
                 is |-> "sent", since |-> {}]
      /\ req' \in RequestShape
  <2>1. req' = [kind |-> "next", pages |-> data, goal |-> Len(data) + 1, got |-> List!NoPage,
                is |-> "sent", since |-> {}]
    BY <1>1 DEF List!NoReq
  <2> QED BY <1>3, <2>1, BlankPage DEF RequestShape
<1>6. RequestFits(req', stayed)
  BY <1>1, <1>3, <1>4, <1>5 DEF RequestFits, RequestBase
<1>7. stayed \in SUBSET Viewed /\ req'.since = {}
  BY <1>5 DEF ListInv, ListFits
<1>8. ListFits'
  BY <1>1, <1>2, <1>3, <1>6, <1>7 DEF ListFits
<1> QED BY <1>2, <1>8 DEF ListInv

LEMMA ServeKeeps ==
  ASSUME List!ArticlePagesAssumption, ListInv, List!Serve
  PROVE  ListInv'
<1> DEFINE last == IF req.pages = <<>> THEN List!NoPage ELSE req.pages[Len(req.pages)]
<1> DEFINE got == List!PageAfter(last.next)
<1> DEFINE since == IF req.pages = <<>> THEN List!Rest(0) ELSE req.since
<1>1. /\ req.is = "sent"
      /\ \/ req' = [req EXCEPT !.is = "refused"]
         \/ req' = [req EXCEPT !.is = "answered", !.got = got, !.since = since]
      /\ UNCHANGED <<listed, gen, data, silent, selected, retained, stayed, mine, asked>>
  BY DEF List!Serve, List!NoArticle, List!history
<1>2. ListTypes' /\ KeptFits' /\ Viewed' = Viewed
  <2>1. ListTypes'
    BY <1>1 DEF ListInv, ListTypes
  <2>2. KeptFits'
    BY <1>1 DEF ListInv, KeptFits
  <2> QED BY <1>1, <2>1, <2>2, ViewStays
<1>3. /\ req \in RequestShape /\ gen \in 0..MaxGen
      /\ PagesFit(req.pages, RequestBase(req, stayed)) /\ PagesGoOn(req.pages)
      /\ req.kind = "next" => req.pages # <<>>
      /\ req.kind # "none"
      /\ stayed \in SUBSET Viewed /\ req.since \in SUBSET Viewed
      /\ PagesFit(data, stayed)
  BY <1>1 DEF ListInv, ListTypes, ListFits, RequestFits
<1>4. CASE req' = [req EXCEPT !.is = "refused"]
  <2>1. /\ req' \in RequestShape /\ req'.pages = req.pages /\ req'.is = "refused"
        /\ req'.kind = req.kind /\ req'.since = req.since
    BY <1>3, <1>4 DEF RequestShape
  <2>2. RequestBase(req', stayed) = RequestBase(req, stayed)
    BY <2>1 DEF RequestBase
  <2>3. RequestFits(req', stayed)
    BY <1>3, <2>1, <2>2 DEF RequestFits
  <2>4. ListFits'
    BY <1>1, <1>2, <1>3, <2>1, <2>3 DEF ListFits
  <2> QED BY <1>2, <2>4 DEF ListInv
<1>5. CASE req' = [req EXCEPT !.is = "answered", !.got = got, !.since = since]
  <2>1. last.next \in List!Article \cup {0}
    <3>1. CASE req.pages = <<>>
      BY <3>1 DEF List!NoPage, List!NoArticle
    <3>2. CASE req.pages # <<>>
      <4>1. req.pages \in Seq(List!Page) /\ Len(req.pages) \in 1..Len(req.pages)
        BY <1>3, <3>2 DEF RequestShape
      <4> QED BY <3>2, <4>1, PageOf
    <3> QED BY <3>1, <3>2
  <2>2. last.next = IF req.pages = <<>> THEN 0 ELSE req.pages[Len(req.pages)].next
    BY DEF List!NoPage, List!NoArticle
  <2> HIDE DEF last
  <2>3. /\ got \in List!Page
        /\ \A a \in got.rows : last.next < a /\ (got.next # 0 => a <= got.next)
        /\ got.next # 0 => last.next < got.next
        /\ \A a \in List!Article :
             List!InView(a) /\ last.next < a /\ (got.next = 0 \/ a <= got.next)
             => a \in got.rows
    BY <1>3, <2>1, PageIs
  <2> HIDE DEF got
  <2>4. since \in SUBSET Viewed /\ since \in SUBSET List!Article
    BY <1>3, ViewedIs DEF List!Rest
  <2>5. req.pages # <<>> => since = req.since
    OBVIOUS
  <2> HIDE DEF since
  <2>6. /\ req' \in RequestShape /\ req'.pages = req.pages /\ req'.is = "answered"
        /\ req'.kind = req.kind /\ req'.since = since /\ req'.got = got
    BY <1>3, <1>5, <2>3, <2>4 DEF RequestShape
  <2> DEFINE base == RequestBase(req', stayed)
  <2>7. base \in SUBSET Viewed /\ base \in SUBSET List!Article
    BY <1>3, <2>4, <2>6, ViewedIs DEF RequestBase
  <2>8. PagesFit(req.pages, base)
    <3>1. CASE req.pages = <<>>
      BY <3>1, EmptyPages
    <3>2. CASE req.pages # <<>>
      BY <1>3, <2>5, <2>6, <3>2 DEF RequestBase
    <3> QED BY <3>1, <3>2
  <2> HIDE DEF base
  <2>9. \A a \in base : last.next < a /\ (got.next = 0 \/ a <= got.next) => a \in got.rows
    BY <2>3, <2>7, ViewedIs
  <2>10. PagesFit(Append(req.pages, got), base)
    BY <1>3, <2>2, <2>3, <2>7, <2>8, <2>9, AppendedPage
  <2>11. RequestFits(req', stayed)
    BY <1>3, <2>6, <2>8, <2>10 DEF RequestFits, base
  <2>12. ListFits'
    BY <1>1, <1>2, <1>3, <2>4, <2>6, <2>11 DEF ListFits
  <2> QED BY <1>2, <2>12 DEF ListInv
<1> QED BY <1>1, <1>4, <1>5

LEMMA LandKeeps ==
  ASSUME List!ArticlePagesAssumption, ListInv, List!Land
  PROVE  ListInv'
<1> DEFINE pages == Append(req.pages, req.got)
<1>1. /\ req.is = "answered"
      /\ UNCHANGED <<listed, gen, silent, mine, asked>>
      /\ \/ /\ req.got.next # 0
            /\ req' = [req EXCEPT !.is = "sent", !.pages = pages, !.got = List!NoPage]
            /\ UNCHANGED <<data, selected, retained, stayed>>
         \/ /\ List!Renders(pages, selected, retained)
            /\ req' = List!NoReq
            /\ stayed' = IF req.kind = "all" THEN req.since ELSE stayed
  BY DEF List!Land, List!NoArticle
<1>2. /\ req \in RequestShape /\ req.kind \in {"next", "all"}
      /\ PagesFit(pages, RequestBase(req, stayed)) /\ PagesGoOn(req.pages)
      /\ stayed \in SUBSET Viewed /\ req.since \in SUBSET Viewed /\ PagesFit(data, stayed)
  <2>1. req \in RequestShape /\ req.kind # "none"
    BY <1>1 DEF ListInv, ListFits, RequestFits
  <2>2. req.kind \in {"next", "all"}
    BY <2>1 DEF RequestShape
  <2> QED BY <1>1, <2>1, <2>2 DEF ListInv, ListFits, RequestFits
<1>3. /\ pages \in Seq(List!Page) /\ pages # <<>> /\ Len(pages) = Len(req.pages) + 1
      /\ pages[Len(pages)] = req.got /\ \A i \in 1..Len(req.pages) : pages[i] = req.pages[i]
      /\ Len(req.pages) \in Nat
  BY <1>2 DEF RequestShape
<1> HIDE DEF pages
<1>4. ListTypes' /\ Viewed' = Viewed
  <2>1. ListTypes'
    BY <1>1 DEF ListInv, ListTypes
  <2> QED BY <1>1, <2>1, ViewStays
<1>5. CASE /\ req.got.next # 0
           /\ req' = [req EXCEPT !.is = "sent", !.pages = pages, !.got = List!NoPage]
           /\ UNCHANGED <<data, selected, retained, stayed>>
  <2>1. /\ req' \in RequestShape /\ req'.pages = pages /\ req'.is = "sent"
        /\ req'.kind = req.kind /\ req'.since = req.since
    BY <1>2, <1>3, <1>5, BlankPage DEF RequestShape
  <2>2. RequestBase(req', stayed) = RequestBase(req, stayed)
    BY <2>1 DEF RequestBase
  <2>3. PagesGoOn(pages)
    <3>1. ASSUME NEW i \in 1..Len(pages)
          PROVE  pages[i].next # 0
      <4>1. i = Len(pages) \/ i \in 1..Len(req.pages)
        BY <1>3
      <4> QED BY <1>2, <1>3, <1>5, <4>1 DEF PagesGoOn
    <3> QED BY <3>1 DEF PagesGoOn
  <2>4. RequestFits(req', stayed)
    BY <1>2, <1>3, <2>1, <2>2, <2>3 DEF RequestFits
  <2>5. ListFits'
    BY <1>2, <1>4, <1>5, <2>1, <2>4 DEF ListFits
  <2>6. KeptFits'
    BY <1>1, <1>5 DEF ListInv, KeptFits
  <2> QED BY <1>4, <2>5, <2>6 DEF ListInv
<1>6. CASE /\ List!Renders(pages, selected, retained)
           /\ req' = List!NoReq
           /\ stayed' = IF req.kind = "all" THEN req.since ELSE stayed
  <2>1. stayed' = RequestBase(req, stayed) /\ stayed' \in SUBSET Viewed
    BY <1>2, <1>6 DEF RequestBase
  <2>2. KeptFits
    BY DEF ListInv
  <2>3. /\ data' = pages
        /\ retained' \in SUBSET List!Article /\ retained \subseteq retained'
        /\ ~UnreadOnly => retained' = {}
        /\ selected' \in List!Article \cup {0}
    BY <1>3, <1>6, <2>2, RendersFits DEF KeptFits
  <2>4. KeptFits'
    BY <1>1, <2>2, <2>3 DEF KeptFits
  <2>5. RequestFits(req', stayed') /\ req'.since = {}
    BY <1>6, BlankRequest
  <2>6. ListFits'
    BY <1>2, <1>4, <2>1, <2>3, <2>5 DEF ListFits
  <2> QED BY <1>4, <2>4, <2>6 DEF ListInv
<1> QED BY <1>1, <1>5, <1>6

LEMMA RefusedKeeps ==
  ASSUME List!ArticlePagesAssumption, ListInv, List!Refused
  PROVE  ListInv'
<1>1. /\ data' = <<>> /\ req' = List!All(<<>>) /\ stayed' = {}
      /\ UNCHANGED <<listed, gen, silent, selected, retained, mine, asked>>
  BY DEF List!Refused
<1>2. ListTypes'
  BY <1>1 DEF ListInv, ListTypes
<1>3. KeptFits'
  BY <1>1 DEF ListInv, KeptFits
<1>4. RequestFits(req', stayed') /\ req'.since = {}
  <2>1. <<>> \in Seq(List!Page)
    OBVIOUS
  <2> QED BY <1>1, <2>1, WholeRequest
<1>5. PagesFit(data', stayed')
  BY <1>1, EmptyPages
<1>6. ListFits'
  BY <1>1, <1>4, <1>5 DEF ListFits
<1> QED BY <1>2, <1>3, <1>6 DEF ListInv

\* The pages are fetched anew, or the fetch under way goes on.
LEMMA RefetchKeeps ==
  ASSUME List!ArticlePagesAssumption, ListFits, listed' = listed, stayed' = stayed,
         PagesFit(data', stayed), req' = req \/ req' = List!Refetched
  PROVE  ListFits'
<1>1. Viewed' = Viewed
  BY ViewStays
<1>2. RequestFits(req', stayed) /\ (req'.since = req.since \/ req'.since = {})
  BY RefetchedFits DEF ListFits
<1> QED BY <1>1, <1>2 DEF ListFits

LEMMA HearKeeps ==
  ASSUME List!ArticlePagesAssumption, ListInv, List!Hear
  PROVE  ListInv'
<1> DEFINE a == events[1][1]
<1> DEFINE state == events[1][2]
<1>1. /\ \/ UNCHANGED <<data, selected, retained>>
         \/ List!Renders(List!Marked(data, a, state), selected, retained)
      /\ req' = req \/ req' = List!Refetched
      /\ UNCHANGED <<listed, gen, silent, stayed, mine, asked>>
  BY DEF List!Hear, List!history
<1>2. ListTypes'
  BY <1>1 DEF ListInv, ListTypes
<1>3. KeptFits /\ ListFits /\ PagesFit(data, stayed)
  BY DEF ListInv, ListFits
<1>4. PagesFit(data', stayed) /\ KeptFits'
  <2>1. CASE UNCHANGED <<data, selected, retained>>
    <3>1. KeptFits'
      BY <1>1, <1>3, <2>1 DEF KeptFits
    <3> QED BY <1>3, <2>1, <3>1
  <2>2. CASE List!Renders(List!Marked(data, a, state), selected, retained)
    <3> DEFINE pages == List!Marked(data, a, state)
    <3>1. PagesFit(pages, stayed) /\ pages \in Seq(List!Page)
      BY <1>3, MarkedPages DEF PagesFit
    <3> HIDE DEF pages
    <3>2. /\ data' = pages
          /\ retained' \in SUBSET List!Article /\ retained \subseteq retained'
          /\ ~UnreadOnly => retained' = {}
          /\ selected' \in List!Article \cup {0}
      BY <1>3, <2>2, <3>1, RendersFits DEF KeptFits, pages
    <3>3. KeptFits'
      BY <1>1, <1>3, <3>2 DEF KeptFits
    <3> QED BY <3>1, <3>2, <3>3
  <2> QED BY <1>1, <2>1, <2>2
<1>5. ListFits'
  BY <1>1, <1>3, <1>4, RefetchKeeps
<1> QED BY <1>2, <1>4, <1>5 DEF ListInv

LEMMA SilentStepsKeep ==
  ASSUME List!ArticlePagesAssumption, ListInv, List!Silent \/ List!SilentServe \/ List!SilentLand
  PROVE  ListInv'
<1>1. /\ req' = req \/ req' = List!Refetched
      /\ UNCHANGED <<listed, gen, data, selected, retained, stayed, mine, asked>>
  BY DEF List!Silent, List!SilentServe, List!SilentLand, List!history
<1>2. /\ silent \in SilentShape /\ gen \in 0..MaxGen
      /\ KeptFits /\ ListFits /\ PagesFit(data, stayed)
  BY DEF ListInv, ListTypes, ListFits
<1>3. silent' \in SilentShape
  <2>1. CASE List!Silent
    <3>1. data[1] \in List!Page
      <4>1. data \in Seq(List!Page) /\ data # <<>>
        BY <1>2, <2>1 DEF PagesFit, List!Silent
      <4> QED BY <4>1
    <3> QED BY <2>1, <3>1, BlankPage DEF SilentShape, List!Silent, List!NoSilent
  <2>2. CASE List!SilentServe
    <3>1. List!PageAfter(0) \in List!Page
      BY <1>2, PageIs
    <3> QED BY <1>2, <2>2, <3>1 DEF SilentShape, List!SilentServe, List!NoArticle
  <2>3. CASE List!SilentLand
    BY <2>3, BlankPage DEF SilentShape, List!SilentLand, List!NoSilent
  <2> QED BY <2>1, <2>2, <2>3
<1>4. ListTypes'
  BY <1>1, <1>3 DEF ListInv, ListTypes
<1>5. KeptFits'
  BY <1>1, <1>2 DEF KeptFits
<1>6. ListFits'
  <2>1. PagesFit(data', stayed) /\ listed' = listed /\ stayed' = stayed
    BY <1>1, <1>2
  <2> QED BY <1>1, <1>2, <2>1, RefetchKeeps
<1> QED BY <1>4, <1>5, <1>6 DEF ListInv

LEMMA OpenKeeps ==
  ASSUME List!ArticlePagesAssumption, ListInv, NEW a \in List!Article, List!Open(a)
  PROVE  ListInv'
<1>1. /\ List!Renders(data, a, retained)
      /\ UNCHANGED <<listed, gen, req, silent, stayed, mine, asked>>
  BY DEF List!Open, List!history
<1>2. KeptFits /\ ListFits /\ data \in Seq(List!Page)
  BY DEF ListInv, ListFits, PagesFit
<1>3. ListTypes' /\ Viewed' = Viewed
  <2>1. ListTypes'
    BY <1>1 DEF ListInv, ListTypes
  <2> QED BY <1>1, <2>1, ViewStays
<1>4. /\ data' = data
      /\ retained' \in SUBSET List!Article /\ retained \subseteq retained'
      /\ ~UnreadOnly => retained' = {}
      /\ selected' \in List!Article \cup {0}
  BY <1>1, <1>2, RendersFits DEF KeptFits
<1>5. KeptFits'
  BY <1>1, <1>2, <1>4 DEF KeptFits
<1>6. ListFits'
  BY <1>1, <1>2, <1>3, <1>4 DEF ListFits
<1> QED BY <1>3, <1>5, <1>6 DEF ListInv

\* What the user marks, of what is shown: what is read stays.
LEMMA MarksKeep ==
  ASSUME List!ArticlePagesAssumption, ListInv, NEW a \in List!Article,
         NEW state \in {"unread", "read"}, NEW kept \in SUBSET List!Article,
         retained \subseteq kept, ~UnreadOnly => kept = {},
         a \in List!Rows(data) \cup kept, List!Marks(a, state, kept)
  PROVE  ListInv'
<1> DEFINE pages == List!Marked(data, a, state)
<1>1. /\ listed' = [listed EXCEPT ![a] = IF @ = "absent" THEN @ ELSE state]
      /\ req' = List!NoReq /\ List!Renders(pages, a, kept)
      /\ stayed' = List!Still(stayed) /\ asked' = [asked EXCEPT ![a] = state]
      /\ mine' = IF ~UnreadOnly THEN {}
                 ELSE IF state = "read" THEN mine \cup {a} ELSE mine \ {a}
      /\ UNCHANGED <<gen, silent>>
  BY DEF List!Marks
<1>2. KeptFits /\ PagesFit(data, stayed) /\ stayed \in SUBSET List!Article
  BY ViewedIs DEF ListInv, ListFits
<1>3. ListTypes'
  <2>1. ListTypes
    BY DEF ListInv
  <2>2. listed' \in [List!Article -> {"absent", "unread", "read"}]
    BY <1>1, <2>1 DEF ListTypes
  <2>3. asked' \in [List!Article -> {"nothing", "unread", "read"}]
    BY <1>1, <2>1 DEF ListTypes
  <2> QED BY <1>1, <2>1, <2>2, <2>3 DEF ListTypes
<1>4. /\ PagesFit(pages, stayed) /\ pages \in Seq(List!Page)
      /\ state = "read" /\ a \in List!Rows(data) => a \in List!ReadRows(pages)
  BY <1>2, MarkedPages DEF PagesFit
<1> HIDE DEF pages
<1>5. /\ data' = pages
      /\ retained' \in SUBSET List!Article /\ kept \subseteq retained'
      /\ ~UnreadOnly => retained' = {}
      /\ UnreadOnly /\ a \in List!ReadRows(pages) => a \in retained'
      /\ selected' \in List!Article \cup {0}
  BY <1>1, <1>4, RendersFits
<1>6. KeptFits'
  <2>1. UnreadOnly /\ state = "read" => a \in retained'
    BY <1>4, <1>5
  <2>2. mine' \in SUBSET List!Article /\ (UnreadOnly => mine' \subseteq retained')
    BY <1>1, <1>2, <1>5, <2>1 DEF KeptFits
  <2> QED BY <1>5, <2>2 DEF KeptFits
<1>7. stayed' \in SUBSET stayed /\ stayed' \in SUBSET Viewed'
  BY <1>1, <1>2, StillIs
<1>8. PagesFit(data', stayed')
  BY <1>4, <1>5, <1>7, FewerCovered
<1>9. RequestFits(req', stayed') /\ req'.since = {}
  BY <1>1, BlankRequest
<1>10. ListFits'
  BY <1>7, <1>8, <1>9 DEF ListFits
<1> QED BY <1>3, <1>6, <1>10 DEF ListInv

LEMMA ToggleKeeps ==
  ASSUME List!ArticlePagesAssumption, ListInv, List!Toggle
  PROVE  ListInv'
<1>1. KeptFits /\ data \in Seq(List!Page)
  BY DEF ListInv, ListFits, PagesFit
<1>2. selected \in List!Rows(data) \cup retained
  BY DEF List!Toggle, List!Shown
<1>3. selected \in List!Article
  BY <1>1, <1>2, RowsInArticles DEF KeptFits
<1>4. PICK state \in {"unread", "read"} : List!Marks(selected, state, retained)
  BY DEF List!Toggle
<1> QED BY <1>1, <1>2, <1>3, <1>4, MarksKeep DEF KeptFits

LEMMA NavigateKeeps ==
  ASSUME List!ArticlePagesAssumption, ListInv, NEW a \in List!Article, List!Navigate(a)
  PROVE  ListInv'
<1> DEFINE kept == IF UnreadOnly THEN retained \cup {a} ELSE retained
<1>1. KeptFits /\ a \in List!Rows(data) \cup retained /\ List!Marks(a, "read", kept)
  BY DEF ListInv, List!Navigate, List!Shown
<1>2. /\ kept \in SUBSET List!Article /\ retained \subseteq kept
      /\ ~UnreadOnly => kept = {}
      /\ a \in List!Rows(data) \cup kept
  BY <1>1 DEF KeptFits
<1> HIDE DEF kept
<1> QED BY <1>1, <1>2, MarksKeep

LEMMA RefreshKeeps ==
  ASSUME List!ArticlePagesAssumption, ListInv, List!Refresh
  PROVE  ListInv'
<1>1. /\ retained' = {} /\ mine' = {} /\ selected' \in {selected, 0}
      /\ UNCHANGED <<listed, gen, data, req, silent, stayed, asked>>
  BY DEF List!Refresh, List!NoArticle
<1>2. ListTypes' /\ Viewed' = Viewed
  <2>1. ListTypes'
    BY <1>1 DEF ListInv, ListTypes
  <2> QED BY <1>1, <2>1, ViewStays
<1>3. KeptFits'
  BY <1>1 DEF ListInv, KeptFits
<1>4. ListFits'
  BY <1>1, <1>2 DEF ListInv, ListFits
<1> QED BY <1>2, <1>3, <1>4 DEF ListInv

LEMMA MarkAllKeeps ==
  ASSUME List!ArticlePagesAssumption, ListInv, List!MarkAll
  PROVE  ListInv'
<1> DEFINE r == List!Refetched
<1>1. /\ listed' = [a \in List!Article |-> IF listed[a] = "unread" THEN "read" ELSE listed[a]]
      /\ retained' = {} /\ mine' = {} /\ asked' = [a \in List!Article |-> "nothing"]
      /\ selected' \in {selected, 0}
      /\ req' = [r EXCEPT !.since = List!Still(@)] /\ stayed' = List!Still(stayed)
      /\ UNCHANGED <<gen, data, silent>>
  BY DEF List!MarkAll, List!NoArticle
<1>2. /\ RequestFits(r, stayed) /\ PagesFit(data, stayed)
      /\ stayed \in SUBSET List!Article /\ r.since \in SUBSET List!Article
  <2>1. RequestFits(req, stayed) /\ PagesFit(data, stayed) /\ stayed \in SUBSET Viewed
        /\ req.since \in SUBSET Viewed
    BY DEF ListInv, ListFits
  <2>2. RequestFits(r, stayed) /\ (r.since = req.since \/ r.since = {})
    BY <2>1, RefetchedFits
  <2> HIDE DEF r
  <2> QED BY <2>1, <2>2, ViewedIs
<1> HIDE DEF r
<1>3. ListTypes'
  <2>1. ListTypes
    BY DEF ListInv
  <2>2. listed' \in [List!Article -> {"absent", "unread", "read"}]
    BY <1>1, <2>1 DEF ListTypes
  <2>3. asked' \in [List!Article -> {"nothing", "unread", "read"}]
    BY <1>1
  <2> QED BY <1>1, <2>1, <2>2, <2>3 DEF ListTypes
<1>4. KeptFits'
  BY <1>1 DEF ListInv, KeptFits
<1>5. /\ stayed' \in SUBSET stayed /\ stayed' \in SUBSET Viewed'
      /\ List!Still(r.since) \in SUBSET r.since /\ List!Still(r.since) \in SUBSET Viewed'
  BY <1>1, <1>2, StillIs
<1>6. req' = [r EXCEPT !.since = List!Still(r.since)]
  BY <1>1
<1>7. RequestFits(req', stayed') /\ req'.since = List!Still(r.since)
  BY <1>2, <1>5, <1>6, FewerAsked
<1>8. PagesFit(data', stayed')
  BY <1>1, <1>2, <1>5, FewerCovered
<1>9. ListFits'
  BY <1>5, <1>7, <1>8 DEF ListFits
<1> QED BY <1>3, <1>4, <1>9 DEF ListInv

LEMMA ReleaseKeeps ==
  ASSUME List!ArticlePagesAssumption, ListInv, List!Release
  PROVE  ListInv'
<1>1. /\ gen < MaxGen /\ gen' = gen + 1
      /\ UNCHANGED <<listed, data, req, silent, selected, retained, stayed, mine, asked>>
  BY DEF List!Release, List!history
<1>2. ListTypes' /\ Viewed' = Viewed
  <2>1. ListTypes
    BY DEF ListInv
  <2>2. gen' \in 0..MaxGen
    BY <1>1, <2>1, ListConstants DEF ListTypes
  <2>3. ListTypes'
    BY <1>1, <2>1, <2>2 DEF ListTypes
  <2> QED BY <1>1, <2>3, ViewStays
<1>3. KeptFits'
  BY <1>1 DEF ListInv, KeptFits
<1>4. ListFits'
  BY <1>1, <1>2 DEF ListInv, ListFits
<1> QED BY <1>2, <1>3, <1>4 DEF ListInv

LEMMA ListStutters ==
  ASSUME ListInv, UNCHANGED List!vars
  PROVE  ListInv'
<1>1. UNCHANGED <<listed, gen, data, req, silent, selected, retained, stayed, mine, asked>>
  BY DEF List!vars
<1>2. ListTypes' /\ Viewed' = Viewed
  <2>1. ListTypes'
    BY <1>1 DEF ListInv, ListTypes
  <2> QED BY <1>1, <2>1, ViewStays
<1>3. KeptFits'
  BY <1>1 DEF ListInv, KeptFits
<1>4. ListFits'
  BY <1>1, <1>2 DEF ListInv, ListFits
<1> QED BY <1>2, <1>3, <1>4 DEF ListInv

LEMMA ListStep ==
  ASSUME List!ArticlePagesAssumption, ListInv, [List!Next]_(List!vars)
  PROVE  ListInv'
<1>1. ASSUME NEW a \in List!Article,
             List!Publish(a) \/ List!Remove(a) \/ List!MarkElsewhere(a)
      PROVE  ListInv'
  <2>1. PICK state \in {"absent", "unread", "read"} : \E told : List!Changed(a, state, told)
    BY <1>1 DEF List!Publish, List!Remove, List!MarkElsewhere
  <2>2. PICK told : List!Changed(a, state, told)
    BY <2>1
  <2> QED BY <2>2, ChangedKeeps
<1>2. ASSUME NEW a \in List!Article, List!Open(a) \/ List!Navigate(a)
      PROVE  ListInv'
  BY <1>2, OpenKeeps, NavigateKeeps
<1>3. CASE List!LoadMore \/ List!Serve \/ List!Land \/ List!Refused \/ List!Hear
  BY <1>3, LoadMoreKeeps, ServeKeeps, LandKeeps, RefusedKeeps, HearKeeps
<1>4. CASE List!Silent \/ List!SilentServe \/ List!SilentLand
  BY <1>4, SilentStepsKeep
<1>5. CASE List!Toggle \/ List!Refresh \/ List!MarkAll \/ List!Release
  BY <1>5, ToggleKeeps, RefreshKeeps, MarkAllKeeps, ReleaseKeeps
<1>6. CASE UNCHANGED List!vars
  BY <1>6, ListStutters
<1> QED BY <1>1, <1>2, <1>3, <1>4, <1>5, <1>6 DEF List!Next

LEMMA ListIsTyped ==
  ASSUME ListInv
  PROVE  List!TypeOK
<1>1. ListTypes /\ KeptFits /\ ListFits
  BY DEF ListInv
<1>2. ASSUME NEW i \in 1..Len(data)
      PROVE  data[i] \in List!Page /\ (data[i].next = 0 => i = Len(data))
  <2>1. data \in Seq(List!Page) /\ PagesOrdered(data) /\ Len(data) \in Nat
    BY <1>1 DEF ListFits, PagesFit
  <2>2. i < Len(data) \/ i = Len(data)
    BY <2>1
  <2>3. i < Len(data) => data[i].next # 0
    BY <2>1 DEF PagesOrdered
  <2> QED BY <2>1, <2>2, <2>3
<1>3. /\ req.kind \in {"none", "next", "all"} /\ req.is \in {"idle", "sent", "answered", "refused"}
      /\ silent.is \in {"idle", "sent", "answered", "rests"}
  BY <1>1 DEF ListFits, RequestFits, RequestShape, ListTypes, SilentShape
<1> QED BY <1>1, <1>2, <1>3 DEF List!TypeOK, List!NoArticle, ListTypes, KeptFits

LEMMA ListIsWhole ==
  ASSUME List!ArticlePagesAssumption, ListInv
  PROVE  List!NoGap /\ List!NoRepeat /\ List!ReadHereStays
<1>1. PagesFit(data, stayed) /\ KeptFits
  BY DEF ListInv, ListFits
<1>2. List!NoGap
  BY <1>1 DEF PagesFit, PagesCover, List!NoGap, List!NoArticle
<1>3. List!NoRepeat
  <2> SUFFICES ASSUME NEW i \in 1..Len(data), NEW j \in 1..Len(data), i < j,
                      NEW a \in data[i].rows, a \in data[j].rows
               PROVE  FALSE
    <3>1. \A i, j \in 1..Len(data) : i # j => i < j \/ j < i
      OBVIOUS
    <3> QED BY <3>1 DEF List!NoRepeat
  <2>1. data \in Seq(List!Page) /\ PagesOrdered(data)
    BY <1>1 DEF PagesFit
  <2>2. data[i].next # 0 /\ data[i].next < a /\ a <= data[i].next
    BY <2>1 DEF PagesOrdered
  <2>3. a \in Int /\ data[i].next \in Int
    <3>1. a \in List!Article /\ data[i].next \in List!Article \cup {0}
      BY <2>1, PageOf
    <3> QED BY <3>1 DEF List!Article
  <2> QED BY <2>2, <2>3
<1>4. List!ReadHereStays
  BY <1>1 DEF KeptFits, List!ReadHereStays, List!Shown
<1> QED BY <1>2, <1>3, <1>4

\* A list of any length keeps its types, whatever the order of answers, events
\* and marks (useInfiniteArticles and useMarkRead): no page but the last is
\* without a cursor, and only the unread view retains.
THEOREM PagesTypes ==
  ASSUME List!ArticlePagesAssumption
  PROVE  List!Spec => []List!TypeOK
<1>1. List!Init => ListInv
  BY ListInit
<1>2. ListInv /\ [List!Next]_(List!vars) => ListInv'
  BY ListStep
<1>3. ListInv => List!TypeOK
  BY ListIsTyped
<1> QED BY <1>1, <1>2, <1>3, PTL DEF List!Spec

\* No article that has been in the view since the first page was read is missing
\* between the pages, none is in two of them, and what was read while it was
\* open stays in the unread view: for any number of articles, pages of any size,
\* and any order of answers, silent refreshes, events, releases and marks.
THEOREM PagesAreWhole ==
  ASSUME List!ArticlePagesAssumption
  PROVE  List!Spec => [](List!NoGap /\ List!NoRepeat /\ List!ReadHereStays)
<1>1. List!Init => ListInv
  BY ListInit
<1>2. ListInv /\ [List!Next]_(List!vars) => ListInv'
  BY ListStep
<1>3. ListInv => List!NoGap /\ List!NoRepeat /\ List!ReadHereStays
  BY ListIsWhole
<1> QED BY <1>1, <1>2, <1>3, PTL DEF List!Spec
=============================================================================
