--------------------------- MODULE CategoryOrder ---------------------------
(***************************************************************************)
(* The order of sibling categories: the sidebar computes it from its copy  *)
(* of the tree (web components/layout/sidebar-reorder.ts, sidebar.tsx,     *)
(* sidebar-tree.tsx) and sends the rows that change, and the server writes *)
(* them into its own (category.service.ts, category.repository.ts).        *)
(***************************************************************************)
EXTENDS Naturals, FiniteSets, Sequences, SequencesExt

CONSTANTS
  N,        \* how many categories: they are numbered by name
  Parent,   \* the places where siblings are
  Client,   \* sidebars
  MaxSort   \* the orders that clients other than a sidebar give

OrderAssumption == N \in Nat \ {0} /\ MaxSort \in Nat /\ Parent # {}

Category == 1..N
AtEnd == 0   \* dropped on no row
Sorts == 0..(IF MaxSort < N THEN N - 1 ELSE MaxSort)

VARIABLES
  parent,  \* category |-> where it is
  sort,    \* category |-> its sortOrder
  view,    \* client |-> its copy of both
  sent     \* client |-> the request under way, and the copy it was made from

vars == <<parent, sort, view, sent>>

NoRequest == [by |-> "none", moved |-> AtEnd, on |-> AtEnd, place |-> 0, checked |-> FALSE,
              rows |-> {}, from |-> <<>>]

TypeOK ==
  /\ parent \in [Category -> Parent] /\ sort \in [Category -> Sorts]
  /\ view \in [Client -> [parent : [Category -> Parent], sort : [Category -> Sorts]]]
  /\ \A k \in Client :
       /\ sent[k].by \in {"none", "menu", "drop"} /\ sent[k].moved \in Category \cup {AtEnd}
       /\ sent[k].rows \in SUBSET (Category \X Sorts) /\ sent[k].place \in 0..N

Here == [parent |-> parent, sort |-> sort]

Init ==
  /\ parent \in [Category -> Parent] /\ sort \in [Category -> 0..MaxSort]
  /\ view = [k \in Client |-> Here] /\ sent = [k \in Client |-> NoRequest]

\* findAllByUser: siblings by order, and by name where that is the same.
Listed(v, p) ==
  SetToSortSeq({c \in Category : v.parent[c] = p},
               LAMBDA c, d : v.sort[c] < v.sort[d] \/ (v.sort[c] = v.sort[d] /\ c < d))

At(s, c) == IF \E i \in DOMAIN s : s[i] = c THEN CHOOSE i \in DOMAIN s : s[i] = c ELSE 0

\* Mutant of Spot: a row that is moved down by one stays where it is.
SpotShort(s, c, target) ==
  LET rest == Remove(s, c)
      i == At(rest, target)
  IN IF target = AtEnd THEN Len(rest) + 1
     ELSE IF At(s, c) <= i THEN i ELSE i + 1

\* insertAt: behind the target, or in front of it when the row that moves
\* was above and does not come to lie there by itself.
Spot(s, c, target) ==
  LET rest == Remove(s, c)
      i == At(rest, target)
  IN IF target = AtEnd THEN Len(rest) + 1
     ELSE IF At(s, c) < i THEN i ELSE i + 1

Reordered(s, c, target) == InsertAt(Remove(s, c), Spot(s, c, target), c)

\* Mutant of Number: rows are numbered from one.
NumberFromOne(i) == i

Number(i) == i - 1

Changed(v, s, i, c) == s[i] # c \/ v.sort[c] # Number(i)

\* computeCategoryReorderUpdates, of a row and a target that are siblings.
Rows(v, c, target) ==
  LET s == Listed(v, v.parent[c])
      t == Reordered(s, c, target)
  IN {<<t[i], Number(i)>> : i \in {j \in DOMAIN t : Changed(v, s, j, t[j])}}

\* The place, from 1, that the sidebar announces for the row it moved.
Announced(v, by, c, target) ==
  LET s == Listed(v, v.parent[c])
      i == At(s, c)  j == At(s, target)
  IN IF by = "drop" /\ i >= j THEN j + 1 ELSE j

\* A row is dropped on another, or the menu moves it one down, or one up by
\* moving the row above it down.
Ask(k, by, c, target) ==
  LET rows == Rows(view[k], c, target) IN
  /\ sent[k].by = "none" /\ view[k].parent[c] = view[k].parent[target] /\ c # target
  /\ by = "menu" => At(Listed(view[k], view[k].parent[c]), target)
                      = At(Listed(view[k], view[k].parent[c]), c) + 1
  /\ rows # {}
  /\ sent' = [sent EXCEPT ![k] = [by |-> by, moved |-> c, on |-> target, checked |-> FALSE,
                                  place |-> Announced(view[k], by, c, target), rows |-> rows,
                                  from |-> view[k]]]
  /\ UNCHANGED <<parent, sort, view>>

Sent(k) == {row[1] : row \in sent[k].rows}

\* reorder: the rows have one parent, or the request is refused.
Check(k) ==
  /\ sent[k].by # "none" /\ ~sent[k].checked
  /\ sent' = [sent EXCEPT ![k] = IF \A c, d \in Sent(k) : parent[c] = parent[d]
                                 THEN [@ EXCEPT !.checked = TRUE] ELSE NoRequest]
  /\ UNCHANGED <<parent, sort, view>>

\* updateSortOrders: one statement.
Apply(k) ==
  /\ sent[k].checked
  /\ sort' = [c \in Category |-> IF c \in Sent(k) THEN (CHOOSE row \in sent[k].rows : row[1] = c)[2]
                                 ELSE sort[c]]
  /\ sent' = [sent EXCEPT ![k] = NoRequest] /\ UNCHANGED <<parent, view>>

\* The tree is polled, and asked for after a change.
Refetch(k) == view' = [view EXCEPT ![k] = Here] /\ UNCHANGED <<parent, sort, sent>>

\* Another client moves a category, and may give it an order.
Update(c, p, n) ==
  /\ parent' = [parent EXCEPT ![c] = p] /\ sort' = [sort EXCEPT ![c] = n]
  /\ UNCHANGED <<view, sent>>

Next ==
  \/ \E k \in Client :
       \/ \E by \in {"menu", "drop"}, c, d \in Category : Ask(k, by, c, d)
       \/ Check(k) \/ Apply(k) \/ Refetch(k)
  \/ \E c \in Category, p \in Parent, n \in 0..MaxSort : Update(c, p, n)

Spec == Init /\ [][Next]_vars

-----------------------------------------------------------------------------
\* What a step of the server makes of the siblings of what was moved.
After(k) == Listed([parent |-> parent', sort |-> sort'], parent[sent[k].moved])

\* ("from" is the copy that a request was worked out on, kept to say this.)
\* A client whose copy was true gets what its sidebar worked out: rows that
\* were not sent are in their places, also where orders had gaps or ties.
AsComputed ==
  \A k \in Client :
   sent[k].checked /\ ~sent'[k].checked /\ sent[k].from = Here =>
     After(k) = Reordered(Listed(Here, parent[sent[k].moved]), sent[k].moved, sent[k].on)

\* The menu's moves end at the place that is announced to the user.
MenuTells ==
  \A k \in Client :
   sent[k].checked /\ ~sent'[k].checked /\ sent[k].from = Here /\ sent[k].by = "menu" =>
     At(After(k), sent[k].moved) = sent[k].place

\* A row that is dropped on another ends behind it.
DropsBelow ==
  \A k \in Client :
   sent[k].checked /\ ~sent'[k].checked /\ sent[k].from = Here /\ sent[k].by = "drop" =>
     At(After(k), sent[k].moved) = At(After(k), sent[k].on) + 1
=============================================================================
