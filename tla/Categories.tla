----------------------------- MODULE Categories -----------------------------
(***************************************************************************)
(* A user's tree of categories and the feeds in it                         *)
(* (services/category.service.ts, category.repository.ts, the category of  *)
(* feed.service.ts, opml-import.service.ts), under concurrent requests,    *)
(* each of which reads, checks and then writes.  Reads that only follow    *)
(* one another are one step.                                               *)
(*                                                                         *)
(* Foreign keys hold on to the parent of a category, and take the feeds of *)
(* a deleted category with it; indexes keep siblings' slugs apart, not     *)
(* their names, which are only looked at before a write.  Names that       *)
(* differ in case alone are one name here.                                 *)
(***************************************************************************)
EXTENDS Naturals, Sequences

CONSTANTS
  Category, Feed, Name, Slug, Request,
  Slugs,   \* name |-> the slugs made of it, in the order they are tried: foo, foo-2, foo-3
  Root,    \* the parent of the categories at the top
  None,    \* no category: an identifier not yet, or no longer, in use
  Kinds    \* the requests made: a subset of AllKinds

AllKinds == {"create", "update", "delete", "place", "unsubscribe", "import"}

CategoriesAssumption ==
  /\ {Root, None} \cap Category = {} /\ Root # None /\ Name # {}
  /\ Kinds \subseteq AllKinds
  /\ None \notin Slug /\ Slugs \in [Name -> Seq(Slug)]
  /\ \A n \in Name : Len(Slugs[n]) > 0

VARIABLES
  parent,  \* category |-> its parent, None when there is no such row
  name,    \* category |-> its name
  slug,    \* category |-> its slug, None when there is no such row
  home,    \* feed |-> its category, None when there is no subscription
  used,    \* identifiers that were given out
  req,     \* what each request is at, and what it has read
  under    \* history: what others wrote under a request, since its first check

vars == <<parent, name, slug, home, used, req, under>>
tree == <<parent, name, slug, home, used>>

AnyName == CHOOSE n \in Name : TRUE
Idle == [kind |-> "none", step |-> "idle", cat |-> None, to |-> Root, name |-> AnyName,
         slug |-> None, feed |-> {}, path |-> <<>>, made |-> <<>>]
Writes == {"move", "name", "place"}

TypeOK ==
  /\ parent \in [Category -> Category \cup {Root, None}]
  /\ name \in [Category -> Name] /\ slug \in [Category -> Slug \cup {None}]
  /\ home \in [Feed -> Category \cup {None}]
  /\ used \subseteq Category /\ {c \in Category : parent[c] # None} \subseteq used
  /\ req \in [Request -> [kind : Kinds \cup {"none"},
                          step : {"idle", "asked", "checked", "apart", "counted", "made", "undo"},
                          cat : Category \cup {None}, to : Category \cup {Root, None},
                          name : Name, slug : Slug \cup {None}, feed : SUBSET Feed,
                          path : {<<>>} \cup Name \X Name,
                          made : {<<>>} \cup {<<c>> : c \in Category} \cup Category \X Category]]
  /\ under \in [Request -> SUBSET Writes]

Init ==
  /\ parent = [c \in Category |-> None] /\ name = [c \in Category |-> AnyName]
  /\ slug = [c \in Category |-> None] /\ home = [f \in Feed |-> None] /\ used = {}
  /\ req = [r \in Request |-> Idle] /\ under = [r \in Request |-> {}]

Exists(c) == c \in Category /\ parent[c] # None
IsParent(p) == p = Root \/ Exists(p)
Siblings(p, but) == {c \in Category \ {but} : parent[c] = p}

\* Mutant of NameTaken: a name is known by its slug.
NameTakenBySlug(p, n, but) == \E c \in Siblings(p, but) : slug[c] = Slugs[n][1]

NameTaken(p, n, but) == \E c \in Siblings(p, but) : name[c] = n
SlugTaken(p, s, but) == \E c \in Siblings(p, but) : slug[c] = s

\* uniqueCategorySlug: the first of a name's slugs that siblings do not have.
UniqueSlug(s, n, siblings) ==
  LET taken == {slug[c] : c \in siblings} IN
  /\ s \notin taken
  /\ \E k \in DOMAIN Slugs[n] : s = Slugs[n][k] /\ \A j \in 1..(k - 1) : Slugs[n][j] \in taken

Children(c) == {d \in Category : parent[d] = c}
Fresh(c) == c \notin used

Asked(kind, c, to, n, fs, path) ==
  [kind |-> kind, step |-> "asked", cat |-> c, to |-> to, name |-> n, slug |-> None,
   feed |-> fs, path |-> path, made |-> <<>>]

Submit(r, request) ==
  /\ req[r].kind = "none" /\ request.kind \in Kinds
  /\ req' = [req EXCEPT ![r] = request]
  /\ UNCHANGED tree

Is(r, kind, step) == req[r].kind = kind /\ req[r].step = step
Goes(r, step) == req' = [req EXCEPT ![r].step = step] /\ UNCHANGED tree
Ends(r) == req' = [req EXCEPT ![r] = Idle]
Refused(r) == Ends(r) /\ UNCHANGED tree

(***************************************************************************)
(* create: the parent, the siblings, the insert.                           *)
(***************************************************************************)
CheckCreate(r) ==
  /\ Is(r, "create", "asked")
  /\ IF IsParent(req[r].to) THEN Goes(r, "checked") ELSE Refused(r)

\* uniqueSlugForParent, also of an update: the name is not a sibling's, and
\* gets the first slug that none of them has.
CheckName(r) ==
  LET p == req[r].to  n == req[r].name  c == req[r].cat IN
  /\ req[r].kind \in {"create", "update"} /\ req[r].step = "checked"
  /\ IF NameTaken(p, n, c) THEN Refused(r)
     ELSE /\ UNCHANGED tree
          /\ \E s \in Slug : /\ UniqueSlug(s, n, Siblings(p, c))
                            /\ req' = [req EXCEPT ![r].step = "apart", ![r].slug = s]

\* The row is refused when the parent is gone or the slug is taken.
Insert(r, c) ==
  LET p == req[r].to  s == req[r].slug IN
  /\ Is(r, "create", "apart") /\ Ends(r)
  /\ \/ /\ Fresh(c) /\ IsParent(p) /\ ~SlugTaken(p, s, None)
        /\ parent' = [parent EXCEPT ![c] = p]
        /\ name' = [name EXCEPT ![c] = req[r].name] /\ slug' = [slug EXCEPT ![c] = s]
        /\ used' = used \cup {c}
        /\ UNCHANGED home
     \/ /\ ~IsParent(p) \/ SlugTaken(p, s, None)
        /\ UNCHANGED tree

(***************************************************************************)
(* update: a category gets a name and a parent, as the dialog sends both.  *)
(***************************************************************************)
\* Mutant of Above: only the parent is looked at.
AboveParent(c) == {parent[c]}

\* isDescendant: the categories on the way up from c, which stops where it
\* meets one a second time; those of every set that goes on upwards.
Above(c) ==
  {p \in Category \cup {Root} : \A S \in SUBSET (Category \cup {Root, None}) :
     parent[c] \in S /\ (\A d \in S \cap Category : parent[d] \in S) => p \in S}

CheckUpdate(r) ==
  LET c == req[r].cat  to == req[r].to IN
  /\ Is(r, "update", "asked")
  /\ IF Exists(c) /\ to # c /\ IsParent(to) /\ (to # Root => c \notin Above(to))
     THEN Goes(r, "checked") ELSE Refused(r)

Update(r) ==
  LET c == req[r].cat  to == req[r].to  s == req[r].slug IN
  /\ Is(r, "update", "apart") /\ Ends(r) /\ UNCHANGED <<home, used>>
  /\ \/ /\ Exists(c) /\ IsParent(to) /\ ~SlugTaken(to, s, c)
        /\ parent' = [parent EXCEPT ![c] = to] /\ name' = [name EXCEPT ![c] = req[r].name]
        /\ slug' = [slug EXCEPT ![c] = s]
     \/ /\ ~Exists(c) \/ ~IsParent(to) \/ SlugTaken(to, s, c)
        /\ UNCHANGED <<parent, name, slug>>

(***************************************************************************)
(* delete: feeds are counted, then children, and then the row goes.        *)
(***************************************************************************)
\* Mutant of FeedsIn: the feeds of subcategories are counted instead.
FeedsBelow(c) == {f \in Feed : home[f] \in Children(c)}

FeedsIn(c) == {f \in Feed : home[f] = c}

CheckDelete(r) ==
  /\ Is(r, "delete", "asked")
  /\ IF Exists(req[r].cat) /\ FeedsIn(req[r].cat) = {} THEN Goes(r, "counted") ELSE Refused(r)

CountChildren(r) ==
  /\ Is(r, "delete", "counted")
  /\ IF Children(req[r].cat) = {} THEN Goes(r, "checked") ELSE Refused(r)

\* Mutant of MayRemove: the key to the parent does not restrict.
MayRemoveAny(c) == TRUE

MayRemove(c) == Children(c) = {}

Left(c) == [f \in Feed |-> IF home[f] = c THEN None ELSE home[f]]

\* The foreign keys: restrict for children, cascade for feeds.
Remove(c) ==
  IF Exists(c) /\ MayRemove(c)
  THEN /\ parent' = [parent EXCEPT ![c] = None]
       /\ name' = [name EXCEPT ![c] = AnyName] /\ slug' = [slug EXCEPT ![c] = None]
       /\ home' = Left(c)
       /\ UNCHANGED used
  ELSE UNCHANGED tree

Delete(r) == Is(r, "delete", "checked") /\ Ends(r) /\ Remove(req[r].cat)

(***************************************************************************)
(* A feed is added to a category or moved there, or removed.               *)
(***************************************************************************)
CheckPlace(r) ==
  /\ Is(r, "place", "asked")
  /\ IF Exists(req[r].cat) THEN Goes(r, "checked") ELSE Refused(r)

Place(r) ==
  /\ Is(r, "place", "checked") /\ Ends(r) /\ UNCHANGED <<parent, name, slug, used>>
  /\ home' = IF Exists(req[r].cat)
             THEN [f \in Feed |-> IF f \in req[r].feed THEN req[r].cat ELSE home[f]] ELSE home

Unsubscribe(r) ==
  /\ Is(r, "unsubscribe", "asked") /\ Ends(r) /\ UNCHANGED <<parent, name, slug, used>>
  /\ home' = [f \in Feed |-> IF f \in req[r].feed THEN None ELSE home[f]]

(***************************************************************************)
(* import: the categories on the path of a feed are looked up by name, the *)
(* missing ones are inserted, then the feed, and if that fails they are    *)
(* deleted one by one.                                                     *)
(***************************************************************************)
Named(p, n) == {c \in Category : parent[c] = p /\ name[c] = n}

\* The tree is read, and in the same request the plan is made: what exists
\* of the path, and what is to be created, with which slug; below a category
\* to be created, no slug is taken.  The feed must be new.
Plan(r) ==
  LET top == Named(Root, req[r].path[1])
      Missing(p, n) == \E s \in Slug :
        /\ UniqueSlug(s, n, Siblings(p, None))
        /\ req' = [req EXCEPT ![r].step = "checked", ![r].to = p, ![r].slug = s]
  IN
  /\ Is(r, "import", "asked") /\ UNCHANGED tree
  /\ IF \E f \in req[r].feed : home[f] # None THEN Ends(r)
     ELSE \/ \E c \in top, d \in Category :
               d \in Named(c, req[r].path[2])
               /\ req' = [req EXCEPT ![r].step = "made", ![r].cat = d]
          \/ \E c \in top : Named(c, req[r].path[2]) = {} /\ Missing(c, req[r].path[2])
          \/ top = {} /\ Missing(Root, req[r].path[1])

\* createManyInTransaction: all of the missing categories, or none.
InsertMany(r, c, d) ==
  LET to == req[r].to
      s == req[r].slug
      n == req[r].path[2]
      both == to = Root
  IN
  /\ Is(r, "import", "checked") /\ UNCHANGED home
  /\ IF IsParent(to) /\ ~SlugTaken(to, s, None)
     THEN /\ Fresh(c) /\ Fresh(d) /\ (c = d) = ~both
          /\ parent' = IF both THEN [parent EXCEPT ![c] = Root, ![d] = c]
                       ELSE [parent EXCEPT ![c] = to]
          /\ name' = IF both THEN [name EXCEPT ![c] = req[r].path[1], ![d] = n]
                     ELSE [name EXCEPT ![c] = n]
          /\ slug' = IF both THEN [slug EXCEPT ![c] = s, ![d] = Slugs[n][1]]
                     ELSE [slug EXCEPT ![c] = s]
          /\ used' = used \cup {c, d}
          /\ req' = [req EXCEPT ![r].step = "made", ![r].cat = d,
                               ![r].made = IF both THEN <<d, c>> ELSE <<c>>]
     ELSE Ends(r) /\ UNCHANGED <<parent, name, slug, used>>

\* createMany fails when the feed or its category is no longer what it was.
InsertFeed(r) ==
  LET ok == Exists(req[r].cat) /\ \A f \in req[r].feed : home[f] = None IN
  /\ Is(r, "import", "made") /\ UNCHANGED <<parent, name, slug, used>>
  /\ IF ok THEN /\ home' = [f \in Feed |-> IF f \in req[r].feed THEN req[r].cat ELSE home[f]]
                /\ Ends(r)
     ELSE /\ req' = [req EXCEPT ![r].step = "undo"] /\ UNCHANGED home

\* rollbackCreatedCategories: in reverse order; a delete that fails is noted.
Undo(r) ==
  LET made == req[r].made IN
  /\ Is(r, "import", "undo")
  /\ \/ made = <<>> /\ Refused(r)
     \/ /\ made # <<>> /\ Remove(made[1])
        /\ req' = [req EXCEPT ![r].made =
                         IF made \in Category \X Category THEN <<made[2]>> ELSE <<>>]

Requests ==
       {Asked("create", None, p, n, {}, <<>>) : p \in Category \cup {Root}, n \in Name}
  \cup {Asked("update", c, p, n, {}, <<>>) : c \in Category, p \in Category \cup {Root}, n \in Name}
  \cup {Asked("delete", c, Root, AnyName, {}, <<>>) : c \in Category}
  \cup {Asked("place", c, Root, AnyName, {f}, <<>>) : c \in Category, f \in Feed}
  \cup {Asked("unsubscribe", None, Root, AnyName, {f}, <<>>) : f \in Feed}
  \cup {Asked("import", None, Root, AnyName, {f}, p) : f \in Feed, p \in Name \X Name}

\* What a step writes that another request may have read: where a category
\* that is there belongs, what a parent has below it, where a feed is.
Written ==
  {w \in Writes :
     \/ w = "move" /\ \E c \in Category : Exists(c) /\ parent'[c] \notin {None, parent[c]}
     \/ w = "name" /\ \E c \in Category :
                        parent'[c] # None /\ (parent'[c] # parent[c] \/ name'[c] # name[c])
     \/ w = "place" /\ \E f \in Feed : home'[f] \notin {None, home[f]}}

Step(r) ==
  \/ \E request \in Requests : Submit(r, request)
  \/ CheckCreate(r) \/ CheckName(r) \/ \E c \in Category : Insert(r, c)
  \/ CheckUpdate(r) \/ Update(r)
  \/ CheckDelete(r) \/ CountChildren(r) \/ Delete(r)
  \/ CheckPlace(r) \/ Place(r) \/ Unsubscribe(r)
  \/ Plan(r) \/ \E c, d \in Category : InsertMany(r, c, d)
  \/ InsertFeed(r) \/ Undo(r)

Next == \E r \in Request :
  /\ Step(r)
  /\ under' = [q \in Request |->
                IF req'[q].step \in {"idle", "asked"} THEN {}
                ELSE under[q] \cup IF q = r THEN {} ELSE Written]

Spec == Init /\ [][Next]_vars

-----------------------------------------------------------------------------
\* What buildCategoryTree and the OPML export reach from the top.
Shown ==
  {c \in Category : \A S \in SUBSET Category :
     (\A d \in Category : parent[d] \in S \cup {Root} => d \in S) => c \in S}

\* Nothing disappears from the tree and from exports: no category is among
\* its own ancestors, and none hangs below one that is gone.
AllShown == \A c \in Category : Exists(c) => c \in Shown

\* uniqueSlugForParent promises that siblings differ by name.
NamesApart ==
  \A c, d \in Category : c # d /\ Exists(c) /\ parent[c] = parent[d] => name[c] # name[d]

\* What the keys promise whatever the requests do: a category's parent is
\* there, as is the category of a feed, and siblings differ by slug.
KeysHold ==
  /\ \A c \in Category : Exists(c) => IsParent(parent[c])
  /\ \A f \in Feed : home[f] # None => Exists(home[f])
  /\ \A c, d \in Category : c # d /\ Exists(c) /\ parent[c] = parent[d] => slug[c] # slug[d]

\* The request that writes had been overtaken: since its first check, another
\* has written what it relies on.
Overtaken(kinds, w) ==
  \E r \in Request : req'[r] # req[r] /\ req[r].kind \in kinds /\ w \in under[r]

\* The tree is lost from sight only by a move that another move overtook.
ShownKept == AllShown => AllShown' \/ Overtaken({"update"}, "move")

\* Siblings get one name only by a write that another one overtook.
NamesKept == NamesApart => NamesApart' \/ Overtaken({"create", "update", "import"}, "name")

\* A feed goes only when its user says so.
FeedsStay ==
  \A f \in Feed : home[f] # None /\ home'[f] = None =>
    \E r \in Request : Unsubscribe(r) /\ f \in req[r].feed

\* A feed goes with a category only when a feed was placed since its feeds were
\* counted, or since the import began that made it.
FeedsKept == FeedsStay \/ Overtaken({"delete", "import"}, "place")

\* What a request does to the tree that no other has overtaken is right, and
\* what the keys promise holds whatever the requests do.
TreeKept == KeysHold' /\ ShownKept /\ NamesKept /\ FeedsKept
=============================================================================
