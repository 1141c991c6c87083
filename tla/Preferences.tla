---------------------------- MODULE Preferences -----------------------------
(***************************************************************************)
(* The preferences of a user between a browser and the server: the save    *)
(* queue of the panel (hooks/queries/preferences-hooks.ts and              *)
(* components/preferences), the buttons that save without it (the theme of *)
(* the top bar, the toggles of the feed view), and the PATCH route, whose  *)
(* upsert is atomic since every account has a row from its registration.   *)
(*                                                                         *)
(* A PATCH is sent, written by the server and answered; the browser may    *)
(* have given it up by then (its timeout, a lost answer), and the server   *)
(* may still write it.  Commit is the effect of a render: nothing else     *)
(* happens between a change of the query's data and it.                    *)
(***************************************************************************)
EXTENDS Naturals

CONSTANTS
  Last,      \* the values a browser offers of a preference: 0..Last
  Calls,     \* bound: calls at a time
  MaxEdits,  \* bound: values the user chooses
  MaxFaults, \* bound: calls given up or refused
  Others,    \* whether other devices save as well
  Buttons,   \* the preferences with a button of their own outside the panel
  None

PreferencesAssumption ==
  /\ {Last, Calls} \subseteq Nat \ {0} /\ {MaxEdits, MaxFaults} \subseteq Nat
  /\ Others \in BOOLEAN /\ Buttons \subseteq {"theme", "view"}

Key == {"theme", "view"}
Offered == 0..Last
Amoled == Last + 1          \* the theme that only the Android client offers
Preference == {p \in [Key -> 0..Last + 1] : p["view"] \in Offered}
NoEdits == [k \in {} |-> 0]
Patch == UNION {[S -> Offered] : S \in SUBSET Key}
Call == 1..Calls

VARIABLES
  server,  \* the row in user_preferences
  cache,   \* the query's data
  seen,    \* the data that the effect of the panel has last run on
  get,     \* the GET under way, and its answer
  call,    \* the PATCHes: where they are, what they save, the cache before them, their answer
  theme,   \* the theme the page is drawn in
  isOpen, draft, ack, pending, phase, closing, \* the panel's save queue
  wanted,  \* history: what the user has chosen in the panel and was neither saved nor reverted
  edits, faults

\* { ...base, ...patch }, and { [k]: v }
Over(patch, base) == [k \in DOMAIN patch \cup DOMAIN base |->
                        IF k \in DOMAIN patch THEN patch[k] ELSE base[k]]
Only(k, v) == [x \in {k} |-> v]

browser == <<cache, seen, get, call, theme, isOpen, draft, ack, pending, phase, closing, wanted>>
panel == <<isOpen, draft, ack, pending, phase, closing, wanted>>
vars == <<server, browser, edits, faults>>

NoGet == [at |-> "none", ans |-> None]
NoCall == [at |-> "none", patch |-> NoEdits, prev |-> None, ans |-> None, queued |-> FALSE]
Defaults == [k \in Key |-> 0]

\* normalizeThemePreference
Normal(p) == [p EXCEPT !["theme"] = IF @ = Amoled THEN 0 ELSE @]

TypeOK ==
  /\ server \in Preference /\ cache \in Preference /\ seen \in Preference
  /\ get.at \in {"none", "asked", "read"} /\ get.ans \in Preference \cup {None}
  /\ \A i \in Call : /\ call[i].at \in {"none", "sent", "written", "late"}
                     /\ call[i].patch \in Patch /\ call[i].queued \in BOOLEAN
  /\ theme \in Offered /\ draft \in [Key -> Offered] /\ ack \in [Key -> Offered]
  /\ pending \in Patch /\ wanted \in Patch /\ {isOpen, closing} \subseteq BOOLEAN
  /\ phase \in {"clean", "debounced", "saving", "failed"}

Init ==
  /\ server = Defaults /\ cache = Defaults /\ seen = Defaults /\ get = NoGet
  /\ call = [i \in Call |-> NoCall] /\ theme = 0 /\ isOpen = FALSE /\ draft = Defaults
  /\ ack = Defaults /\ pending = NoEdits /\ phase = "clean" /\ closing = FALSE
  /\ wanted = NoEdits /\ edits = 0 /\ faults = 0

(***************************************************************************)
(* The mutation and the query.                                             *)
(***************************************************************************)
Quiet == seen = cache
Free == {i \in Call : call[i].at = "none"}
Waiting(i) == call[i].at \in {"sent", "written"}   \* the browser waits for it

\* mutationFn and onMutate over the data base and the calls calls.
Mutate(calls, base, patch, queued) ==
  LET i == CHOOSE j \in Call : calls[j].at = "none"
  IN /\ call' = [calls EXCEPT ![i] = [at |-> "sent", patch |-> patch, prev |-> base,
                                      ans |-> None, queued |-> queued]]
     /\ cache' = Over(patch, base) /\ get' = NoGet

Saving == phase = "saving"

Follows == pending = NoEdits /\ ~Saving /\ phase # "failed"

Commit ==
  /\ ~Quiet /\ seen' = cache
  /\ ack' = IF Follows THEN Normal(cache) ELSE ack
  /\ draft' = IF Follows THEN Normal(cache) ELSE draft
  /\ UNCHANGED <<server, cache, get, call, theme, isOpen, pending, phase, closing, wanted, edits,
                 faults>>

\* A component that shows preferences is mounted, and the data is a minute old.
Refetch ==
  /\ Quiet /\ get = NoGet /\ get' = [get EXCEPT !.at = "asked"]
  /\ UNCHANGED <<server, cache, seen, call, theme, panel, edits, faults>>

Read ==
  /\ Quiet /\ get.at = "asked" /\ get' = [at |-> "read", ans |-> server]
  /\ UNCHANGED <<server, cache, seen, call, theme, panel, edits, faults>>

Arrive ==
  /\ Quiet /\ get.at = "read" /\ get' = NoGet /\ cache' = get.ans
  /\ UNCHANGED <<server, seen, call, theme, panel, edits, faults>>

(***************************************************************************)
(* The panel.                                                              *)
(***************************************************************************)
Open ==
  /\ Quiet /\ ~isOpen /\ isOpen' = TRUE
  /\ UNCHANGED <<server, cache, seen, get, call, theme, draft, ack, pending, phase, closing, wanted,
                 edits, faults>>

HandleChange(k, v) ==
  /\ Quiet /\ isOpen /\ v # draft[k] /\ edits < MaxEdits /\ edits' = edits + 1
  /\ draft' = [draft EXCEPT ![k] = v] /\ pending' = Over(Only(k, v), pending)
  /\ theme' = IF k = "theme" THEN v ELSE theme
  /\ phase' = IF phase = "clean" THEN "debounced" ELSE phase
  /\ wanted' = Over(Only(k, v), wanted)
  /\ UNCHANGED <<server, cache, seen, get, call, isOpen, ack, closing, faults>>

\* Of drainSaveQueue what happens up to its first save.
Drain(asked) ==
  /\ IF ~Saving /\ pending # NoEdits
       THEN /\ Free # {} /\ Mutate(call, cache, pending, TRUE)
            /\ pending' = NoEdits /\ phase' = "saving"
       ELSE UNCHANGED <<call, cache, get, pending, phase>>
  /\ closing' = asked

\* The debounce timer, or the button that retries.
Save ==
  /\ Quiet /\ isOpen /\ pending # NoEdits /\ phase \in {"debounced", "failed"} /\ Drain(closing)
  /\ UNCHANGED <<server, seen, theme, isOpen, draft, ack, wanted, edits, faults>>

Unsaved == pending # NoEdits \/ Saving

ClosePanel ==
  /\ Quiet /\ isOpen /\ ~closing
  /\ IF Unsaved THEN Drain(TRUE) /\ UNCHANGED isOpen
     ELSE isOpen' = FALSE /\ UNCHANGED <<call, cache, get, pending, phase, closing>>
  /\ UNCHANGED <<server, seen, theme, draft, ack, wanted, edits, faults>>

RevertChanges ==
  /\ Quiet /\ isOpen /\ phase = "failed"
  /\ pending' = NoEdits /\ phase' = "clean" /\ closing' = FALSE /\ draft' = ack
  /\ theme' = ack["theme"] /\ wanted' = NoEdits
  /\ UNCHANGED <<server, cache, seen, get, call, isOpen, ack, edits, faults>>

\* cycleTheme, handleUnreadOnlyToggle and handleSortToggle, behind the panel's dialog.
Button(k) ==
  /\ Quiet /\ ~isOpen /\ Free # {} /\ edits < MaxEdits /\ edits' = edits + 1
  /\ \E v \in Offered :
       /\ IF k = "theme" THEN v = (theme + 1) % (Last + 1) ELSE v # Normal(cache)[k]
       /\ theme' = IF k = "theme" THEN v ELSE theme
       /\ Mutate(call, cache, Only(k, v), FALSE)
  /\ UNCHANGED <<server, seen, panel, faults>>

(***************************************************************************)
(* The server, and what the browser does with an answer.                   *)
(***************************************************************************)
Upserted(data) == Over(data, server)

\* PreferencesService.updatePreferences
Write(i) ==
  /\ Quiet /\ call[i].at \in {"sent", "late"}
  /\ server' = Upserted(call[i].patch)
  /\ call' = [call EXCEPT ![i] = IF @.at = "late" THEN NoCall
                                 ELSE [@ EXCEPT !.at = "written", !.ans = server']]
  /\ UNCHANGED <<cache, seen, get, theme, panel, edits, faults>>

OtherDevice(k, v) ==
  /\ Quiet /\ Others /\ edits < MaxEdits /\ edits' = edits + 1
  /\ server' = Upserted(Only(k, v))
  /\ UNCHANGED <<browser, faults>>

Saved(patch) == [k \in {x \in DOMAIN wanted : ~(x \in DOMAIN patch /\ patch[x] = wanted[x])} |->
                   wanted[k]]

Invalidated == [NoGet EXCEPT !.at = "asked"]
StaysOpen == isOpen /\ ~closing

\* onSuccess, and for the panel the rest of drainSaveQueue up to its next save.
Answered(i) ==
  /\ Quiet /\ call[i].at = "written"
  /\ LET ans == call[i].ans
         freed == [call EXCEPT ![i] = NoCall]
     IN IF call[i].queued
          THEN /\ ack' = Normal(ans) /\ draft' = Over(pending, Normal(ans))
               /\ theme' = IF "theme" \in DOMAIN pending THEN theme ELSE Normal(ans)["theme"]
               /\ wanted' = Saved(call[i].patch)
               /\ IF pending # NoEdits
                    THEN /\ Mutate(freed, ans, pending, TRUE)
                         /\ pending' = NoEdits /\ UNCHANGED <<phase, closing, isOpen>>
                    ELSE /\ call' = freed /\ cache' = ans /\ get' = Invalidated
                         /\ phase' = "clean" /\ closing' = FALSE /\ isOpen' = StaysOpen
                         /\ UNCHANGED pending
          ELSE /\ call' = freed /\ cache' = ans /\ get' = Invalidated
               /\ UNCHANGED <<theme, panel>>
  /\ UNCHANGED <<server, seen, edits, faults>>

\* Mutant: what is retained is what was sent.
RetainedOld(patch) == Over(patch, pending)
Retained(patch) == Over(pending, patch)

\* onError, and for the panel the catch of drainSaveQueue.  What was sent may be written later.
Fails(i) ==
  /\ Quiet /\ Waiting(i) /\ faults < MaxFaults /\ faults' = faults + 1
  /\ \E late \in BOOLEAN :
       /\ late => call[i].at = "sent"
       /\ call' = [call EXCEPT ![i] = IF late THEN [@ EXCEPT !.at = "late"] ELSE NoCall]
  /\ cache' = call[i].prev
  /\ IF call[i].queued
       THEN /\ pending' = Retained(call[i].patch) /\ phase' = "failed" /\ closing' = FALSE
       ELSE UNCHANGED <<pending, phase, closing>>
  /\ UNCHANGED <<server, seen, get, theme, isOpen, draft, ack, wanted, edits>>

Next ==
  \/ Commit \/ Refetch \/ Read \/ Arrive \/ Open \/ Save \/ ClosePanel \/ RevertChanges
  \/ \E k \in Key, v \in Offered : HandleChange(k, v)
  \/ \E k \in Buttons : Button(k)
  \/ \E k \in Key, v \in 0..Last + 1 : OtherDevice(k, v) /\ (v = Amoled => k = "theme")
  \/ \E i \in Call : Write(i) \/ Answered(i) \/ Fails(i)

Spec == Init /\ [][Next]_vars

(***************************************************************************)
(* Properties.                                                             *)
(***************************************************************************)
\* Of the panel at most one PATCH is under way, and only while it says that it is saving.
OneSaveAtATime ==
  LET saves == {i \in Call : Waiting(i) /\ call[i].queued}
  IN \A i \in saves, j \in saves : i = j /\ Saving

\* Nothing that the user has chosen in the panel is given up when it closes: it was saved, or
\* reverted by the user.
ClosedKept == ~isOpen => wanted = NoEdits

\* Whatever arrives in the meantime, the panel shows what the user has chosen until it is saved,
\* and a choice not saved yet still waits or is on its way.
DraftKept ==
  \A k \in DOMAIN wanted :
    /\ draft[k] = wanted[k]
    /\ \/ k \in DOMAIN pending /\ pending[k] = wanted[k]
       \/ \E i \in Call : Waiting(i) /\ call[i].queued /\ k \in DOMAIN call[i].patch
                           /\ call[i].patch[k] = wanted[k]

Idle == get = NoGet /\ Quiet /\ Free = Call

\* A panel that says "Saved" shows what is saved (plan 011, step 4: "Reconcile draft, theme preview,
\* and query cache after retry or revert").
SavedIsTrue == isOpen /\ phase = "clean" /\ Idle => draft = Normal(server)

\* When all calls have been answered, the theme last chosen is the one that is saved (plan 011,
\* step 1: "never run concurrent preference PATCH requests").
LastChoice == Idle /\ phase = "clean" => theme = Normal(server)["theme"]

\* Saves of which none reached the server leave no trace in the cache (plan 011:
\* useUpdatePreferences "rolls back the query cache on error").
RolledBack == Idle /\ server = Defaults => cache = Defaults
=============================================================================
