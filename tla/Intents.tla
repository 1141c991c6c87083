------------------------------ MODULE Intents ------------------------------
(***************************************************************************)
(* What a reader is promised for one switch of one article (read, saved):  *)
(* the change asked for last takes effect, at the server, before the       *)
(* client forgets that it was asked for, unless the article is gone.       *)
(***************************************************************************)
CONSTANTS Item, None

VARIABLES
  state,   \* the server's value of each switch
  wanted,  \* the value asked for and not yet settled, or None
  done,    \* whether the change that is wanted has taken effect
  gone     \* switches whose article no longer exists

vars == <<state, wanted, done, gone>>

Init ==
  /\ state = [i \in Item |-> FALSE]
  /\ wanted = [i \in Item |-> None]
  /\ done = [i \in Item |-> FALSE]
  /\ gone = {}

\* The user asks for a value; what was asked for before no longer matters.
Want(i, v) ==
  /\ wanted' = [wanted EXCEPT ![i] = v]
  /\ done' = [done EXCEPT ![i] = FALSE]
  /\ UNCHANGED <<state, gone>>

\* The wanted value takes effect.
TakeEffect(i) ==
  /\ wanted[i] # None
  /\ state' = [state EXCEPT ![i] = wanted[i]]
  /\ done' = [done EXCEPT ![i] = TRUE]
  /\ UNCHANGED <<wanted, gone>>

\* Another device, or a change asked for earlier, sets the switch.
Disturb(i, v) ==
  /\ state' = [state EXCEPT ![i] = v]
  /\ UNCHANGED <<wanted, done, gone>>

\* The client forgets the change.
Settle(i) ==
  /\ wanted[i] # None /\ (done[i] \/ i \in gone)
  /\ wanted' = [wanted EXCEPT ![i] = None]
  /\ done' = [done EXCEPT ![i] = FALSE]
  /\ UNCHANGED <<state, gone>>

Vanish(i) ==
  /\ gone' = gone \cup {i}
  /\ UNCHANGED <<state, wanted, done>>

Next == \E i \in Item : TakeEffect(i) \/ Settle(i) \/ Vanish(i)
                        \/ \E v \in BOOLEAN : Want(i, v) \/ Disturb(i, v)

Spec == Init /\ [][Next]_vars
=============================================================================
