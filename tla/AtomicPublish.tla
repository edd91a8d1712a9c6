---------------------------- MODULE AtomicPublish ----------------------------
(***************************************************************************)
(* What a caller of internal/securefile may rely on: the destination is    *)
(* one register.  It changes from nothing, or from one complete file, to   *)
(* another complete file in a single step; a power failure can only take   *)
(* it back to a state it already had.                                      *)
(***************************************************************************)
CONSTANTS Writers, None, Foreign

VARIABLES
  mode,      \* per writer: "create" or "replace"
  shown,     \* the file a reader sees: None, Foreign, or the whole file of a writer
  kept,      \* the file a power failure leaves
  published, \* writers whose file has been shown
  outcome    \* per writer: "pending", "ok", "error" or "dead"

vars == <<mode, shown, kept, published, outcome>>

Init ==
  /\ mode \in [Writers -> {"create", "replace"}]
  /\ shown \in {None, Foreign}
  /\ kept = shown
  /\ published = {}
  /\ outcome = [w \in Writers |-> "pending"]

Publish(w) ==
  /\ outcome[w] = "pending"
  /\ w \notin published
  /\ shown = None \/ mode[w] = "replace"
  /\ shown' = w
  /\ published' = published \cup {w}
  /\ UNCHANGED <<mode, kept, outcome>>

Return(w) ==
  /\ outcome[w] = "pending"
  /\ \/ w \in published /\ outcome' = [outcome EXCEPT ![w] = "ok"]
     \/ outcome' = [outcome EXCEPT ![w] = "error"]
  /\ UNCHANGED <<mode, shown, kept, published>>

Die(w) ==
  /\ outcome[w] = "pending"
  /\ outcome' = [outcome EXCEPT ![w] = "dead"]
  /\ UNCHANGED <<mode, shown, kept, published>>

(* Somebody else creates the file where there is none, or removes it.      *)
Interfere ==
  /\ shown' = IF shown = None THEN Foreign ELSE None
  /\ UNCHANGED <<mode, kept, published, outcome>>

Persist == kept' = shown /\ UNCHANGED <<mode, shown, published, outcome>>

Outage ==
  /\ shown' = kept
  /\ outcome' = [w \in Writers |-> IF outcome[w] = "pending" THEN "dead" ELSE outcome[w]]
  /\ UNCHANGED <<mode, kept, published>>

Next ==
  \/ \E w \in Writers : Publish(w) \/ Return(w) \/ Die(w)
  \/ Interfere \/ Persist \/ Outage

Spec == Init /\ [][Next]_vars

=============================================================================
