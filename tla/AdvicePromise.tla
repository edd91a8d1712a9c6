---------------------------- MODULE AdvicePromise ----------------------------
(***************************************************************************)
(* What a caller of a generated diagnosis may rely on, whatever the model  *)
(* provider does: one final verdict, and no evidence that reached the      *)
(* provider goes unreported when a report is given.                        *)
(***************************************************************************)
CONSTANT Evidence

VARIABLES
  verdict,   \* "pending", then once "error", "fallback" or "mixed"
  received,  \* evidence the provider has been given
  disclosed  \* evidence the report says was disclosed

vars == <<verdict, received, disclosed>>

Init == verdict = "pending" /\ received = {} /\ disclosed = {}

(* The provider is given the projection, at most once.                     *)
Expose ==
  /\ verdict = "pending"
  /\ received = {}
  /\ received' \in SUBSET Evidence
  /\ UNCHANGED <<verdict, disclosed>>

Refuse ==
  /\ verdict = "pending"
  /\ verdict' = "error"
  /\ UNCHANGED <<received, disclosed>>

(* A report that counts at least what was exposed as disclosed; generated  *)
(* content needs a provider that was given evidence.                       *)
Advise(kind) ==
  /\ verdict = "pending"
  /\ verdict' = kind
  /\ disclosed' \in SUBSET Evidence
  /\ received \subseteq disclosed'
  /\ kind = "mixed" => received # {}
  /\ UNCHANGED received

Next == Expose \/ Refuse \/ \E kind \in {"fallback", "mixed"} : Advise(kind)

Spec == Init /\ [][Next]_vars

=============================================================================
