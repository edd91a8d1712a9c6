---------------------------- MODULE LogArtifacts -----------------------------
(***************************************************************************)
(* The logs an evidence bundle may hold, and the limits a profile may set  *)
(* on what a provider is shown of them: the parameters of LogContext.      *)
(*                                                                         *)
(* A log is a sequence of kinds of byte: "nl" a newline, "lead" and "cont" *)
(* the two bytes of a character, invalid when apart, "x" any other.  Byte  *)
(* offsets start at 0, as in the code; digests and times are left out.     *)
(***************************************************************************)
EXTENDS Integers, SequencesExt

CONSTANTS
  Bundles,        \* sets of log artifacts an evidence bundle may hold
  ProfileLimits,  \* limits a profile may set, as [artifacts, bytes]
  MinimumUseful   \* minimumUsefulLogContextBytes

Kinds == {"x", "nl", "lead", "cont"}

Ranges == [start : Nat, end : Nat, score : {200, 250, 300}]

ArtifactType ==
  [id : Nat, run : Nat \ {0}, stream : {"stdout", "stderr"}, data : Seq(Kinds),
   disclosed : BOOLEAN, items : SUBSET Ranges]

(* Where the lines of a log end.                                          *)
Newlines(data) == {i \in 0 .. Len(data) - 1 : data[i + 1] = "nl"}

LineStarts(data) == {0} \cup {i + 1 : i \in Newlines(data)}
LineEnds(data)   == {Len(data)} \cup {i + 1 : i \in Newlines(data)}

(* A diagnostic starts with a line (splitLines of internal/enrichment);    *)
(* it ends with one, unless it was cut at its maximum (boundedEnd).        *)
ASSUME LogAssumption ==
  /\ ProfileLimits \subseteq [artifacts : Nat, bytes : Nat]
  /\ MinimumUseful \in Nat
  /\ \A artifacts \in Bundles :
       /\ artifacts \subseteq ArtifactType
       /\ IsFiniteSet(artifacts)
       /\ \A a \in artifacts : \A i \in a.items : i.start \in LineStarts(a.data)
       /\ \A a, b \in artifacts : a.id = b.id => a = b
=============================================================================
