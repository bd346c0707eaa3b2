--------------------------- MODULE MCPayloadCommit ---------------------------
(***************************************************************************)
(* Instances of PayloadCommit: three commits, each of an epoch of two      *)
(* blocks or of a summary project.                                         *)
(***************************************************************************)
EXTENDS PayloadCommit

CONSTANTS c1, c2, c3, a, b, d

\* Three epochs in a row; the first is the oldest.
EpochBegin == [c \in Commits |-> CASE c = c1 -> 1 [] c = c2 -> 3 [] c = c3 -> 5]
EpochEnd == [c \in Commits |-> EpochBegin[c] + 1]

\* A project is an epoch project or a summary project; this is the latter.
NoEpoch == [c \in Commits |-> 0]

OwnContent == [c \in Commits |-> CASE c = c1 -> a [] c = c2 -> b [] c = c3 -> d]

EveryLabel == Labels \union {"crash"}
\* Every call may fail but those that read the epoch keys, and nothing is lost
\* between the removal and the new entry of a resubmission.
KeepsPending == Labels \ {"readSize", "readFirst", "propose", "pendAdd"}
=============================================================================
