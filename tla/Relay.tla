------------------------------- MODULE Relay -------------------------------
(***************************************************************************)
(* What a spooling agent and its server promise about samples, numbered    *)
(* in the order they were taken:                                           *)
(*   - a sample that was taken waits in pending, in order, unless the      *)
(*     attempt to buffer it failed;                                        *)
(*   - pending samples leave from the front only: retired because the      *)
(*     server kept or refused every one of them, or evicted because more   *)
(*     than Capacity samples wait;                                         *)
(*   - the server may take a sample more than once and late, but only one  *)
(*     that was taken, and what it kept it keeps.                          *)
(***************************************************************************)
EXTENDS Integers, Sequences, Functions

CONSTANT Capacity

VARIABLES
  taken,    \* how many samples were taken
  pending,  \* the samples that wait
  kept,     \* samples the server stored
  refused,  \* samples the server counted as rejected
  failures  \* how many operations failed

vars == <<taken, pending, kept, refused, failures>>

MayFail == failures' \in {failures, failures + 1}

Init ==
  /\ taken = 0
  /\ pending = <<>>
  /\ kept = {}
  /\ refused = {}
  /\ failures = 0

\* A sample is buffered; the oldest make room for it at the earliest when more
\* than Capacity wait.
Take ==
  LET grown == Append(pending, taken + 1)
  IN  /\ taken' = taken + 1
      /\ \/ pending' = grown
         \/ /\ Len(grown) > Capacity
            /\ pending' = SubSeq(grown, Len(grown) - Capacity + 1, Len(grown))
      /\ MayFail
      /\ UNCHANGED <<kept, refused>>

\* A sample that could not be buffered.
Miss ==
  /\ taken' = taken + 1
  /\ failures' = failures + 1
  /\ UNCHANGED <<pending, kept, refused>>

\* The server handles some samples that were taken.
Serve ==
  /\ kept \subseteq kept' /\ kept' \subseteq kept \cup 1..taken
  /\ refused \subseteq refused' /\ refused' \subseteq refused \cup 1..taken
  /\ MayFail
  /\ UNCHANGED <<taken, pending>>

\* The oldest n samples are all accounted for and leave.
Retire ==
  /\ \E n \in 1..Len(pending) :
       /\ \A i \in 1..n : pending[i] \in kept \cup refused
       /\ pending' = SubSeq(pending, n + 1, Len(pending))
  /\ MayFail
  /\ UNCHANGED <<taken, kept, refused>>

Next == Take \/ Miss \/ Serve \/ Retire

Spec == Init /\ [][Next]_vars
=============================================================================
