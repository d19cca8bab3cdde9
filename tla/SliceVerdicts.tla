--------------------------- MODULE SliceVerdicts ---------------------------
(***************************************************************************)
(* What waiting for the children of one test promises, without processes,  *)
(* polling, deadlines or signals: every slice's child ends or does not, and *)
(* every slice gets a verdict that the child's end justifies.              *)
(***************************************************************************)
EXTENDS TestResults

CONSTANTS Slice

VARIABLES
  fate,     \* [Slice -> TestResult \cup {Unset}]: how the child really ended
  verdict,  \* [Slice -> TestResult \cup {Unset}]: what the parent recorded
  outcome   \* "open", "complete", "interrupted" or "lost"

avars == <<fate, verdict, outcome>>

\* What a wait status can say.
Fates == TestResult \ {Interrupted}

Init ==
  /\ fate = [i \in Slice |-> Unset]
  /\ verdict = [i \in Slice |-> Unset]
  /\ outcome = "open"

\* A child ends, once and for all.
End(i) ==
  /\ fate[i] = Unset
  /\ \E r \in Fates : fate' = [fate EXCEPT ![i] = r]
  /\ UNCHANGED <<verdict, outcome>>

\* The verdict on a child that ended: its fate, or TimedOut if it was overdue.
Judge(i) ==
  /\ outcome = "open"
  /\ fate[i] # Unset
  /\ verdict[i] \in {Unset, TimedOut}
  /\ verdict' = [verdict EXCEPT ![i] = MergeResult(@, fate[i])]
  /\ UNCHANGED <<fate, outcome>>

\* The deadline: all slices without a verdict are timed out at once.
DeclareOverdue ==
  /\ outcome = "open"
  /\ \E i \in Slice : verdict[i] = Unset
  /\ verdict' = [i \in Slice |-> IF verdict[i] = Unset THEN TimedOut ELSE verdict[i]]
  /\ UNCHANGED <<fate, outcome>>

\* The results are complete only when every slice has a verdict.
Complete ==
  /\ outcome = "open"
  /\ \A i \in Slice : verdict[i] # Unset
  /\ outcome' = "complete"
  /\ UNCHANGED <<fate, verdict>>

InterruptAll ==
  /\ outcome = "open"
  /\ verdict' = [i \in Slice |-> Interrupted]
  /\ outcome' = "interrupted"
  /\ UNCHANGED fate

\* The parent dies without results.
Lose ==
  /\ outcome = "open"
  /\ outcome' = "lost"
  /\ UNCHANGED <<fate, verdict>>

ANext ==
  \/ \E i \in Slice : End(i) \/ Judge(i)
  \/ DeclareOverdue \/ Complete \/ InterruptAll \/ Lose

ASpec == Init /\ [][ANext]_avars
=============================================================================
