---------------------------- MODULE MessageLedger ----------------------------
(***************************************************************************)
(* What the incremental sync promises about one user's mail, independent   *)
(* of mailboxes, batches, sessions and crashes: every message id has a     *)
(* verdict, only a message without one is ever sent to the extraction      *)
(* model, "done" is final, and "givenUp" is undone only by the operator    *)
(* script that reopens failed messages.                                    *)
(***************************************************************************)
EXTENDS Naturals

CONSTANT Ids          \* message ids (source_message_id)

VARIABLES verdict,    \* what existing_message_ids would say, and why
          calls       \* how often the id was sent to the extraction model

vars == <<verdict, calls>>

Verdict == {"pending", "done", "givenUp"}

TypeOK == /\ verdict \in [Ids -> Verdict]
          /\ calls \in [Ids -> Nat]

Init == /\ verdict = [i \in Ids |-> "pending"]
        /\ calls = [i \in Ids |-> 0]

\* A message without a verdict is sent to the model; the answer is not used yet.
Call(i) == /\ verdict[i] = "pending"
           /\ calls' = [calls EXCEPT ![i] = @ + 1]
           /\ UNCHANGED verdict

\* Items were stored, a success marker written, or a blocked batch retired.
Settle(S) == /\ \A i \in S : verdict[i] = "pending"
             /\ verdict' = [i \in Ids |-> IF i \in S THEN "done" ELSE verdict[i]]
             /\ UNCHANGED calls

\* The retry bound was reached.
GiveUp(i) == /\ verdict[i] = "pending"
             /\ verdict' = [verdict EXCEPT ![i] = "givenUp"]
             /\ UNCHANGED calls

\* The operator reopens messages that were given up, never successes.
Reopen(S) == /\ \A i \in S : verdict[i] = "givenUp"
             /\ verdict' = [i \in Ids |-> IF i \in S THEN "pending" ELSE verdict[i]]
             /\ UNCHANGED calls

Next == \/ \E i \in Ids : Call(i) \/ GiveUp(i)
        \/ \E S \in SUBSET Ids : Settle(S) \/ Reopen(S)

Spec == Init /\ [][Next]_vars
=============================================================================
