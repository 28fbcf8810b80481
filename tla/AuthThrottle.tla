----------------------------- MODULE AuthThrottle -----------------------------
(***************************************************************************)
(* The throttle of the endpoints that test a secret                        *)
(* (services/auth_throttle.py): attempts per client address and failures   *)
(* per mailbox in a sliding window.  Both maps keep their keys in the      *)
(* order of insertion and drop the oldest key when full.                   *)
(***************************************************************************)
EXTENDS Integers, SequencesExt

CONSTANTS
  MaxAttempts, \* imap_auth_max_attempts_per_ip
  MaxFailures, \* imap_auth_max_failures_per_email
  MaxEntries   \* keys a map may hold

ASSUME ThrottleAssumption ==
  MaxAttempts \in Nat \ {0} /\ MaxFailures \in Nat \ {0} /\ MaxEntries \in Nat \ {0}

VARIABLES
  ipAttempts,   \* <<[key, n]>>, n stamps of the key in the window
  emailFailures

throttle == <<ipAttempts, emailFailures>>

ThrottleInit == ipAttempts = <<>> /\ emailFailures = <<>>

Stamps(bucket, k) ==
  LET at == {i \in DOMAIN bucket : bucket[i].key = k}
  IN  IF at = {} THEN 0 ELSE bucket[CHOOSE i \in at : TRUE].n

\* A key keeps its place when its stamps change.
Assign(bucket, k, n) ==
  IF \E i \in DOMAIN bucket : bucket[i].key = k
  THEN [i \in DOMAIN bucket |-> IF bucket[i].key = k THEN [key |-> k, n |-> n] ELSE bucket[i]]
  ELSE Append(bucket, [key |-> k, n |-> n])

EvictIfFull(bucket) == IF Len(bucket) >= MaxEntries THEN Tail(bucket) ELSE bucket

\* Bug: one attempt and one failure too many.
AllowedOneMore(ip, email) ==
  /\ Stamps(ipAttempts, ip) <= MaxAttempts
  /\ Stamps(emailFailures, email) <= MaxFailures

\* check: both limits, the attempts of the client first.
Allowed(ip, email) ==
  /\ Stamps(ipAttempts, ip) < MaxAttempts
  /\ Stamps(emailFailures, email) < MaxFailures

\* An allowed attempt is counted at once, before anything is awaited.
Check(ip, email) ==
  /\ Allowed(ip, email)
  /\ ipAttempts' = Assign(EvictIfFull(ipAttempts), ip, Stamps(ipAttempts, ip) + 1)

\* The stamps are read after the eviction, which may have dropped them.
RecordFailure(email) ==
  LET kept == EvictIfFull(emailFailures)
  IN  emailFailures' = Assign(kept, email, Stamps(kept, email) + 1)

\* The mailbox is dropped from the map, if it is there.
RecordSuccess(email) ==
  \/ \E i \in DOMAIN emailFailures :
       emailFailures[i].key = email /\ emailFailures' = RemoveAt(emailFailures, i)
  \/ /\ \A i \in DOMAIN emailFailures : emailFailures[i].key # email
     /\ UNCHANGED emailFailures

\* The oldest stamp of a key leaves the window.
Age(bucket, k) == Assign(bucket, k, Stamps(bucket, k) - 1)
=============================================================================
