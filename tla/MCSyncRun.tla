------------------------------ MODULE MCSyncRun ------------------------------
(***************************************************************************)
(* Values of SyncRun's constants for TLC.  Three mails are the fewest with *)
(* a backlog behind a per-run cap of two.                                  *)
(***************************************************************************)
EXTENDS SyncRun

OneMail == {1}
TwoMails == 1 .. 2
ThreeMails == 1 .. 3

AllInOne == [p \in Mail |-> 1]
\* All but the last mail go to the first mailbox.
LastApart == [p \in Mail |-> IF \E q \in Mail : q > p THEN 1 ELSE 2]

Distinct == [p \in Mail |-> p]

Gmail == <<"google">>
Imap == <<"imap">>
GmailImap == <<"google", "imap">>
=============================================================================
