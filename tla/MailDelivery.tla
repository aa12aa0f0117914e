----------------------------- MODULE MailDelivery -----------------------------
(***************************************************************************)
(* What the mail queue promises, seen from outside: a mail that was        *)
(* accepted is pending until it is confirmed or given up.  It is confirmed *)
(* only after the SMTP server took a copy, a confirmed mail stays so, and  *)
(* one that was given up may be tried again.  Copies may be more than one. *)
(***************************************************************************)
EXTENDS Naturals

CONSTANT Mails

VARIABLES
    outcome,    \* what the queue says of each mail
    copies      \* how often the SMTP server took it

Outcomes == {"unsent", "pending", "delivered", "failed", "gone"}

Init ==
    /\ outcome = [m \in Mails |-> "unsent"]
    /\ copies = [m \in Mails |-> 0]

Becomes(m, from, to) ==
    /\ outcome[m] \in from
    /\ outcome' = [outcome EXCEPT ![m] = to]
    /\ UNCHANGED copies

Accept(m)  == Becomes(m, {"unsent"}, "pending")
Confirm(m) == copies[m] > 0 /\ Becomes(m, {"pending"}, "delivered")
GiveUp(m)  == Becomes(m, {"pending"}, "failed")
Retry(m)   == Becomes(m, {"failed"}, "pending")
Forget(m)  == Becomes(m, {"delivered", "failed"}, "gone")

\* Late copies, after the mail was settled or forgotten, included.
HandOver(m) ==
    /\ outcome[m] # "unsent"
    /\ copies' = [copies EXCEPT ![m] = @ + 1]
    /\ UNCHANGED outcome

Next == \E m \in Mails :
    Accept(m) \/ Confirm(m) \/ GiveUp(m) \/ Retry(m) \/ Forget(m) \/ HandOver(m)

Spec == Init /\ [][Next]_<<outcome, copies>>
=============================================================================
