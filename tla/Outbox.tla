------------------------------- MODULE Outbox -------------------------------
(***************************************************************************)
(* The durable mail_outbox row (internal/mailmeta/outbox.go) and the SQL   *)
(* statements that rewrite it.  Every statement is one operator on a row;  *)
(* MailWorker puts them into actions.                                      *)
(*                                                                         *)
(* Wall-clock columns are kept as what the statements ask of them:         *)
(*   wait   seconds next_attempt_at was last put ahead of now(), 0 once    *)
(*          next_attempt_at <= now();                                      *)
(*   stale  updated_at is older than the 15 minutes of the lease.          *)
(***************************************************************************)
EXTENDS Integers

Statuses == {"absent", "pending", "sending", "sent", "failed"}

\* sent_copy_*: no copy asked for, a staging blob is referenced, or the copy's
\* message id is recorded and the staging columns are cleared.
CopyStates == {"none", "staged", "recorded"}

NoOutboxRow ==
  [status |-> "absent", attempts |-> 0, wait |-> 0, stale |-> FALSE, copy |-> "none"]

InsertOutboxMeta(copy) ==
  [status |-> "pending", attempts |-> 0, wait |-> 0, stale |-> FALSE, copy |-> copy]

\* Fault: the status test is missing from the lease.
LeasableAnyStatus(row) == row.status \in {"pending", "sending"} /\ row.wait = 0

\* WHERE status = 'pending' AND next_attempt_at <= now()
Leasable(row) == row.status = "pending" /\ row.wait = 0

LeaseRow(row) == [row EXCEPT !.status = "sending", !.stale = FALSE]

\* No status guard: whatever the row says now is overwritten.
MarkOutboxSent(row) == [row EXCEPT !.status = "sent", !.stale = FALSE]

RecordSentCopy(row) == [row EXCEPT !.copy = "recorded", !.stale = FALSE]

\* 60 * power(2, LEAST(attempts, 8)) seconds, attempts before the increment.
RetryDelay(attempts) == 60 * 2 ^ (IF attempts < 8 THEN attempts ELSE 8)

\* No status guard either.
MarkOutboxFailed(row, transient) ==
  IF transient
    THEN [row EXCEPT !.status = "pending", !.stale = FALSE,
                     !.attempts = @ + 1, !.wait = RetryDelay(row.attempts)]
    ELSE [row EXCEPT !.status = "failed", !.stale = FALSE, !.attempts = @ + 1]

\* WHERE status = 'sending' AND updated_at < cutoff
Stuck(row) == row.status = "sending" /\ row.stale

\* Fault: the cutoff is never reached.
RecoverNothing(rows) == rows

\* RecoverStuckSending over the table.  next_attempt_at is left as it was, and a
\* row that was leased had already reached it.
Recovered(row) == [row EXCEPT !.status = "pending", !.stale = FALSE]

RecoverStuckSending(rows) ==
  [r \in DOMAIN rows |-> IF Stuck(rows[r]) THEN Recovered(rows[r]) ELSE rows[r]]

\* WHERE id = $1 AND status = 'failed'; no row affected is reported as an error.
RetryOutboxEntry(row) ==
  [row EXCEPT !.status = "pending", !.attempts = 0, !.wait = 0, !.stale = FALSE]
=============================================================================
