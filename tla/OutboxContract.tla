--------------------------- MODULE OutboxContract ---------------------------
(***************************************************************************)
(* What the outbox promises about one row, with workers, leases and blobs  *)
(* left out: the life of its status as outbox.go's statements allow it,    *)
(* and its tie to the domains that really took the message.  MailWorker is *)
(* shown to implement it.                                                  *)
(***************************************************************************)
CONSTANTS Rows, Domains

VARIABLES
  dest,    \* per row: the domains it is for
  status,  \* per row: mail_outbox.status, "absent" before the insert
  took,    \* per row: the domains that took at least one copy
  late     \* rows that were given to a second holder while the first still runs

vars == <<dest, status, took, late>>

Init ==
  /\ dest \in [Rows -> SUBSET Domains]
  /\ status = [r \in Rows |-> "absent"]
  /\ took = [r \in Rows |-> {}]
  /\ late = {}

Becomes(r, from, to) == status[r] = from /\ status'[r] = to

\* One row's status may move along the lease cycle; a late holder may settle it from
\* anywhere; nobody reports "sent" before every domain took a copy.
StatusStep(r) ==
  /\ \/ Becomes(r, "absent", "pending")
     \/ Becomes(r, "pending", "sending")
     \/ Becomes(r, "sending", "pending")
     \/ Becomes(r, "sending", "sent")
     \/ Becomes(r, "sending", "failed")
     \/ Becomes(r, "failed", "pending")
     \/ /\ r \in late
        /\ status[r] # "absent"
        /\ status'[r] \in {"pending", "sent", "failed"}
  /\ status'[r] = "sent" => dest[r] \subseteq took[r]

\* Mail leaves only for a row that is leased, and only to its own domains.
TookStep(r) ==
  /\ took[r] \subseteq took'[r]
  /\ took'[r] \subseteq took[r] \cup dest[r]
  /\ status[r] = "sending" \/ r \in late

Next ==
  /\ dest' = dest
  /\ DOMAIN status' = Rows /\ DOMAIN took' = Rows
  /\ \A r \in Rows : status'[r] = status[r] \/ StatusStep(r)
  /\ \A r \in Rows : took'[r] = took[r] \/ TookStep(r)
  /\ late \subseteq late'
  /\ \A r \in late' \ late : Becomes(r, "sending", "pending")

Spec == Init /\ [][Next]_vars
=============================================================================
