--------------------------- MODULE ProtectedLinks ---------------------------
(***************************************************************************)
(* Protected links (send mode B): the mail_protected_links rows of one     *)
(* sender (internal/maillinks/links.go), the ciphertext blobs they refer   *)
(* to, and everyone who touches both: the create handler, the public open  *)
(* endpoint (internal/httpserver/api_protected_links.go), the five-minute  *)
(* sweeper (cmd/elvishserver/protected_link_sweeper.go) and the purge of   *)
(* the sender's account (internal/httpserver/account_delete.go).           *)
(*                                                                         *)
(* A link stands for a token and for the blob key made from it: tokens are *)
(* 32 random bytes and are never drawn twice.  Database and object store   *)
(* fail independently; a statement may commit and still report an error.   *)
(***************************************************************************)
EXTENDS Integers, FiniteSets

CONSTANTS Links,       \* the links the sender ever creates
          Readers,     \* concurrent POST .../open requests
          Limits,      \* the max_views values asked for; 0 is unlimited
          PurgeLimit,  \* the LIMIT of PurgeExpired (100 in the sweeper)
          MaxOpens,    \* bound: views of an unlimited link
          NoLink       \* of an idle request

ASSUME LimitsAssumption == Limits \subseteq Nat
ASSUME BoundsAssumption == PurgeLimit \in Nat \ {0} /\ MaxOpens \in Nat
ASSUME NoLinkAssumption == NoLink \notin Links

VARIABLES row,      \* the metadata rows
          blobs,    \* links whose ciphertext is in the object store
          create,   \* progress of the create handler, per link
          limit,    \* history: the max_views a link was created with
          readers,  \* the open requests in flight
          served,   \* history: the view numbers answered with the ciphertext
          reclaim,  \* rows the sweeper has deleted and whose blob is next
          purge     \* the account purge

vars == <<row, blobs, create, limit, readers, served, reclaim, purge>>

\* expires_at against now(): ahead of it, the very instant, or behind it.
Ages == {"valid", "due", "past"}

AbsentRow == [present |-> FALSE, age |-> "valid", max |-> 0, views |-> 0, burned |-> FALSE]

NewRow(max) ==
  [present |-> TRUE, age |-> "valid", max |-> max, views |-> 0, burned |-> FALSE]

IdleReader == [link |-> NoLink, view |-> 0]

RowType ==
  [present : BOOLEAN, age : Ages, max : Limits \cup {0}, views : Nat, burned : BOOLEAN]

TypeOK ==
  /\ row \in [Links -> RowType]
  /\ blobs \subseteq Links
  /\ create \in [Links -> {"new", "stored", "done", "failed"}]
  /\ limit \in [Links -> Limits \cup {0}]
  /\ readers \in [Readers -> [link : Links \cup {NoLink}, view : Nat]]
  /\ served \in [Links -> SUBSET Nat]
  /\ reclaim \subseteq Links
  /\ purge \in [begun : BOOLEAN, active : BOOLEAN, todo : SUBSET Links,
                unlinked : SUBSET Links, user : BOOLEAN]

Init ==
  /\ row = [l \in Links |-> AbsentRow]
  /\ blobs = {}
  /\ create = [l \in Links |-> "new"]
  /\ limit = [l \in Links |-> 0]
  /\ readers = [r \in Readers |-> IdleReader]
  /\ served = [l \in Links |-> {}]
  /\ reclaim = {}
  /\ purge = [begun |-> FALSE, active |-> FALSE, todo |-> {}, unlinked |-> {}, user |-> TRUE]

-----------------------------------------------------------------------------
(* Row predicates of the SQL statements *)

Spent(r) == r.max > 0 /\ r.views >= r.max

\* Fault: only the expiry is tested.
OpenableUntilExpiry(r) == r.present /\ r.age = "valid"

\* The WHERE of ConsumeView.
Openable(r) ==
  r.present /\ ~r.burned /\ r.age = "valid" /\ (r.max = 0 \/ r.views < r.max)

\* The SET of ConsumeView; both columns are computed from the old row.
Consumed(r) ==
  [r EXCEPT !.views = @ + 1, !.burned = (r.max > 0 /\ r.views + 1 >= r.max) \/ @]

\* The WHERE of PurgeExpired: it does not look at burned_at.
Purgeable(r) == r.present /\ (r.age = "past" \/ Spent(r))

\* "expired" in the answer of GET .../meta.
MetaExpired(r) == r.burned \/ r.age = "past" \/ Spent(r)

-----------------------------------------------------------------------------
(* POST /api/v1/mail/protected-links *)

\* The ciphertext goes first.  A failed Put may have stored the object.
CreatePut(l) ==
  /\ create[l] = "new"
  /\ \E ok \in BOOLEAN, stored \in BOOLEAN :
       /\ ok => stored
       /\ create' = [create EXCEPT ![l] = IF ok THEN "stored" ELSE "failed"]
       /\ blobs' = IF stored THEN blobs \cup {l} ELSE blobs
  /\ UNCHANGED <<row, limit, readers, served, reclaim, purge>>

\* Fault: the handler answers 201 although Create failed.
CreateInsertAnyway(l) ==
  /\ create[l] = "stored"
  /\ \E max \in Limits :
       /\ row' = [row EXCEPT ![l] = NewRow(max)]
       /\ limit' = [limit EXCEPT ![l] = max]
  /\ create' = [create EXCEPT ![l] = "done"]
  /\ blobs' \in {blobs, blobs \ {l}}
  /\ UNCHANGED <<readers, served, reclaim, purge>>

\* Create inserts and reads the row back.  On an error of either (the user may
\* be gone, which the foreign key refuses) the handler deletes the blob on a
\* best-effort basis, even when the row was inserted.
CreateInsert(l) ==
  /\ create[l] = "stored"
  /\ \/ /\ purge.user
        /\ \E max \in Limits :
             /\ row' = [row EXCEPT ![l] = NewRow(max)]
             /\ limit' = [limit EXCEPT ![l] = max]
        /\ \/ create' = [create EXCEPT ![l] = "done"] /\ blobs' = blobs
           \/ create' = [create EXCEPT ![l] = "failed"] /\ blobs' \in {blobs, blobs \ {l}}
     \/ /\ create' = [create EXCEPT ![l] = "failed"]
        /\ blobs' \in {blobs, blobs \ {l}}
        /\ UNCHANGED <<row, limit>>
  /\ UNCHANGED <<readers, served, reclaim, purge>>

\* The server stops between the two writes.
CreateCrash(l) ==
  /\ create[l] = "stored"
  /\ create' = [create EXCEPT ![l] = "failed"]
  /\ UNCHANGED <<row, blobs, limit, readers, served, reclaim, purge>>

-----------------------------------------------------------------------------
(* POST /api/v1/protected-links/{token}/open *)

Reading(r) == readers[r].link # NoLink

\* ConsumeView: one UPDATE ... RETURNING.  The token is known to readers once
\* the create handler has answered.  A refusal changes nothing.
OpenConsume(r, l) ==
  /\ ~Reading(r)
  /\ create[l] = "done"
  /\ Openable(row[l])
  /\ row[l].views < MaxOpens
  /\ row' = [row EXCEPT ![l] = Consumed(row[l])]
  /\ readers' = [readers EXCEPT ![r] = [link |-> l, view |-> row[l].views + 1]]
  /\ UNCHANGED <<blobs, create, limit, served, reclaim, purge>>

\* ConsumeView commits but its answer is lost: the view is spent.
OpenConsumeLost(l) ==
  /\ create[l] = "done"
  /\ Openable(row[l])
  /\ row[l].views < MaxOpens
  /\ row' = [row EXCEPT ![l] = Consumed(row[l])]
  /\ UNCHANGED <<blobs, create, limit, readers, served, reclaim, purge>>

\* Fault: a repeated request is answered again under the same view.
OpenFetchAgain(r) ==
  /\ Reading(r)
  /\ readers[r].link \in blobs
  /\ served' = [served EXCEPT ![readers[r].link] = @ \cup {readers[r].view}]
  /\ readers' \in {readers, [readers EXCEPT ![r] = IdleReader]}
  /\ UNCHANGED <<row, blobs, create, limit, reclaim, purge>>

\* blob.Get and the answer; the view is not given back when Get fails.
OpenFetch(r) ==
  /\ Reading(r)
  /\ \/ /\ readers[r].link \in blobs
        /\ served' = [served EXCEPT ![readers[r].link] = @ \cup {readers[r].view}]
     \/ UNCHANGED served
  /\ readers' = [readers EXCEPT ![r] = IdleReader]
  /\ UNCHANGED <<row, blobs, create, limit, reclaim, purge>>

-----------------------------------------------------------------------------
(* sweepProtectedLinks *)

DeleteRows(S) == [l \in Links |-> IF l \in S THEN AbsentRow ELSE row[l]]

\* Rows a DELETE with LIMIT and no ORDER BY may take.
PurgeBatches ==
  LET due == {l \in Links : Purgeable(row[l])}
  IN  {S \in SUBSET due : \/ Cardinality(S) = PurgeLimit
                          \/ (S = due /\ Cardinality(due) < PurgeLimit)}

\* Fault: the rows are selected and not deleted.
SweepSelectOnly ==
  /\ reclaim = {}
  /\ \E S \in PurgeBatches : S # {} /\ reclaim' = S
  /\ UNCHANGED <<row, blobs, create, limit, readers, served, purge>>

SweepPurge ==
  /\ reclaim = {}
  /\ \E S \in PurgeBatches : S # {} /\ row' = DeleteRows(S) /\ reclaim' = S
  /\ UNCHANGED <<blobs, create, limit, readers, served, purge>>

\* The DELETE commits and its rows are not read back (timeout, broken
\* connection): the sweep ends there.
SweepPurgeLost ==
  /\ reclaim = {}
  /\ \E S \in PurgeBatches : S # {} /\ row' = DeleteRows(S)
  /\ UNCHANGED <<blobs, create, limit, readers, served, reclaim, purge>>

\* A failed delete is logged and the loop goes on.
SweepBlob(l) ==
  /\ l \in reclaim
  /\ reclaim' = reclaim \ {l}
  /\ blobs' \in {blobs, blobs \ {l}}
  /\ UNCHANGED <<row, create, limit, readers, served, purge>>

SweepCrash ==
  /\ reclaim # {}
  /\ reclaim' = {}
  /\ UNCHANGED <<row, blobs, create, limit, readers, served, purge>>

-----------------------------------------------------------------------------
(* purgeUserAccount: the part about protected links, and DeleteUser *)

PurgeBegin ==
  /\ purge.user /\ ~purge.active
  /\ purge' = [purge EXCEPT !.begun = TRUE, !.active = TRUE, !.unlinked = {},
                            !.todo = {l \in Links : row[l].present}]
  /\ UNCHANGED <<row, blobs, create, limit, readers, served, reclaim>>

\* The blob first; an error other than "not found" ends this purge.
PurgeBlob(l) ==
  /\ purge.active /\ purge.unlinked = {} /\ l \in purge.todo
  /\ blobs' = blobs \ {l}
  /\ purge' = [purge EXCEPT !.unlinked = {l}]
  /\ UNCHANGED <<row, create, limit, readers, served, reclaim>>

PurgeRow(l) ==
  /\ purge.active /\ l \in purge.unlinked
  /\ row' = DeleteRows({l})
  /\ purge' = [purge EXCEPT !.unlinked = {}, !.todo = @ \ {l}]
  /\ UNCHANGED <<blobs, create, limit, readers, served, reclaim>>

\* Any failing step: the account deletion loop starts over later.
PurgeAbort ==
  /\ purge.active
  /\ purge' = [purge EXCEPT !.active = FALSE, !.todo = {}, !.unlinked = {}]
  /\ UNCHANGED <<row, blobs, create, limit, readers, served, reclaim>>

\* DELETE FROM users cascades to the link rows that are left.
PurgeUser ==
  /\ purge.active /\ purge.todo = {}
  /\ row' = DeleteRows(Links)
  /\ purge' = [purge EXCEPT !.active = FALSE, !.user = FALSE]
  /\ UNCHANGED <<blobs, create, limit, readers, served, reclaim>>

-----------------------------------------------------------------------------
ClockPasses(l) ==
  /\ row[l].present /\ row[l].age # "past"
  /\ row' = [row EXCEPT ![l] = [@ EXCEPT !.age = IF row[l].age = "valid" THEN "due" ELSE "past"]]
  /\ UNCHANGED <<blobs, create, limit, readers, served, reclaim, purge>>

Sweep == SweepPurge \/ \E l \in Links : SweepBlob(l)

Next ==
  \/ \E l \in Links : CreatePut(l) \/ CreateInsert(l) \/ CreateCrash(l)
  \/ \E r \in Readers, l \in Links : OpenConsume(r, l)
  \/ \E l \in Links : OpenConsumeLost(l)
  \/ \E r \in Readers : OpenFetch(r)
  \/ Sweep \/ SweepPurgeLost \/ SweepCrash
  \/ PurgeBegin \/ (\E l \in Links : PurgeBlob(l) \/ PurgeRow(l)) \/ PurgeAbort \/ PurgeUser
  \/ \E l \in Links : ClockPasses(l)

Spec == Init /\ [][Next]_vars

(* The sweeper's ticker keeps running, its statements and deletes do not   *)
(* fail for ever, and time passes.  Nothing is assumed of senders, readers *)
(* or account deletion.                                                    *)
Fairness ==
  /\ WF_vars(SweepPurge)
  /\ \A l \in Links : WF_vars(SweepBlob(l)) /\ WF_vars(ClockPasses(l))

FairSpec == Spec /\ Fairness

-----------------------------------------------------------------------------
(* Properties *)

(* However many readers open a link at once, and however often a sweep or  *)
(* a lost answer interferes, a link created for n views is answered with   *)
(* its ciphertext under the view numbers 1..n only (ConsumeView's single   *)
(* UPDATE; "concurrent recipients can never collectively exceed            *)
(* max_views").                                                            *)
ViewsWithinLimit == \A l \in Links : limit[l] > 0 => served[l] \subseteq 1 .. limit[l]

(* No view number is given to two requests, and none that was answered is  *)
(* still in flight: n distinct numbers are therefore n answers, so         *)
(* ViewsWithinLimit bounds the answers and not only their numbers.         *)
ViewNumberedOnce ==
  \A r \in Readers : Reading(r) =>
    /\ readers[r].view \notin served[readers[r].link]
    /\ \A q \in Readers \ {r} : readers[q] # readers[r]

(* The two columns that say a link is used up agree: burned_at, which      *)
(* ConsumeView tests and sets, and views against max_views, which          *)
(* PurgeExpired tests.  Otherwise a burned link would stay until it        *)
(* expires, or an openable one would be purged.                            *)
BurnedIsSpent == \A l \in Links : row[l].present => (row[l].burned <=> Spent(row[l]))

(* The unlock page is never told "expired" about a link that an open would *)
(* still serve: protectedLinkMeta repeats in Go the tests that ConsumeView *)
(* makes in SQL.                                                           *)
MetaAgrees == \A l \in Links : MetaExpired(row[l]) => ~Openable(row[l])

(* A link whose URL was handed out keeps its ciphertext as long as it can  *)
(* be opened, unless the sender's account is being purged: create writes   *)
(* the blob first, the sweeper deletes it last.                            *)
HandedOutIsOpenable ==
  \A l \in Links : (create[l] = "done" /\ row[l].present /\ ~purge.begun) => l \in blobs

(* A link that can no longer be opened because it expired loses its row:   *)
(* the LIMIT of one sweep, crashes and failing sweeps only delay it.       *)
ExpiredRowsPurged ==
  \A l \in Links : (row[l].present /\ row[l].age = "past") ~> ~row[l].present

(* ADR 0009: a request that consumed a view is answered with the           *)
(* ciphertext, so while it is in flight and no account purge runs, the     *)
(* ciphertext is there.                                                    *)
ConsumedViewHasBlob ==
  \A r \in Readers : (Reading(r) /\ ~purge.begun) => readers[r].link \in blobs

(* ADR 0009: the sweeper bounds how long a ciphertext is kept, so the blob *)
(* of a link that has expired is deleted in the end (or the account purge  *)
(* takes over).                                                            *)
ExpiredBlobsReclaimed ==
  \A l \in Links :
    (row[l].present /\ row[l].age = "past") ~> (l \notin blobs \/ purge.begun)
=============================================================================
