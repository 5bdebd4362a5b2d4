--------------------------- MODULE MCMailFilters ---------------------------
(***************************************************************************)
(* Two messages from the same sender and a third party's, and rule books   *)
(* that mark, archive or delete the mail of that sender.                   *)
(***************************************************************************)
EXTENDS MailFilters

Rule(id, priority, fact, type, dest) ==
  [id |-> id, enabled |-> TRUE, priority |-> priority,
   conditions |-> {[type |-> "sender", fact |-> fact]},
   actions |-> <<[type |-> type, folder |-> dest]>>]

MCRuleBooks ==
  {<<Rule(1, 0, "list", "mark_read", "")>>,
   <<Rule(1, 0, "list", "delete", "")>>,
   <<Rule(1, 0, "list", "mark_read", ""), Rule(2, 1, "boss", "move", "archive")>>}

MCFacts == <<{"list"}, {"list", "boss"}>>

(* The list under its keys and buttons, and the filter pass over it, are   *)
(* checked side by side.                                                   *)
VARIABLE part

PageInit ==
  /\ part \in {"list", "filters"} /\ FilterInit
  /\ part = "list" => book = CHOOSE b \in RuleBooks : TRUE

PageNext ==
  /\ \/ part = "list" /\ Next /\ UNCHANGED filterVars
     \/ part = "filters" /\ FilterNext
  /\ UNCHANGED part

PageSpec == PageInit /\ [][PageNext]_<<allVars, part>>
=============================================================================
