---------------------------- MODULE MailFilters ----------------------------
(***************************************************************************)
(* The client-side filter pass: the effect of MailApp that schedules it    *)
(* (static/mail/mail-app.jsx), the engine that evaluates the rules and     *)
(* applies their actions (mail-filter-engine.js) and the ledger that keeps *)
(* a rule from being applied twice (mail-filter-ledger.js), on top of the  *)
(* folder loads of MailList.  The user navigates and refreshes here; the   *)
(* operations of MailList are left out.                                    *)
(***************************************************************************)
EXTENDS MailList, Sequences, TLC

CONSTANTS
  RuleBooks,    \* The rule lists the account may have: sequences of rules.
  Facts         \* Facts[m]: the metadata facts a condition may ask about.

\* A rule is [id, enabled, priority, conditions, actions]; a condition is
\* [type, fact], an action [type, folder].

VARIABLES
  book,         \* Server: the rules of /api/v1/filters.
  passGen,      \* filterRunGenRef.
  timer,        \* The pass waiting for the 450 ms timer.
  passes,       \* The passes past it.
  ledger,       \* localStorage: the rules hash and an entry per message.
  applied       \* <<message, rule, rules>> whose actions all succeeded.

filterVars == <<book, passGen, timer, passes, ledger, applied>>
allVars == <<vars, filterVars>>

SupportedConditions == {"sender", "subject", "recipient", "body", "attachment", "size"}
SupportedActions == {"move", "mark_read", "delete"}

RULES_CAP == 50

\* Enabled rules, highest priority first, the order of the list breaking ties
\* (created_at), at most fifty.
normalizeRules(rules) ==
  LET on == SelectSeq(rules, LAMBDA r : r.enabled)
      sorted == SortSeq(on, LAMBDA r, s : r.priority > s.priority)
  IN  SubSeq(sorted, 1, IF Len(sorted) > RULES_CAP THEN RULES_CAP ELSE Len(sorted))

\* Conditions of an unsupported type never hold; the size is not known here.
conditionMatches(cond, m) ==
  cond.type \in SupportedConditions \ {"size"} /\ cond.fact \in Facts[m]

ruleMatches(rule, m) ==
  rule.conditions # {} /\ \A c \in rule.conditions : conditionMatches(c, m)

NoRule == [id |-> Null, actions |-> << >>]

pickFirstMatchingRule(rules, m) ==
  LET hits == {i \in 1 .. Len(rules) : ruleMatches(rules[i], m)}
  IN  IF hits = {} THEN NoRule ELSE rules[FirstRow(hits)]

filterSupportedActions(actions) == SelectSeq(actions, LAMBDA a : a.type \in SupportedActions)

-----------------------------------------------------------------------------
(* The ledger *)

NoEntries == [m \in {} |-> NoRule]

syncRulesHash(led, hash) == IF led.hash = hash THEN led ELSE [hash |-> hash, entries |-> NoEntries]

pruneMissing(led, ids) ==
  [led EXCEPT !.entries = [m \in DOMAIN led.entries \cap ids |-> led.entries[m]]]

record(led, m, rule, hash) ==
  [syncRulesHash(led, hash) EXCEPT
     !.entries = [n \in {m} \cup DOMAIN @ |-> IF n = m THEN rule ELSE @[n]]]

alreadyApplied(led, m, rule, hash) ==
  led.hash = hash /\ m \in DOMAIN led.entries /\ led.entries[m] = rule

-----------------------------------------------------------------------------
(* A pass *)

NoTimer == [gen |-> 0, msgs |-> {}]

\* The loop of pump over the messages of a pass, in list order, up to three
\* at a time: the messages it sends actions for, and the message and rule its
\* variables msg and hit are left with, which every callback of this call of
\* pump will read.
Hits(rules, led, msgs) ==
  {m \in msgs : LET hit == pickFirstMatchingRule(rules, m)
                IN  /\ filterSupportedActions(hit.actions) # << >>
                    /\ ~alreadyApplied(led, m, hit, rules)}

MaxConcurrent == 3

\* The messages one call of pump takes off the queue: it stops once it has
\* sent actions for as many messages as there are free places.
Taken(rules, led, queue, free) ==
  {m \in queue : Cardinality(Hits(rules, led, {n \in queue : n < m})) < free}

Pump(p, led) ==
  LET taken == Taken(p.rules, led, p.queue, MaxConcurrent - Cardinality(p.sent))
      hits  == Hits(p.rules, led, taken)
  IN  IF taken = {} THEN p
      ELSE [p EXCEPT
              !.queue = @ \ taken,
              !.sent  = @ \cup
                {[msg |-> m, rule |-> pickFirstMatchingRule(p.rules, m), step |-> 1,
                  lastMsg |-> LastRow(taken),
                  lastHit |-> pickFirstMatchingRule(p.rules, LastRow(taken))] : m \in hits}]

Finished(p) == p.sent = {} /\ p.queue = {}

-----------------------------------------------------------------------------
(* Actions *)

FilterInit ==
  /\ Init
  /\ book \in RuleBooks
  /\ passGen = 0 /\ timer = NoTimer /\ passes = {}
  /\ ledger = [hash |-> << >>, entries |-> NoEntries]
  /\ applied = {}

\* Fault: filterRunGenRef is not raised.
FilterEffectSameGen ==
  /\ timer' = IF view' = "mail" /\ folder' = "inbox"
                THEN [gen |-> passGen, msgs |-> DOMAIN list'] ELSE NoTimer
  /\ UNCHANGED <<book, passGen, passes, ledger, applied>>

\* The effect on messages, folder and view: it drops the timer, and on the
\* inbox starts a new one over the list as it is now.
FilterEffect ==
  /\ IF view' = "mail" /\ folder' = "inbox"
       THEN passGen' = passGen + 1 /\ timer' = [gen |-> passGen + 1, msgs |-> DOMAIN list']
       ELSE timer' = NoTimer /\ UNCHANGED passGen
  /\ UNCHANGED <<book, passes, ledger, applied>>

\* A load that is applied sets messages, whatever it holds.
Applied(l) == ApplyLoad(l) /\ IF l.gen = gen THEN FilterEffect ELSE UNCHANGED filterVars

Navigate ==
  /\ \/ \E f \in Folders : OpenFolder(f)
     \/ OpenSettings
  /\ IF UNCHANGED nav THEN UNCHANGED filterVars ELSE FilterEffect

Loads ==
  \/ Refresh /\ UNCHANGED filterVars
  \/ \E l \in loads : Applied(l)
  \/ \E l \in loads : ServeLoad(l) /\ UNCHANGED filterVars

\* The settings page replaces the rules.
ChangeRules ==
  /\ view = "settings"
  /\ book' \in RuleBooks \ {book}
  /\ UNCHANGED <<vars, passGen, timer, passes, ledger, applied>>

\* The timer fires and listFilters is called.
FireTimer ==
  /\ timer # NoTimer
  /\ timer' = NoTimer
  /\ passes' = passes \cup
       {[gen |-> timer.gen, running |-> FALSE, rules |-> << >>, queue |-> timer.msgs,
         sent |-> {}, reload |-> FALSE]}
  /\ UNCHANGED <<vars, book, passGen, ledger, applied>>

\* What is left of pass p: nothing once it has finished, and then the inbox is
\* loaded again if any actions were recorded.
Continue(p, q) ==
  IF Finished(q)
    THEN /\ passes' = passes \ {p}
         /\ IF q.reload THEN loadFolder("inbox") ELSE UNCHANGED loadVars
    ELSE passes' = (passes \ {p}) \cup {q} /\ UNCHANGED loadVars

UnchangedByPass ==
  UNCHANGED <<nav, list, shown, sel, modal, confirming, bulkBusy, ops, reads, faults,
              book, passGen, timer>>

\* The rules arrive: a pass that a later effect has overtaken ends here.
RulesArrive(p) ==
  LET rules == normalizeRules(book)
      led   == pruneMissing(syncRulesHash(ledger, rules), p.queue)
  IN  /\ ~p.running
      /\ IF p.gen # passGen \/ p.queue = {}
           THEN passes' = passes \ {p} /\ UNCHANGED <<ledger, loadVars>>
           ELSE /\ ledger' = led
                /\ Continue(p, Pump([p EXCEPT !.running = TRUE, !.rules = rules], led))
      /\ UNCHANGED <<server, applied>> /\ UnchangedByPass

\* One request of applyActions.
ApplyAction(p, r) ==
  LET acts == filterSupportedActions(r.rule.actions)
      act  == acts[r.step]
      place == CASE act.type = "move" -> act.folder
                 [] act.type = "delete" -> IF box[r.msg] = "trash" THEN "gone" ELSE "trash"
                 [] OTHER -> box[r.msg]
  IN  /\ r \in p.sent /\ r.step <= Len(acts) /\ box[r.msg] # "gone"
      /\ box' = [box EXCEPT ![r.msg] = place]
      /\ seen' = IF act.type = "mark_read" THEN seen \cup {r.msg} ELSE seen
      /\ passes' = (passes \ {p}) \cup
           {[p EXCEPT !.sent = (@ \ {r}) \cup {[r EXCEPT !.step = @ + 1]}]}
      /\ UNCHANGED <<loadVars, ledger, applied>> /\ UnchangedByPass

\* All actions of a message succeeded: the callback writes the ledger entry of
\* the message msg names by now, or throws when hit is null by now; then the
\* queue is pumped again.
ActionsDone(p, r) ==
  LET rest == [p EXCEPT !.sent = @ \ {r}]
      led  == record(ledger, r.lastMsg, r.lastHit, p.rules)
  IN  /\ r \in p.sent /\ r.step > Len(filterSupportedActions(r.rule.actions))
      /\ applied' = applied \cup {<<r.msg, r.rule, p.rules>>}
      /\ IF r.lastHit = NoRule
           THEN UNCHANGED ledger /\ Continue(p, Pump(rest, ledger))
           ELSE ledger' = led /\ Continue(p, Pump([rest EXCEPT !.reload = TRUE], led))
      /\ UNCHANGED server /\ UnchangedByPass

\* A request fails: the message is gone.
ActionFails(p, r) ==
  /\ r \in p.sent /\ r.step <= Len(filterSupportedActions(r.rule.actions)) /\ box[r.msg] = "gone"
  /\ Continue(p, Pump([p EXCEPT !.sent = @ \ {r}], ledger))
  /\ UNCHANGED <<server, ledger, applied>> /\ UnchangedByPass

FilterNext ==
  \/ Navigate \/ Loads \/ ChangeRules \/ FireTimer
  \/ \E p \in passes :
       \/ RulesArrive(p)
       \/ \E r \in p.sent : ApplyAction(p, r) \/ ActionsDone(p, r) \/ ActionFails(p, r)

FilterSpec == FilterInit /\ [][FilterNext]_allVars

-----------------------------------------------------------------------------
(* Properties *)

FilterTypeOK ==
  /\ book \in RuleBooks /\ passGen \in Nat /\ timer.msgs \subseteq Messages
  /\ \A p \in passes : p.gen \in 1 .. passGen /\ p.queue \subseteq Messages
  /\ DOMAIN ledger.entries \subseteq Messages

\* A pass that begins while the inbox is open evaluates the list that is on
\* screen: the generation drops every pass an effect has overtaken.
PassIsCurrent ==
  [][\A p \in passes, q \in passes' :
       /\ p.gen = q.gen /\ ~p.running /\ q.running
       /\ view = "mail" /\ folder = "inbox"
       => p.queue = DOMAIN list]_allVars

\* "Client-side filter rules: evaluate on decrypted inbox metadata": the
\* actions of a rule go to messages that were listed from the inbox.
InboxOnly ==
  [][\A p \in passes, q \in passes' :
       p.gen = q.gen /\ ~p.running /\ q.running => \A r \in q.sent : box[r.msg] = "inbox"]_allVars

\* "Client-side idempotence for mail filter actions": an entry of the ledger
\* names a message whose actions all succeeded under these rules.
LedgerIsTrue ==
  \A m \in DOMAIN ledger.entries : <<m, ledger.entries[m], ledger.hash>> \in applied

\* A rule is not applied a second time to a message under the same rules.
AppliedOnce ==
  \A p \in passes, r \in UNION {q.sent : q \in passes} :
    r \in p.sent /\ r.step = 1 => <<r.msg, r.rule, p.rules>> \notin applied
=============================================================================
