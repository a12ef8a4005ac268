----------------------------- MODULE Suppressions -----------------------------
(***************************************************************************)
(* What hides a finding from the working queue, and what brings it back:    *)
(* suppression rules (written by admins, learned, or proposed and          *)
(* reviewed), the verification of credentials, and the correlation of      *)
(* duplicates.  A hidden row has one reason; "rule:<id>" is how a rule     *)
(* finds its rows again when it is switched off, edited or deleted.        *)
(*                                                                         *)
(* Findings are ORM objects with a version, which fails the commit of a    *)
(* session whose row somebody else has written; rules have none.           *)
(* unapply_rule is a Core UPDATE: it changes rows under the sessions that  *)
(* hold them, unseen.  An attribute is written only if the session changes *)
(* the value it loaded.                                                    *)
(*                                                                         *)
(* Abstracted: a rule's criteria are the findings they match.  What a scan *)
(* stores is one commit, not one per chunk.                                *)
(***************************************************************************)
EXTENDS Naturals, FiniteSets

CONSTANTS
    Findings,      \* rows of findings
    Twins,         \* those at one place of one file with one value
    Rules,         \* ids of rules
    Admins,        \* requests under way at a time
    Scans,         \* executions of scans under way at a time
    Hooks,         \* those of webhooks and of sources: all their rows are new
    NoRule,        \* not a rule
    MaxScans,      \* bound: scans
    MaxRequests    \* bound: requests

ASSUME SuppressionBounds ==
    /\ Twins \subseteq Findings /\ Hooks \subseteq Scans /\ NoRule \notin Rules \cup Scans
    /\ IsFiniteSet(Rules) /\ Rules \cap {"none", "verified", "duplicate"} = {}
    /\ MaxScans \in Nat /\ MaxRequests \in Nat

VARIABLES
    scope,      \* rules: what the criteria match; {} is no row
    active, review,
    deleted,    \* ids of rules deleted
    rows, hidden,
    reason,     \* suppression_reason
    phase,      \* how far a scan is
    known,      \* the rules it loaded; until then those active when it began
    held,       \* rows it loaded when it began
    stale,      \* those written by somebody else's ORM since
    dim,        \* those that are hidden as far as it knows
    found,      \* the rows it stored
    desk,       \* what a request has read, or is about to do
    raced,      \* history: rows hidden by a rule that was not any more what it was
    scans, requests

ruleVars == <<scope, active, review, deleted>>
findingVars == <<rows, hidden, reason>>
sessionVars == <<phase, known, held, stale, dim, found>>
suppressionVars == <<ruleVars, findingVars, sessionVars, desk, raced, scans, requests>>

Live    == {r \in Rules : scope[r] # {}}
Visible == rows \ hidden
Nothing == [r \in Rules |-> {}]
Idle    == [doing |-> "nothing", rule |-> NoRule, was |-> FALSE, pend |-> FALSE, rows |-> {}]

\* _active_rules: a proposal awaiting review suppresses nothing, active or not.
Enabled == [r \in Rules |-> IF r \in active /\ review[r] # "pending" THEN scope[r] ELSE {}]

\* Rows a deletion has restored and not yet committed: who writes them waits.
Locked  == UNION {desk[a].rows : a \in {b \in Admins : desk[b].doing = "delete"}}
Dying   == {desk[a].rule : a \in {b \in Admins : desk[b].doing = "delete"}}

SuppressionInit ==
    /\ scope = Nothing /\ active = {} /\ review = [r \in Rules |-> "none"] /\ deleted = {}
    /\ rows = {} /\ hidden = {} /\ reason = [f \in Findings |-> "none"]
    /\ phase = [s \in Scans |-> "idle"] /\ known = [s \in Scans |-> Nothing]
    /\ held = [s \in Scans |-> {}] /\ stale = [s \in Scans |-> {}]
    /\ dim = [s \in Scans |-> {}] /\ found = [s \in Scans |-> {}]
    /\ desk = [a \in Admins |-> Idle] /\ raced = {} /\ scans = 0 /\ requests = 0

-----------------------------------------------------------------------------
(* Writing rows of findings *)

\* An ORM write of F changes the version; a scan that is over holds nothing.
Written(s, F) ==
    stale' = [t \in Scans |-> IF phase'[t] = "idle" THEN {}
                              ELSE IF t = s THEN stale[t] ELSE stale[t] \cup (F \cap held[t])]

\* Scan s goes on to p with the rows F, those of D hidden as far as it knows.
Moves(s, p, F, D) ==
    /\ phase' = [phase EXCEPT ![s] = p]
    /\ known' = [known EXCEPT ![s] = IF p = "idle" THEN Nothing ELSE known[s]]
    /\ held'  = [held EXCEPT ![s] = IF p = "idle" THEN {} ELSE held[s] \cup F]
    /\ dim'   = [dim EXCEPT ![s] = IF p = "idle" THEN {} ELSE D]
    /\ found' = [found EXCEPT ![s] = IF p = "idle" THEN {} ELSE F]

HiddenBy(r) == {f \in hidden : reason[f] = r}

\* Rule r hides W (apply_rule_to_existing) after the rows of U came back
\* (unapply_rule).  By saw it is what it was when its criteria were read.
Rehide(r, U, W, saw) ==
    /\ (U \cup W) \cap Locked = {}
    /\ hidden' = (hidden \ U) \cup W
    /\ reason' = [f \in Findings |-> IF f \in W THEN r
                                     ELSE IF f \in U THEN "none" ELSE reason[f]]
    /\ raced' = (raced \ U) \cup (IF saw /\ r \notin Dying THEN {} ELSE W)
    /\ UNCHANGED <<rows, phase, known, held, dim, found, scans>>
    /\ Written(NoRule, W)

-----------------------------------------------------------------------------
(* Admins *)

Request(a) == desk[a] = Idle /\ requests < MaxRequests /\ requests' = requests + 1

Unused(r) == r \notin Live \cup deleted

\* create_suppression_rule: saved, and applied to the findings there are.
Create(a, r, S) ==
    /\ Unused(r) /\ Request(a)
    /\ scope' = [scope EXCEPT ![r] = S] /\ active' = active \cup {r}
    /\ Rehide(r, {}, S \cap Visible, TRUE)
    /\ UNCHANGED <<review, deleted, desk>>

\* sync_learned_rules: what people ruled makes an active rule, what the AI
\* said a proposal.  Neither is applied to the findings there are.
AddLearned(r, S, proposed) ==
    /\ Unused(r)
    /\ scope' = [scope EXCEPT ![r] = S]
    /\ active' = IF proposed THEN active ELSE active \cup {r}
    /\ review' = [review EXCEPT ![r] = IF proposed THEN "pending" ELSE "none"]
    /\ UNCHANGED deleted

\* trigger_learning.
Learn(a, r, S, proposed) ==
    /\ Request(a) /\ AddLearned(r, S, proposed)
    /\ UNCHANGED <<findingVars, sessionVars, desk, raced, scans>>

\* An edit or a review reads the rule.
Open(a, r) ==
    /\ r \in Live /\ Request(a)
    /\ desk' = [desk EXCEPT ![a] = [doing |-> "edit", rule |-> r, was |-> r \in active,
                                    pend |-> review[r] = "pending", rows |-> scope[r]]]
    /\ UNCHANGED <<ruleVars, findingVars, sessionVars, raced, scans>>

\* "Switching a pending proposal to Active IS approving it".
IsApproval(d, on) == d.pend /\ on

\* update_suppression_rule, with is_active on and criteria to.  Written is what
\* differs from what was read; then the row is read again.
Edit(a, on, to) ==
    LET d    == desk[a]
        r    == d.rule
        now  == IF on # d.was THEN on ELSE r \in active
        crit == to # d.rows
        S    == IF crit THEN to ELSE scope[r]
        U    == IF IF now THEN crit ELSE d.was THEN HiddenBy(r) ELSE {}
        W    == IF now /\ (~d.was \/ crit) THEN S \cap (Visible \cup U) ELSE {}
    IN  /\ d.doing = "edit" /\ r \in Live /\ ~IsApproval(d, on)
        /\ active' = IF now THEN active \cup {r} ELSE active \ {r}
        /\ scope' = [scope EXCEPT ![r] = S]
        /\ Rehide(r, U, W, TRUE)
        /\ desk' = [desk EXCEPT ![a] = Idle]
        /\ UNCHANGED <<review, deleted, requests>>

\* review_proposal; 409 if the rule is not awaiting review.  A rejection sets
\* is_active to the FALSE it read, which writes nothing.  The criteria applied are
\* those that were read.
Decide(a, approve) ==
    LET d == desk[a]
        r == d.rule
    IN  /\ d.doing = "edit" /\ r \in Live /\ d.pend
        /\ review' = [review EXCEPT ![r] = IF approve THEN "approved" ELSE "rejected"]
        /\ active' = IF approve THEN active \cup {r} ELSE active
        /\ Rehide(r, {}, IF approve THEN d.rows \cap Visible ELSE {}, d.rows = scope[r])
        /\ desk' = [desk EXCEPT ![a] = Idle]
        /\ UNCHANGED <<scope, deleted, requests>>

\* Mutant: the rows stay hidden.
RestoresNothing(r) == {}

\* "Restore what this rule hid".
Restores(r) == HiddenBy(r)

\* delete_suppression_rule: the rows come back first ...
BeginDelete(a, r) ==
    /\ r \in Live /\ Request(a)
    /\ Restores(r) \cap Locked = {}
    /\ desk' = [desk EXCEPT ![a] = [doing |-> "delete", rule |-> r, was |-> FALSE,
                                    pend |-> FALSE, rows |-> Restores(r)]]
    /\ UNCHANGED <<ruleVars, findingVars, sessionVars, raced, scans>>

\* ... then the rule goes, and both are committed.
FinishDelete(a) ==
    LET U == desk[a].rows
    IN  /\ desk[a].doing = "delete"
        /\ scope' = [scope EXCEPT ![desk[a].rule] = {}]
        /\ active' = active \ {desk[a].rule} /\ deleted' = deleted \cup {desk[a].rule}
        /\ hidden' = hidden \ U /\ raced' = raced \ U
        /\ reason' = [f \in Findings |-> IF f \in U THEN "none" ELSE reason[f]]
        /\ desk' = [desk EXCEPT ![a] = Idle]
        /\ UNCHANGED <<review, rows, sessionVars, scans, requests>>

\* A request that fails, or finds its rule gone, changes nothing.
Drop(a) ==
    /\ desk[a] # Idle /\ desk' = [desk EXCEPT ![a] = Idle]
    /\ UNCHANGED <<ruleVars, findingVars, sessionVars, raced, scans, requests>>

-----------------------------------------------------------------------------
(* Scans of a repository *)

\* The findings of the repository are loaded before the first is stored.
Begin(s) ==
    /\ phase[s] = "idle" /\ scans < MaxScans /\ scans' = scans + 1
    /\ phase' = [phase EXCEPT ![s] = IF s \in Hooks THEN "ruled" ELSE "storing"]
    /\ known' = [known EXCEPT ![s] = Enabled]
    /\ held' = [held EXCEPT ![s] = IF s \in Hooks THEN {} ELSE rows]
    /\ dim' = [dim EXCEPT ![s] = IF s \in Hooks THEN {} ELSE hidden]
    /\ UNCHANGED <<ruleVars, findingVars, stale, found, desk, raced, requests>>

\* Mutant: findings without a version column.
ClashNever(s, W) == FALSE

\* StaleDataError.
Clash(s, W) == W \cap stale[s] # {}

\* Mutant: a live credential brings its finding back, whatever hid it.
ComesBackAlways(s, f) == TRUE

\* "only touch rows WE suppressed".
ComesBack(s, f) == reason[f] = "verified" /\ f \notin dim[s] \ hidden

VerifiedReason(F) == [f \in Findings |-> IF f \in F THEN "verified" ELSE reason[f]]

\* The secrets in F were found; verification proved those in Dead revoked and
\* those in Alive valid.  Without a new row the rules are not asked.
Store(s, F, Dead, Alive) ==
    LET back == {f \in Alive \cap held[s] : ComesBack(s, f)}
    IN  /\ phase[s] = "storing" /\ F # {} /\ F \cap rows \subseteq held[s]
        /\ Dead \cup Alive \subseteq F /\ Dead \cap Alive = {}
        /\ ~Clash(s, F) /\ F \cap Locked = {}
        /\ rows' = rows \cup F
        /\ hidden' = (hidden \cup (Dead \ dim[s])) \ back
        /\ reason' = [f \in Findings |-> IF f \in back THEN "none" ELSE VerifiedReason(Dead)[f]]
        /\ raced' = raced \ (Dead \cup back)
        /\ Moves(s, IF F \subseteq held[s] THEN "idle" ELSE "stored", F,
                 (dim[s] \cup Dead) \ back)
        /\ Written(s, F)
        /\ UNCHANGED <<ruleVars, desk, scans, requests>>

LoadRules(s) ==
    /\ phase[s] = "stored" /\ phase' = [phase EXCEPT ![s] = "ruled"]
    /\ known' = [known EXCEPT ![s] = Enabled]
    /\ UNCHANGED <<ruleVars, findingVars, held, stale, dim, found, desk, raced, scans, requests>>

\* The orders in which a query may return the rules.
Orders == {o \in [Rules -> 1 .. Cardinality(Rules)] :
              \A q, r \in Rules : o[q] = o[r] => q = r}

\* apply_suppression_rules with rules K on the rows F: the first that matches
\* owns the row.  "Findings already suppressed are left alone": by what the session
\* knows.  The count of a rule is written: it must still be there.
Apply(s, to, F, K, there, order) ==
    LET W     == {f \in F \ dim[s] : \E r \in Rules : f \in K[r]}
        by[f \in W] == CHOOSE r \in Rules :
                          /\ f \in K[r]
                          /\ \A q \in Rules : f \in K[q] => order[r] <= order[q]
    IN  /\ ~Clash(s, W) /\ W \cap Locked = {}
        /\ \A f \in W : by[f] \in there
        /\ hidden' = hidden \cup W
        /\ reason' = [f \in Findings |-> IF f \in W THEN by[f] ELSE reason[f]]
        /\ raced' = raced \cup {f \in W : by[f] \in Dying
                                           \/ (by[f] \in Live /\ Enabled[by[f]] # K[by[f]])}
        /\ Moves(s, to, found[s], dim[s] \cup W)
        /\ Written(s, W)

\* Step 4b, when learning finds nothing new, and when it adds a rule.
Pass(s, order) ==
    /\ phase[s] = "ruled" /\ s \notin Hooks
    /\ Apply(s, "passed", found[s], known[s], Live, order)
    /\ UNCHANGED <<ruleVars, rows, desk, scans, requests>>

LearnAndPass(s, r, S, proposed, order) ==
    /\ phase[s] = "ruled" /\ s \notin Hooks /\ AddLearned(r, S, proposed)
    /\ Apply(s, "passed", found[s], [known[s] EXCEPT ![r] = IF proposed THEN {} ELSE S],
             Live \cup {r}, order)
    /\ UNCHANGED <<rows, desk, scans, requests>>

\* "org_learning_failed": rolled back, every object is read again.
PassLost(s) ==
    /\ phase[s] = "ruled" /\ s \notin Hooks /\ phase' = [phase EXCEPT ![s] = "passed"]
    /\ held' = [held EXCEPT ![s] = {}]
    /\ stale' = [stale EXCEPT ![s] = {}] /\ dim' = [dim EXCEPT ![s] = {}]
    /\ UNCHANGED <<ruleVars, findingVars, known, found, desk, raced, scans, requests>>

\* correlate_findings: of the visible rows at one place with one value, one stays.
Correlate(s, keep) ==
    LET D == (Twins \cap Visible) \ {keep}
    IN  /\ phase[s] = "passed" /\ Moves(s, "idle", {}, {})
        /\ Twins \cap Visible # {} => keep \in Twins \cap Visible
        /\ ~Clash(s, D) /\ D \cap Locked = {}
        /\ hidden' = hidden \cup (D \ dim[s])
        /\ reason' = [f \in Findings |-> IF f \in D THEN "duplicate" ELSE reason[f]]
        /\ Written(s, D)
        /\ raced' = raced \ D
        /\ UNCHANGED <<ruleVars, rows, desk, scans, requests>>

\* A webhook's or source's scan: its rows and what the rules do to them are one commit.
HookStore(s, F, order) ==
    /\ phase[s] = "ruled" /\ s \in Hooks /\ F # {} /\ F \cap rows = {}
    /\ rows' = rows \cup F
    /\ Apply(s, "idle", F, known[s], Live, order)
    /\ UNCHANGED <<ruleVars, desk, scans, requests>>

\* A conflict, an error, a cancel: what is not committed is lost.
Abort(s) ==
    /\ phase[s] # "idle" /\ Moves(s, "idle", {}, {}) /\ Written(s, {})
    /\ UNCHANGED <<ruleVars, findingVars, desk, raced, scans, requests>>

-----------------------------------------------------------------------------
Criteria == (SUBSET Findings) \ {{}}

AdminStep(a) ==
    \/ \E r \in Rules : Open(a, r) \/ BeginDelete(a, r)
    \/ \E r \in Rules, S \in Criteria :
          Create(a, r, S) \/ \E proposed \in BOOLEAN : Learn(a, r, S, proposed)
    \/ \E on \in BOOLEAN, to \in Criteria : Edit(a, on, to)
    \/ \E approve \in BOOLEAN : Decide(a, approve)
    \/ FinishDelete(a)
    \/ Drop(a)

ScanStep(s) ==
    \/ Begin(s)
    \/ \E F \in Criteria : \E Dead, Alive \in SUBSET F : Store(s, F, Dead, Alive)
    \/ LoadRules(s)
    \/ \E order \in Orders :
          \/ Pass(s, order)
          \/ \E r \in Rules, S \in Criteria, proposed \in BOOLEAN :
                LearnAndPass(s, r, S, proposed, order)
          \/ \E F \in Criteria : HookStore(s, F, order)
    \/ PassLost(s)
    \/ \E keep \in Findings : Correlate(s, keep)
    \/ Abort(s)

SuppressionNext == (\E a \in Admins : AdminStep(a)) \/ (\E s \in Scans : ScanStep(s))

SuppressionSpec == SuppressionInit /\ [][SuppressionNext]_suppressionVars

-----------------------------------------------------------------------------
(* Properties *)

Reasons  == Rules \cup {"none", "verified", "duplicate"}
Requests == [doing : {"nothing", "edit", "delete"}, rule : Rules \cup {NoRule},
             was : BOOLEAN, pend : BOOLEAN, rows : SUBSET Findings]

\* Every variable has its type; a session holds rows only while its scan runs.
SuppressionTypeOK ==
    /\ scope \in [Rules -> SUBSET Findings] /\ active \subseteq Live
    /\ review \in [Rules -> {"none", "pending", "approved", "rejected"}]
    /\ deleted \subseteq Rules \ Live
    /\ rows \subseteq Findings /\ hidden \subseteq rows /\ raced \subseteq hidden
    /\ reason \in [Findings -> Reasons]
    /\ phase \in [Scans -> {"idle", "storing", "stored", "ruled", "passed"}]
    /\ known \in [Scans -> [Rules -> SUBSET Findings]]
    /\ \A set \in {held, stale, dim, found} : set \in [Scans -> SUBSET rows]
    /\ \A s \in Scans : /\ stale[s] \cup dim[s] \subseteq held[s]
                        /\ phase[s] = "idle" => held[s] = {}
    /\ desk \in [Admins -> Requests]
    /\ scans \in 0 .. MaxScans /\ requests \in 0 .. MaxRequests

\* The two columns agree as far as unapply_rule relies on it: a hidden row has a
\* reason, and no visible row carries the mark of a rule, whatever write to one
\* of the columns met a restore of the row.
ReasonsMatch ==
    /\ \A f \in hidden : reason[f] # "none"
    /\ \A f \in Visible : reason[f] \notin Rules

\* A row hidden by a rule is hidden by a rule there is, that is active and matches
\* it: switching off, editing and deleting leave none behind.  Excepted are the
\* rows hidden by a session that had read the rule before.
OrphansNeedARace ==
    \A f \in hidden \ raced : reason[f] \in Rules =>
        reason[f] \in active /\ f \in scope[reason[f]]

\* "A proposal awaiting review must never suppress": not by any way of making it
\* active, and not with several requests on it under way.
PendingHidesNothing ==
    \A f \in hidden : reason[f] \in Rules => review[reason[f]] # "pending"

\* What is hidden, is hidden for a reason that holds: the columns agree, rules that
\* are gone or were changed leave nothing behind, and a proposal hides nothing.
SuppressionInv ==
    SuppressionTypeOK /\ ReasonsMatch /\ OrphansNeedARace /\ PendingHidesNothing

\* The reason of a hidden row is replaced by verification alone: by a scan whose store
\* found the credential dead, on a row it had loaded and nobody had written since.
\* It takes rows of rules and duplicates too.  No rule takes a row that is hidden.
OnlyVerificationTakes ==
    [][\A f \in hidden : reason'[f] # reason[f] =>
          \/ f \notin hidden' /\ reason'[f] = "none"
          \/ /\ reason'[f] = "verified"
             /\ \E s \in Scans : /\ phase[s] = "storing" /\ phase'[s] # "storing"
                                 /\ f \in held[s] \ stale[s]]_suppressionVars

\* Nobody brings back a row that is another's by then: a rule that is switched off,
\* edited or deleted only its own, a live credential only those of verification.
OnlyOwnReverted ==
    [][\A f \in hidden \ hidden' :
          \/ reason[f] = "verified"
          \/ \E a \in Admins : desk[a] # desk'[a] /\ reason[f] = desk[a].rule]_suppressionVars

\* Reasons change hands only to verification, and each brings back only its own rows.
ReasonsAreOwn == OnlyVerificationTakes /\ OnlyOwnReverted
=============================================================================
