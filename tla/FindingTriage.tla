----------------------------- MODULE FindingTriage -----------------------------
(***************************************************************************)
(* Who decides about a finding.  The occurrences of one secret, their      *)
(* incident, the decision cache, and the four parties that write them:     *)
(* people (on one finding, on a selection, on the incident), repository    *)
(* scans (store, then replay cached decisions), the AI triage that ends a  *)
(* scan, and the deletion of old scans.                                    *)
(*                                                                         *)
(* People cascade their verdict to the siblings with Core UPDATEs, which   *)
(* do not touch the version column; their own row is an ORM write, which   *)
(* does.  A scan replays cached decisions on rows it has selected, one     *)
(* lookup after the other, and the AI waits for the model for minutes:     *)
(* both write back objects they loaded before.                             *)
(*                                                                         *)
(* Abstracted: the two LIKELY_* verdicts are "likely", CONFIRMED_* is      *)
(* "confirmed", the closed classes without actor and without date are      *)
(* "rotated".  A scan's store is one step, and so is the flush and the     *)
(* commit of a replay: the rows are locked between them.  A SELECT gives   *)
(* what is committed; an object the session still held with an older       *)
(* version makes the scan fail, as it may in any step.                     *)
(* A refused request (409) changes nothing and is left out.                *)
(***************************************************************************)
EXTENDS Naturals

CONSTANTS
    Findings,      \* occurrences of the secret: stability ids
    Scans,         \* scans of the repository at a time, one per branch
    MaxScans,      \* bound: scans
    MaxRequests,   \* bound: requests by people
    MaxCode        \* bound: changes of the code around an occurrence

ASSUME TriageBounds == MaxScans \in Nat /\ MaxRequests \in Nat /\ MaxCode \in Nat

VARIABLES
    class,      \* classification; "none" is no row
    closed,     \* rows whose status is resolved or dismissed
    named,      \* rows with a classification_provenance
    author,     \* history: who wrote the class last
    code,       \* code_hash
    cache,      \* finding_decision_cache
    incident,   \* the incident's classification
    phase,      \* where a scan is
    loaded,     \* its ORM objects
    stale,      \* those whose version has changed since
    unasked,    \* its rows after the store, then objects not looked up yet
    answer,     \* the decisions found for the others
    scans, requests

rowVars   == <<class, closed, named, author>>
phaseVars == <<phase, loaded, stale, unasked, answer>>
lookupVars == <<unasked, answer>>
triageVars == <<rowVars, code, cache, incident, phaseVars, scans, requests>>

Undecided == {"needs_review", "likely"}
Closing   == {"confirmed", "accepted_risk", "rotated"}
Classes   == Undecided \cup Closing \cup {"none"}
Verdicts  == Closing \cup {"needs_review"}    \* what a person may say: reopen too

NoDecision == [class |-> "none", by |-> "nobody", code |-> 0, lapsed |-> FALSE]

Unanswered == [f \in Findings |-> NoDecision]

Rows == {f \in Findings : class[f] # "none"}

TriageInit ==
    /\ class = [f \in Findings |-> "none"] /\ closed = {} /\ named = {}
    /\ author = [f \in Findings |-> "nobody"]
    /\ code = [f \in Findings |-> 0] /\ cache = [f \in Findings |-> NoDecision]
    /\ incident = "none"
    /\ phase = [s \in Scans |-> "idle"] /\ loaded = [s \in Scans |-> {}]
    /\ stale = [s \in Scans |-> {}]
    /\ unasked = [s \in Scans |-> {}] /\ answer = [s \in Scans |-> Unanswered]
    /\ scans = 0 /\ requests = 0

-----------------------------------------------------------------------------
(* Writing rows *)

\* Everything that is written with a class: what set_classification and
\* mirror_lifecycle do to an object, and a Core UPDATE does in its statement.
Write(W, new, who) ==
    /\ class' = [f \in Findings |-> IF f \in W THEN new[f] ELSE class[f]]
    /\ closed' = (closed \ W) \cup {f \in W : new[f] \in Closing}
    /\ named' = named \cup {f \in W : new[f] = "confirmed"}
    /\ author' = [f \in Findings |-> IF f \in W THEN who[f] ELSE author[f]]

\* An ORM write bumps the version of a row, under every session that holds it.
Bump(F) == stale' = [s \in Scans |-> stale[s] \cup (F \cap loaded[s])]

\* Mutant: every occurrence follows, also one a person ruled on.
AllFollow == Rows

\* propagate_to_occurrences: the rows of the incident nobody has ruled on.
Followers == {f \in Rows : class[f] \in Undecided}

All(x) == [f \in Findings |-> x]

-----------------------------------------------------------------------------
(* People *)

Request == requests < MaxRequests /\ requests' = requests + 1

\* triage_finding: its row, the incident, the undecided siblings, the cache.
TriageFinding(f, c) ==
    /\ f \in Rows /\ Request
    /\ Write({f} \cup Followers, All(c), [All("cascade") EXCEPT ![f] = "person"])
    /\ incident' = c
    /\ cache' = [cache EXCEPT ![f] = [class |-> c, by |-> "user", code |-> code[f],
                                      lapsed |-> FALSE]]
    /\ Bump({f})
    /\ UNCHANGED <<code, phase, loaded, lookupVars, scans>>

\* bulk_triage_findings: rows in the class already are skipped, the cache is
\* not written.
BulkTriage(F, c) ==
    LET changed == {f \in F : class[f] # c}
    IN  /\ F \subseteq Rows /\ changed # {} /\ Request
        /\ Write(changed \cup Followers, All(c),
                 [g \in Findings |-> IF g \in changed THEN "person" ELSE "cascade"])
        /\ incident' = c
        /\ Bump(changed)
        /\ UNCHANGED <<code, cache, phase, loaded, lookupVars, scans>>

\* patch_incident, and the incidents' bulk actions.
PatchIncident(c) ==
    /\ incident # "none" /\ Request
    /\ incident' = c
    /\ Write(Followers, All(c), All("cascade"))
    /\ UNCHANGED <<code, cache, phaseVars, scans>>

\* delete_scan takes the rows only that scan had seen with it: no version of them
\* matches any more.
DeleteRows(F) ==
    /\ F # {} /\ F \subseteq Rows /\ Request
    /\ class' = [f \in Findings |-> IF f \in F THEN "none" ELSE class[f]]
    /\ closed' = closed \ F /\ named' = named \ F
    /\ author' = [f \in Findings |-> IF f \in F THEN "nobody" ELSE author[f]]
    /\ Bump(F)
    /\ UNCHANGED <<code, cache, incident, phase, loaded, lookupVars, scans>>

\* The date of a risk acceptance passes.
Lapse(f) ==
    /\ cache[f].class = "accepted_risk" /\ ~cache[f].lapsed
    /\ cache' = [cache EXCEPT ![f].lapsed = TRUE]
    /\ UNCHANGED <<rowVars, code, incident, phaseVars, scans, requests>>

-----------------------------------------------------------------------------
(* Scans *)

\* Mutant: the hash of the code is not compared.
HitAnyCode(f, h) == cache[f] # NoDecision /\ ~cache[f].lapsed

\* lookup_cache for code h: a decision that has not lapsed, on the same code.
Hit(f, h) ==
    /\ cache[f] # NoDecision /\ ~cache[f].lapsed
    /\ cache[f].code = h

\* Step 4d's classification_map: a class it does not know is NEEDS_REVIEW, and
\* a confirmation nobody is named for is downgraded.
Replayed(d) ==
    CASE d.class = "rotated" -> "needs_review"
      [] d.class = "confirmed" /\ d.by # "user" -> "likely"
      [] OTHER -> d.class

Goes(s, to) == phase' = [phase EXCEPT ![s] = to]
Forgets(s)  == unasked' = [unasked EXCEPT ![s] = {}] /\ answer' = [answer EXCEPT ![s] = Unanswered]

\* A scan finds the secret in F, with changed code in C.  New rows need review,
\* rows that exist keep their class; all are rows of this scan now.  Only if
\* there is a new row does step 4d follow.
StoreScan(s, F, C) ==
    /\ phase[s] = "idle" /\ scans < MaxScans /\ scans' = scans + 1
    /\ F # {} /\ C \subseteq F /\ \A f \in C : code[f] < MaxCode
    /\ code' = [f \in Findings |-> IF f \in C THEN code[f] + 1 ELSE code[f]]
    /\ Write(F \ Rows, All("needs_review"), All("nobody"))
    /\ incident' = IF incident = "none" THEN "needs_review" ELSE incident
    /\ Goes(s, IF F \subseteq Rows THEN "load" ELSE "stored")
    /\ unasked' = [t \in Scans |->
                     IF t = s THEN IF F \subseteq Rows THEN {} ELSE F
                     ELSE IF phase[t] = "stored" THEN unasked[t] \ F ELSE unasked[t]]
    /\ Bump(F)
    /\ UNCHANGED <<cache, requests, loaded, answer>>

\* Step 4d selects the rows of the scan that need review.
SelectReview(s) ==
    LET rows == {f \in unasked[s] : class[f] = "needs_review"}
    IN  /\ phase[s] = "stored" /\ Goes(s, "review")
        /\ loaded' = [loaded EXCEPT ![s] = rows] /\ unasked' = [unasked EXCEPT ![s] = rows]
        /\ UNCHANGED <<rowVars, code, cache, incident, stale, answer, scans, requests>>

\* lookup_cache, awaited for one finding after the other, for code h: that of the
\* object, which is that of the row unless the object is stale.
Lookup(s, f, h) ==
    /\ phase[s] = "review" /\ f \in unasked[s] /\ (f \in stale[s] \/ h = code[f])
    /\ unasked' = [unasked EXCEPT ![s] = @ \ {f}]
    /\ answer' = [answer EXCEPT ![s][f] = IF Hit(f, h) THEN cache[f] ELSE NoDecision]
    /\ UNCHANGED <<rowVars, code, cache, incident, phase, loaded, stale, scans, requests>>

Hits(s) == {f \in loaded[s] : answer[s][f] # NoDecision}

\* The objects that were hit are written, whatever the rows are now, if nobody has
\* moved their versions.  They were loaded as open rows that need review: a class
\* or a status that is the same again is not among the columns of the UPDATE.
CommitReplay(s) ==
    LET new == [f \in Findings |-> Replayed(answer[s][f])]
        W   == {f \in Hits(s) : new[f] # "needs_review"}
    IN  /\ phase[s] = "review" /\ unasked[s] = {} /\ Hits(s) \cap stale[s] = {}
        /\ class' = [f \in Findings |-> IF f \in W THEN new[f] ELSE class[f]]
        /\ closed' = closed \cup {f \in W : new[f] \in Closing}
        /\ named' = named \cup {f \in W : new[f] = "confirmed"}
        /\ author' = [f \in Findings |-> IF f \in W THEN "replay" ELSE author[f]]
        /\ Goes(s, "load") /\ Forgets(s)
        /\ loaded' = [loaded EXCEPT ![s] = {}]
        /\ stale' = [t \in Scans |-> IF t = s THEN {} ELSE stale[t] \cup (Hits(s) \cap loaded[t])]
        /\ UNCHANGED <<code, cache, incident, scans, requests>>

\* "decision_cache_failed": StaleDataError, or any other error; the scan goes on.
LoseReplay(s) ==
    /\ phase[s] = "review" /\ Goes(s, "load") /\ Forgets(s)
    /\ loaded' = [loaded EXCEPT ![s] = {}] /\ stale' = [stale EXCEPT ![s] = {}]
    /\ UNCHANGED <<rowVars, code, cache, incident, scans, requests>>

\* With a model configured, the AI loads what needs review in the whole repository.
LoadForAi(s) ==
    LET rows == {f \in Findings : class[f] = "needs_review"}
    IN  /\ phase[s] = "load" /\ rows # {} /\ Goes(s, "ai")
        /\ loaded' = [loaded EXCEPT ![s] = rows]
        /\ UNCHANGED <<rowVars, code, cache, incident, stale, lookupVars, scans, requests>>

-----------------------------------------------------------------------------
(* The AI phase of a scan *)

EndScan(s) == Goes(s, "idle") /\ Forgets(s) /\ loaded' = [loaded EXCEPT ![s] = {}]

\* The model answered for L (likely, confident), D (likely, below the threshold)
\* and N (needs review).  A row the model called likely is written as an object
\* that was loaded as NEEDS_REVIEW, whatever the row is now; its status is OPEN
\* in both, so it is not written.  Siblings that need review follow.
AiClass(L, f) ==
    IF f \in L \/ (L # {} /\ class[f] = "needs_review") THEN "likely" ELSE class[f]

\* "Only overwrite incident state if it is still default".
AiIncident(L) == IF L # {} /\ incident = "needs_review" THEN "likely" ELSE incident

\* Mutant: the last writer of the cache wins.
AiDecisionAlways(f, likely) ==
    [class |-> IF likely THEN "likely" ELSE "needs_review", by |-> "ai",
     code |-> code[f], lapsed |-> FALSE]

\* store_in_cache by "ai": the model's own answer, above the threshold or not.
AiDecision(f, likely) ==
    IF cache[f].by = "user" THEN cache[f]
    ELSE [class |-> IF likely THEN "likely" ELSE "needs_review", by |-> "ai",
          code |-> code[f], lapsed |-> FALSE]

AiApply(s, L, D, N) ==
    LET new == [f \in Findings |-> AiClass(L, f)]
        W   == {f \in Findings : new[f] # class[f]}
        answered == L \cup D \cup N
    IN  /\ phase[s] = "ai" /\ answered \subseteq loaded[s] /\ answered \cap stale[s] = {}
        /\ class' = new
        /\ author' = [f \in Findings |-> IF f \in W THEN "ai" ELSE author[f]]
        /\ incident' = AiIncident(L)
        /\ cache' = [f \in Findings |-> IF f \in answered THEN AiDecision(f, f \in L \cup D)
                                        ELSE cache[f]]
        /\ EndScan(s)
        /\ stale' = [t \in Scans |-> IF t = s THEN {} ELSE stale[t] \cup (answered \cap loaded[t])]
        /\ UNCHANGED <<closed, named, code, scans, requests>>

\* The scan ends, for want of a model or of rows, or by an error, a StaleDataError,
\* a cancel or the loss of its worker: no more is written.
Over(s) ==
    /\ phase[s] # "idle"
    /\ EndScan(s) /\ stale' = [stale EXCEPT ![s] = {}]
    /\ UNCHANGED <<rowVars, code, cache, incident, scans, requests>>

-----------------------------------------------------------------------------
Person ==
    \/ \E f \in Findings, c \in Verdicts : TriageFinding(f, c)
    \/ \E F \in SUBSET Findings, c \in Verdicts : BulkTriage(F, c)
    \/ \E c \in Verdicts : PatchIncident(c)
    \/ \E F \in SUBSET Findings : DeleteRows(F)

Machine ==
    \E s \in Scans :
        \/ \E F \in SUBSET Findings : \E C \in SUBSET F : StoreScan(s, F, C)
        \/ SelectReview(s) \/ CommitReplay(s) \/ LoseReplay(s) \/ LoadForAi(s) \/ Over(s)
        \/ \E f \in Findings : \E h \in 0 .. code[f] : Lookup(s, f, h)
        \/ \E L, D, N \in SUBSET loaded[s] :
              L \cap D = {} /\ L \cap N = {} /\ D \cap N = {} /\ AiApply(s, L, D, N)

TriageNext == Person \/ Machine \/ \E f \in Findings : Lapse(f)

TriageSpec == TriageInit /\ [][TriageNext]_triageVars

-----------------------------------------------------------------------------
(* Properties *)

Decisions == [class : Classes, by : {"nobody", "ai", "user"}, code : 0 .. MaxCode,
              lapsed : BOOLEAN]

\* Every variable has its type; a session holds objects only while it works on
\* them, and the cache holds opinions of the AI but no decisions of it.
TriageTypeOK ==
    /\ class \in [Findings -> Classes] /\ closed \subseteq Rows /\ named \subseteq Rows
    /\ author \in [Findings -> {"nobody", "person", "cascade", "ai", "replay"}]
    /\ code \in [Findings -> 0 .. MaxCode] /\ cache \in [Findings -> Decisions]
    /\ incident \in Classes
    /\ phase \in [Scans -> {"idle", "stored", "review", "load", "ai"}]
    /\ loaded \in [Scans -> SUBSET Findings] /\ stale \in [Scans -> SUBSET Findings]
    /\ unasked \in [Scans -> SUBSET Findings] /\ answer \in [Scans -> [Findings -> Decisions]]
    /\ \A s \in Scans :
          /\ stale[s] \subseteq loaded[s]
          /\ phase[s] \notin {"review", "ai"} => loaded[s] = {}
          /\ phase[s] = "review" => unasked[s] \subseteq loaded[s]
          /\ phase[s] \in {"idle", "load", "ai"} => unasked[s] = {}
          /\ phase[s] # "review" => answer[s] = Unanswered
    /\ \A f \in Findings : cache[f].by = "ai" => cache[f].class \in Undecided
    /\ scans \in 0 .. MaxScans /\ requests \in 0 .. MaxRequests

\* A confirmed verdict names the person who established it, on whatever way it
\* reached the row: triage, cascade, or replay on a row that was deleted since.
ConfirmedNamesActor == \A f \in Findings : class[f] = "confirmed" => f \in named

\* Classification and status do not drift apart, except under a verdict of a
\* machine (the AI's, or one replayed) on an object loaded before a cascade.
StatusInStep ==
    \A f \in Findings :
        /\ class[f] \in Closing => f \in closed
        /\ f \in closed /\ class[f] \notin Closing => author[f] \in {"ai", "replay"}

\* What a person ruled on one finding is changed only by a person ruling on that
\* finding: no cascade of another verdict, scan, replay or AI answer, however
\* late, takes it back.
PersonalVerdictKept ==
    [][\A f \in Findings :
          author[f] = "person" /\ class[f] \in Closing /\ class'[f] \notin {class[f], "none"}
             => author'[f] = "person"]_triageVars

\* Machines leave a decided incident alone, and what people decided in the cache.
MachinesNeverOverrule ==
    [][requests' = requests =>
          /\ incident \in Closing => incident' = incident
          /\ \A f \in Findings : cache[f].by = "user" => cache'[f].class = cache[f].class
                                                      /\ cache'[f].by = "user"]_triageVars

\* A replay closes a row only as a person decided for the code as it is.  What it
\* takes away is an opinion, or what the row got by a cascade that committed after
\* the row was selected: no ruling of a person on that row, and no other replay.
ReplayIsFaithful ==
    [][\A f \in Findings :
          author'[f] = "replay" /\ class'[f] # class[f]
             => /\ class[f] \in Undecided \/ author[f] = "cascade"
                /\ class'[f] \in Closing =>
                      /\ cache[f].by = "user" /\ cache[f].class = class'[f]
                      /\ cache[f].code = code'[f]]_triageVars

=============================================================================
