-------------------------- MODULE SecretVerification --------------------------
(***************************************************************************)
(* Is a leaked credential still live?  One secret and the findings that    *)
(* carry it, asked about at its provider by                                *)
(*   - scans, which verify what they found before they store it;           *)
(*   - verification passes, one after each scan, over all findings of the  *)
(*     tenant, so that several run at once;                                *)
(*   - the re-verification after an incident was marked rotated;           *)
(* with the verification cache between them and the provider.              *)
(*                                                                         *)
(* A verdict and its time stand in the finding's source_metadata.  A pass  *)
(* works on rows it loaded when it began, writes them back some at a time  *)
(* as ORM objects (version-checked), and adds a rotation event for each    *)
(* row that it turns from active to inactive.                              *)
(*                                                                         *)
(* A tick of the clock is some hours, long against a scan: a scan stores   *)
(* its verdicts in the tick it asked for them.  The provider's answer and  *)
(* the cache entry made of it are one step.  Left out: the rate limiter,   *)
(* which fails open, the blast radius, permissions, first_seen_active_at.  *)
(***************************************************************************)
EXTENDS Naturals, FiniteSets

CONSTANTS
    Sites,         \* findings of the secret
    Paired,        \* those a pass can verify: half of a credential pair
    Passes,        \* verification passes at a time
    CommitEvery,   \* COMMIT_EVERY_N
    TTL,           \* CACHE_TTL_SECONDS, in ticks
    MaxClock,      \* bound: ticks
    MaxPasses,     \* bound: passes
    MaxAsks        \* bound: scans, and re-verifications

ASSUME VerificationBounds ==
    /\ Paired \subseteq Sites
    /\ CommitEvery \in Nat \ {0} /\ TTL \in Nat \ {0}
    /\ MaxClock \in Nat \ {0} /\ MaxPasses \in Nat /\ MaxAsks \in Nat

VARIABLES
    live,        \* the provider accepts the credential
    clock,
    rotatedAt,   \* history: when it stopped to; 0 is never
    verdict,     \* the findings' rows: status, verified_at
    entry,       \* the cache entry of the secret
    events,      \* credential_rotation_events, by finding
    pass,        \* the passes' locals
    inline,      \* the verdicts a scan has not stored yet
    passCount, asks

providerVars == <<live, clock, rotatedAt>>
verifyVars == <<providerVars, verdict, entry, events, pass, inline, passCount, asks>>

Answers == {"active", "inactive"}
Truth   == IF live THEN "active" ELSE "inactive"
Fresh(at) == at # 0 /\ clock - at < TTL
Cached  == Fresh(entry.at)       \* setex with the same TTL

NoVerdict == [status |-> "none", at |-> 0]
NoPass    == [on |-> FALSE, todo |-> {}, copy |-> [f \in Sites |-> NoVerdict],
              dirty |-> {}, turned |-> {}, stale |-> {}]
Nothing   == [f \in Sites |-> "none"]

VerificationInit ==
    /\ live = TRUE /\ clock = 1 /\ rotatedAt = 0
    /\ verdict = [f \in Sites |-> NoVerdict] /\ entry = NoVerdict
    /\ events = [f \in Sites |-> 0]
    /\ pass = [p \in Passes |-> NoPass] /\ inline = Nothing
    /\ passCount = 0 /\ asks = 0

-----------------------------------------------------------------------------
(* Time and the provider *)

Tick ==
    /\ clock < MaxClock /\ inline = Nothing
    /\ clock' = clock + 1
    /\ UNCHANGED <<live, rotatedAt, verdict, entry, events, pass, inline, passCount, asks>>

Rotate ==
    /\ live /\ live' = FALSE /\ rotatedAt' = clock
    /\ UNCHANGED <<clock, verdict, entry, events, pass, inline, passCount, asks>>

-----------------------------------------------------------------------------
(* Verification passes *)

\* Every session that holds a row sees its version move.
Moved(P, F) == [p \in Passes |-> [P[p] EXCEPT !.stale = IF P[p].on THEN @ \cup F ELSE @]]

StartPass(p) ==
    /\ ~pass[p].on /\ passCount < MaxPasses
    /\ pass' = [pass EXCEPT ![p] = [NoPass EXCEPT !.on = TRUE, !.todo = Sites,
                                                 !.copy = verdict]]
    /\ passCount' = passCount + 1
    /\ UNCHANGED <<providerVars, verdict, entry, events, inline, asks>>

Visiting(p, f) == pass[p].on /\ f \in pass[p].todo /\ Cardinality(pass[p].dirty) < CommitEvery

StillFresh(v) == v.status \in Answers /\ Fresh(v.at)

\* The next finding of the loop is answered, and its row changed in memory;
\* active to inactive adds a rotation event to the session.
Answered(p, f, s, at) ==
    LET v    == pass[p].copy[f]
        next == [pass[p] EXCEPT
                    !.todo = @ \ {f}, !.dirty = @ \cup {f},
                    !.copy[f] = [status |-> s, at |-> at],
                    !.turned = IF v.status = "active" /\ s = "inactive" THEN @ \cup {f} ELSE @]
    IN  pass' = [pass EXCEPT ![p] = next]

Skip(p, f) ==
    /\ Visiting(p, f) /\ StillFresh(pass[p].copy[f])
    /\ pass' = [pass EXCEPT ![p].todo = @ \ {f}]
    /\ UNCHANGED <<providerVars, verdict, entry, events, inline, passCount, asks>>

\* Mutant: an answer from the cache is stamped with the time it was used.
FromCacheStampedNow(p, f) ==
    /\ Visiting(p, f) /\ ~StillFresh(pass[p].copy[f]) /\ Cached
    /\ Answered(p, f, entry.status, clock)
    /\ UNCHANGED <<providerVars, verdict, entry, events, inline, passCount, asks>>

\* The answer keeps the time it was given.
FromCache(p, f) ==
    /\ Visiting(p, f) /\ ~StillFresh(pass[p].copy[f]) /\ Cached
    /\ Answered(p, f, entry.status, entry.at)
    /\ UNCHANGED <<providerVars, verdict, entry, events, inline, passCount, asks>>

\* Only the paired path has a secret to ask with.
AskProvider(p, f) ==
    /\ Visiting(p, f) /\ ~StillFresh(pass[p].copy[f]) /\ ~Cached /\ f \in Paired
    /\ Answered(p, f, Truth, clock)
    /\ entry' = [status |-> Truth, at |-> clock]
    /\ UNCHANGED <<providerVars, verdict, events, inline, passCount, asks>>

\* Unsupported, failed, or no raw secret: the row is left alone.
NoAnswer(p, f) ==
    /\ Visiting(p, f) /\ ~StillFresh(pass[p].copy[f]) /\ ~Cached
    /\ pass' = [pass EXCEPT ![p].todo = @ \ {f}]
    /\ UNCHANGED <<providerVars, verdict, entry, events, inline, passCount, asks>>

\* Mutant: the rows' versions are not checked.
CommitUnchecked(p, next) ==
    /\ verdict' = [f \in Sites |-> IF f \in pass[p].dirty THEN pass[p].copy[f] ELSE verdict[f]]
    /\ events' = [f \in Sites |-> IF f \in pass[p].turned THEN events[f] + 1 ELSE events[f]]
    /\ pass' = [Moved(pass, pass[p].dirty) EXCEPT ![p] = next]

\* One transaction: the rows and their events, or StaleDataError and the end of
\* the pass.
Commit(p, next) ==
    IF pass[p].dirty \cap pass[p].stale # {}
    THEN pass' = [pass EXCEPT ![p] = NoPass] /\ UNCHANGED <<verdict, events>>
    ELSE /\ verdict' = [f \in Sites |->
                           IF f \in pass[p].dirty THEN pass[p].copy[f] ELSE verdict[f]]
         /\ events' = [f \in Sites |->
                          IF f \in pass[p].turned THEN events[f] + 1 ELSE events[f]]
         /\ pass' = [Moved(pass, pass[p].dirty) EXCEPT ![p] = next]

CommitSome(p) ==
    /\ pass[p].on /\ pass[p].todo # {} /\ Cardinality(pass[p].dirty) >= CommitEvery
    /\ Commit(p, [pass[p] EXCEPT !.dirty = {}, !.turned = {}])
    /\ UNCHANGED <<providerVars, entry, inline, passCount, asks>>

\* The loop ends, or its time budget does.
FinishPass(p) ==
    /\ pass[p].on
    /\ Commit(p, NoPass)
    /\ UNCHANGED <<providerVars, entry, inline, passCount, asks>>

KillPass(p) ==
    /\ pass[p].on
    /\ pass' = [pass EXCEPT ![p] = NoPass]
    /\ UNCHANGED <<providerVars, verdict, entry, events, inline, passCount, asks>>

-----------------------------------------------------------------------------
(* Scans and people *)

\* _verify_batch: each finding is answered from the cache or by the provider, or
\* fails, or is cancelled at the deadline.
VerifyInline ==
    /\ inline = Nothing /\ asks < MaxAsks /\ asks' = asks + 1
    /\ inline' \in [Sites -> {"none", "failed", IF Cached THEN entry.status ELSE Truth}]
    /\ inline' # Nothing
    /\ entry' = IF ~Cached /\ \E f \in Sites : inline'[f] \in Answers
                THEN [status |-> Truth, at |-> clock] ELSE entry
    /\ UNCHANGED <<providerVars, verdict, events, pass, passCount>>

\* The store merges the status, and nothing else, into the row.
StoreInline ==
    /\ inline # Nothing /\ inline' = Nothing
    /\ verdict' = [f \in Sites |-> IF inline[f] = "none" THEN verdict[f]
                                  ELSE [verdict[f] EXCEPT !.status = inline[f]]]
    /\ pass' = Moved(pass, {f \in Sites : inline[f] # "none"})
    /\ UNCHANGED <<providerVars, entry, events, passCount, asks>>

ScanDies ==
    /\ inline # Nothing /\ inline' = Nothing
    /\ UNCHANGED <<providerVars, verdict, entry, events, pass, passCount, asks>>

\* reverify_incident_after_rotation has no raw secret to ask with: it fails.
Reverify ==
    /\ asks < MaxAsks /\ asks' = asks + 1
    /\ verdict' = [f \in Sites |-> [verdict[f] EXCEPT !.status = "failed"]]
    /\ pass' = Moved(pass, Sites)
    /\ UNCHANGED <<providerVars, entry, events, inline, passCount>>

VerificationNext ==
    \/ Tick \/ Rotate
    \/ \E p \in Passes :
          \/ StartPass(p) \/ CommitSome(p) \/ FinishPass(p) \/ KillPass(p)
          \/ \E f \in Sites : Skip(p, f) \/ FromCache(p, f) \/ AskProvider(p, f) \/ NoAnswer(p, f)
    \/ VerifyInline \/ StoreInline \/ ScanDies \/ Reverify

VerificationSpec == VerificationInit /\ [][VerificationNext]_verifyVars

-----------------------------------------------------------------------------
(* Properties *)

VerificationTypeOK ==
    /\ clock \in 1..MaxClock /\ rotatedAt \in 0..MaxClock
    /\ verdict \in [Sites -> [status : Answers \cup {"none", "failed"},
                              at : 0..MaxClock]]
    /\ entry \in [status : Answers \cup {"none"}, at : 0..MaxClock]
    /\ \A p \in Passes :
          /\ pass[p].turned \subseteq pass[p].dirty
          /\ Cardinality(pass[p].dirty) <= CommitEvery
          /\ ~pass[p].on => pass[p] = NoPass

\* A step that records a rotation event turns its row from active to inactive, and
\* records one; and every step but a scan's store, which writes no events, records
\* one for each row it turns: though passes over the same rows run side by side.
EventOnTheTurn ==
    [][\A f \in Sites :
          LET turns == verdict[f].status = "active" /\ verdict'[f].status = "inactive"
          IN  /\ events'[f] # events[f] => turns /\ events'[f] = events[f] + 1
              /\ turns /\ inline' = inline => events'[f] = events[f] + 1]_verifyVars

\* One TTL after a credential was rotated no finding that says "active" counts as
\* fresh any more, by whichever way the verdict reached it: the next pass asks again.
ActiveGoesStale ==
    \A f \in Sites :
        verdict[f].status = "active" /\ rotatedAt # 0 /\ clock - rotatedAt >= TTL =>
            ~Fresh(verdict[f].at)

\* The types of the variables, what a pass leaves behind, and the age of verdicts.
VerificationInv == VerificationTypeOK /\ ActiveGoesStale
=============================================================================
