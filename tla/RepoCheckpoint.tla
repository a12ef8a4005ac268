---------------------------- MODULE RepoCheckpoint ----------------------------
(***************************************************************************)
(* Incremental scans of one repository: the watermark kept per branch      *)
(* (repo_branch_checkpoints), the rule pack it vouches for, and the        *)
(* "removed from code" marker on the findings.                             *)
(*                                                                         *)
(* All scans of a repository share ONE clone directory.  A requested scan  *)
(* holds the lock of its branch only, and a webhook scan holds none, so    *)
(* scans fetch and check out under each other.                             *)
(*                                                                         *)
(* A commit is its tree, a tree the version of every file (0: not there).  *)
(* Every version of a file carries the file's secret: a finding is a file. *)
(* The findings a scan stores are the pairs <<file, version>> it read; the *)
(* file cache, keyed by path, content and pack, answers what a scan of the *)
(* same content would, and is left out.  The walk of a tree and the store  *)
(* of its findings are one step: between them nothing but that cache is    *)
(* written.  A repository keeps at least one file.                         *)
(***************************************************************************)
EXTENDS Naturals

CONSTANTS
    Files,
    Branches,
    Default,       \* default_branch
    MaxVersion,    \* bound: versions of a file
    MaxPack,       \* bound: rule packs; 0 is the NULL of the column
    MaxPushes,     \* bound: pushes
    MaxRuns        \* bound: requested scans

ASSUME CheckpointBounds ==
    /\ Default \in Branches
    /\ MaxVersion \in Nat \ {0} /\ MaxPack \in Nat \ {0}
    /\ MaxPushes \in Nat /\ MaxRuns \in Nat

VARIABLES
    tip,        \* the remote: what each branch is at
    queue,      \* pushes whose webhook has not been handled
    clone,      \* the shared checkout: the branch it is on, its tree
    pack,       \* rule_pack_version of a scanner built now
    ckpt,       \* repo_branch_checkpoints, one row per branch
    stored,     \* history: <<file, version, pack>> whose findings were stored
    removed,    \* findings with the marker removed_from_code
    scan,       \* the requested scan of each branch: its locals
    hook,       \* the webhook scan: its locals
    alone,      \* history: requested scans nobody interfered with
    pushes, runs

remoteVars == <<tip, pushes>>
checkpointVars == <<remoteVars, queue, clone, pack, ckpt, stored, removed,
                    scan, hook, alone, runs>>

Versions == 0..MaxVersion
NoCommit == [f \in Files |-> 0]
Commits  == [Files -> Versions] \ {NoCommit}

Present(c)    == {<<f, c[f]>> : f \in {g \in Files : c[g] # 0}}
Diff(c, d)    == {<<f, d[f]>> : f \in {g \in Files : d[g] # 0 /\ d[g] # c[g]}}
Deleted(c, d) == {f \in Files : c[f] # 0 /\ d[f] = 0}
With(F, p)    == {<<x[1], x[2], p>> : x \in F}
FilesOf(F)    == {x[1] : x \in F}
Known         == FilesOf(stored)

NoRow  == [at |-> NoCommit, pack |-> 0, whole |-> FALSE]
NoScan == [pc |-> "idle", label |-> Default, base |-> NoCommit, head |-> NoCommit,
           full |-> FALSE, pack |-> 0, known |-> 0, whole |-> FALSE]
NoHook == [pc |-> "idle", branch |-> Default, base |-> NoCommit, head |-> NoCommit,
           full |-> FALSE, pack |-> 0]

\* The clone was made, at the default branch; nothing was scanned.
CheckpointInit ==
    /\ \E c \in Commits :
          /\ tip = [b \in Branches |-> c]
          /\ clone = [on |-> Default, at |-> c]
    /\ queue = {} /\ pushes = 0 /\ runs = 0
    /\ pack = 1 /\ stored = {} /\ removed = {} /\ alone = {}
    /\ ckpt = [b \in Branches |-> NoRow]
    /\ scan = [b \in Branches |-> NoScan] /\ hook = NoHook

-----------------------------------------------------------------------------
(* The remote and the rules *)

Push(b, f, v) ==
    /\ pushes < MaxPushes
    /\ v # tip[b][f] /\ [tip[b] EXCEPT ![f] = v] # NoCommit
    /\ tip' = [tip EXCEPT ![b][f] = v]
    /\ queue' = queue \cup {[branch |-> b, base |-> tip[b], head |-> tip'[b]]}
    /\ pushes' = pushes + 1
    /\ UNCHANGED <<clone, pack, ckpt, stored, removed, scan, hook, alone, runs>>

\* The webhook is not delivered, is blocked, or is not dispatched.
LoseWebhook(m) ==
    /\ queue' = queue \ {m}
    /\ UNCHANGED <<remoteVars, clone, pack, ckpt, stored, removed, scan, hook,
                   alone, runs>>

ChangeRules ==
    /\ pack < MaxPack /\ pack' = pack + 1
    /\ UNCHANGED <<remoteVars, queue, clone, ckpt, stored, removed, scan, hook,
                   alone, runs>>

-----------------------------------------------------------------------------
(* Requested scans *)

\* _refresh_checkout: the branch, or the default branch if the branch could not be
\* fetched, is fetched and checked out; the branch of the checkout is noted.
Refresh(b, t) ==
    /\ scan[b].pc = "idle" /\ runs < MaxRuns /\ t \in {b, Default}
    /\ clone' = [on |-> t, at |-> tip[t]]
    /\ scan' = [scan EXCEPT ![b] = [NoScan EXCEPT !.pc = "ready", !.label = t]]
    /\ runs' = runs + 1 /\ alone' = {}
    /\ UNCHANGED <<remoteVars, queue, pack, ckpt, stored, removed, hook>>

\* The refresh failed: the scan takes the checkout as it is.
ScanStale(b) ==
    /\ scan[b].pc = "idle" /\ runs < MaxRuns
    /\ scan' = [scan EXCEPT ![b] = [NoScan EXCEPT
                    !.pc = "ready",
                    !.label = IF clone.on = "HEAD" THEN Default ELSE clone.on]]
    /\ runs' = runs + 1 /\ alone' = {}
    /\ UNCHANGED <<remoteVars, queue, clone, pack, ckpt, stored, removed, hook>>

\* May the scan be incremental from this row?
Usable(r, head) ==
    /\ r.at \notin {NoCommit, head}
    /\ r.pack \in {0, pack}

\* HEAD, watermark and pack are read.  A full walk is also what force_full asks
\* for, and what a base commit that is not in the clone leads to.
Plan(b) ==
    /\ scan[b].pc = "ready"
    /\ \E full \in BOOLEAN :
          /\ ~full => Usable(ckpt[b], clone.at)
          /\ scan' = [scan EXCEPT ![b] = [@ EXCEPT
                 !.pc = "planned", !.head = clone.at, !.full = full, !.pack = pack,
                 !.base = IF full THEN NoCommit ELSE ckpt[b].at,
                 !.known = IF full THEN 0 ELSE ckpt[b].pack,
                 !.whole = full \/ ckpt[b].whole]]
    /\ alone' = IF hook.pc = "idle" /\ \A o \in Branches \ {b} : scan[o].pc = "idle"
                THEN {b} ELSE {}
    /\ UNCHANGED <<remoteVars, queue, clone, pack, ckpt, stored, removed, hook, runs>>

\* A full walk reads the working tree, an incremental one the blobs of the head.
Read(s) == IF s.full THEN Present(clone.at) ELSE Diff(s.base, s.head)

\* A finding that is seen again on the default branch loses its marker.
Cleared(label, F) == IF label = Default THEN removed \ FilesOf(F) ELSE removed

\* The walk, and the findings it stores.
Walk(b) ==
    /\ scan[b].pc = "planned"
    /\ stored' = stored \cup With(Read(scan[b]), scan[b].pack)
    /\ removed' = Cleared(scan[b].label, Read(scan[b]))
    /\ scan' = [scan EXCEPT ![b] = [@ EXCEPT
                    !.pc = "stored",
                    !.whole = scan[b].whole /\ (scan[b].full => clone.at = scan[b].head)]]
    /\ UNCHANGED <<remoteVars, queue, clone, pack, ckpt, hook, alone, runs>>

\* Mutant: a full walk has no diff, and marks nothing.
GoneInDiff(s) == {f \in Known : f \in Deleted(s.base, s.head)}

\* Findings of files that are gone: deleted in the diff, or not on disk now.
Gone(s) == {f \in Known : IF s.full THEN clone.at[f] = 0 ELSE f \in Deleted(s.base, s.head)}

MarkRemoved(b) ==
    /\ scan[b].pc = "stored"
    /\ removed' = IF scan[b].label = Default THEN removed \cup Gone(scan[b]) ELSE removed
    /\ scan' = [scan EXCEPT ![b].pc = "marked"]
    /\ UNCHANGED <<remoteVars, queue, clone, pack, ckpt, stored, hook, alone, runs>>

SetWatermark(b, row) ==
    ckpt' = [ckpt EXCEPT ![b] = row]

Final(b) ==
    /\ scan[b].pc = "marked"
    /\ scan' = [scan EXCEPT ![b] = NoScan]
    /\ alone' = alone \ {b}
    /\ UNCHANGED <<remoteVars, queue, clone, pack, stored, removed, hook, runs>>

\* Mutant: HEAD is read when the scan ends.
StampHeadOfNow(b) ==
    /\ Final(b)
    /\ SetWatermark(scan[b].label,
                    [at |-> clone.at, whole |-> scan[b].whole,
                     pack |-> IF scan[b].full THEN scan[b].pack ELSE scan[b].known])

\* The final commit moves the watermark of the branch that was read.
Stamp(b) ==
    /\ Final(b)
    /\ SetWatermark(scan[b].label,
                    [at |-> scan[b].head, whole |-> scan[b].whole,
                     pack |-> IF scan[b].full THEN scan[b].pack ELSE scan[b].known])

\* The worker dies, the scan fails or is cancelled: what it committed stays.
Abort(b) ==
    /\ scan[b].pc # "idle"
    /\ scan' = [scan EXCEPT ![b] = NoScan]
    /\ alone' = alone \ {b}
    /\ UNCHANGED <<remoteVars, queue, clone, pack, ckpt, stored, removed, hook, runs>>

-----------------------------------------------------------------------------
(* Webhook scans: no lock; they check the pushed commit out, detached *)

\* The branch is refreshed, then the pushed commit checked out; the exit code of
\* that checkout is not looked at.
StartWebhookScan(m) ==
    /\ hook.pc = "idle"
    /\ queue' = queue \ {m}
    /\ clone' = [on |-> "HEAD", at |-> m.head]
    /\ \E full \in BOOLEAN :      \* the base commit is not in the clone
          hook' = [pc |-> "scanning", branch |-> m.branch, head |-> m.head,
                   base |-> IF full THEN NoCommit ELSE m.base,
                   full |-> full, pack |-> pack]
    /\ alone' = {}
    /\ UNCHANGED <<remoteVars, pack, ckpt, stored, removed, scan, runs>>

HookStores(F) ==
    /\ hook.pc = "scanning" /\ hook' = NoHook
    /\ stored' = stored \cup With(F, hook.pack)
    /\ removed' = Cleared(hook.branch, F)
    /\ alone' = {}
    /\ UNCHANGED <<remoteVars, queue, clone, pack, scan, runs>>

\* Mutant: the webhook scan vouches for its pack.
FinishWebhookWithPack ==
    /\ HookStores(Read(hook))
    /\ SetWatermark(hook.branch,
          [at |-> hook.head, pack |-> hook.pack,
           whole |-> IF hook.full THEN clone.at = hook.head
                     ELSE ckpt[hook.branch].whole /\ ckpt[hook.branch].at = hook.base])

\* One transaction: findings, markers, watermark.  The pack becomes unknown.
FinishWebhookScan ==
    /\ HookStores(Read(hook))
    /\ SetWatermark(hook.branch,
          [at |-> hook.head, pack |-> 0,
           whole |-> IF hook.full THEN clone.at = hook.head
                     ELSE ckpt[hook.branch].whole /\ ckpt[hook.branch].at = hook.base])

\* The handler of a failure commits what the session holds: part of the findings.
FailWebhookScan ==
    /\ \E F \in SUBSET Read(hook) : HookStores(F)
    /\ UNCHANGED ckpt

CheckpointNext ==
    \/ \E b \in Branches, f \in Files, v \in Versions : Push(b, f, v)
    \/ \E m \in queue : LoseWebhook(m) \/ StartWebhookScan(m)
    \/ ChangeRules
    \/ \E b \in Branches, t \in Branches : Refresh(b, t)
    \/ \E b \in Branches :
          \/ ScanStale(b) \/ Plan(b) \/ Walk(b) \/ MarkRemoved(b)
          \/ Stamp(b) \/ Abort(b)
    \/ FinishWebhookScan \/ FailWebhookScan

CheckpointSpec == CheckpointInit /\ [][CheckpointNext]_checkpointVars

-----------------------------------------------------------------------------
(* Properties *)

CheckpointTypeOK ==
    /\ tip \in [Branches -> Commits]
    /\ queue \subseteq [branch : Branches, base : Commits, head : Commits]
    /\ clone \in [on : Branches \cup {"HEAD"}, at : Commits]
    /\ ckpt \in [Branches -> [at : Commits \cup {NoCommit}, pack : 0..MaxPack,
                              whole : BOOLEAN]]
    /\ stored \subseteq Files \X (1..MaxVersion) \X (1..MaxPack)
    /\ removed \subseteq Known
    /\ \A b \in Branches : scan[b].pc = "idle" => scan[b] = NoScan

\* A watermark whose chain is unbroken (it goes back to a walk of a whole tree,
\* through incremental scans and through webhooks that each began at the watermark)
\* means that every file of its commit has been scanned and stored: whatever was
\* checked out under the scan, whichever branch it fell back to, wherever it died.
WatermarkCovers ==
    \A b \in Branches : ckpt[b].whole =>
        \A x \in Present(ckpt[b].at) : \E p \in 1..MaxPack : <<x[1], x[2], p>> \in stored

\* The types of the variables, and what a watermark says of the store.
CheckpointInv == CheckpointTypeOK /\ WatermarkCovers

\* A watermark that names a rule pack means every file was scanned with that pack.
PackIsHonest ==
    \A b \in Branches : ckpt[b].whole /\ ckpt[b].pack # 0 =>
        With(Present(ckpt[b].at), ckpt[b].pack) \subseteq stored

\* A full scan of the default branch nobody interfered with leaves the marker on
\* exactly the findings whose file is not in its commit.
FullScanSetsMarkers ==
    [][\A b \in alone : Stamp(b) /\ scan[b].full /\ scan[b].label = Default =>
          removed' = {f \in Known : scan[b].head[f] = 0}]_checkpointVars
=============================================================================
