----------------------------- MODULE ScanHistory ------------------------------
(***************************************************************************)
(* What is left of a finding when scans are deleted.  A row is anchored to *)
(* one scan and counts its sightings; deleting a scan moves the rows seen  *)
(* more than once to the newest other scan and takes the others with it.   *)
(*                                                                         *)
(* Scans of other branches, and webhooks, run meanwhile: they hold the     *)
(* rows as ORM objects, store them chunk by chunk, and are executed again  *)
(* when their message is.  A deletion is three statements, each of which   *)
(* sees what is committed; its UPDATE does not touch the version.          *)
(***************************************************************************)
EXTENDS Naturals, FiniteSets, Sequences

CONSTANTS
    PastFindings,  \* rows of findings
    PastScans,     \* scans of their repository
    PastHooks,     \* those of webhooks
    MaxReruns,     \* bound: scans executed again
    NoAnchor       \* not a scan

\* What the constants are.
HistoryScans ==
    /\ IsFiniteSet(PastScans) /\ PastHooks \subseteq PastScans /\ NoAnchor \notin PastScans
    /\ MaxReruns \in Nat

VARIABLES
    created,     \* scans in the order of created_at
    living,      \* PENDING, RUNNING or ANALYZING
    gone,        \* deleted
    attempt,     \* executions a scan has had
    reruns,      \* bound: how often one was executed again
    pending,     \* rows its execution has yet to store
    memory,      \* the counts it has loaded of them; 0 is no object
    aged,        \* objects whose version has changed since
    anchor,      \* scan_job_id; NoAnchor is no row
    count,       \* scan_count
    deletion,    \* of a scan's deletion: none, chosen (the survivor), updated
    survivor,    \* which it chose, while rows may refer to it; NoAnchor is none
    kept,        \* rows the UPDATE of a deletion holds locked
    sightings,   \* history: the executions that stored a row since it exists
    moved,       \* history: rows a deletion has moved
    late         \* history: rows stored since their scan's deletion got past the UPDATE

runVars      == <<created, living, attempt, reruns>>
holdVars     == <<pending, memory, aged>>
seenVars     == <<anchor, count, sightings, moved>>
deletionVars == <<gone, deletion, survivor, kept, late>>
historyVars  == <<runVars, holdVars, seenVars, deletionVars>>

Made       == {created[i] : i \in 1 .. Len(created)}
There      == Made \ gone
SeenRows   == {f \in PastFindings : anchor[f] # NoAnchor}
Executions == PastScans \X (1 .. MaxReruns + 1)
Seers(f)   == {e[1] : e \in sightings[f]}
NoCount    == [f \in PastFindings |-> 0]

HistoryInit ==
    /\ created = <<>> /\ living = {} /\ gone = {} /\ attempt = [s \in PastScans |-> 0] /\ reruns = 0
    /\ pending = [s \in PastScans |-> {}] /\ aged = [s \in PastScans |-> {}]
    /\ memory = [s \in PastScans |-> NoCount]
    /\ anchor = [f \in PastFindings |-> NoAnchor] /\ count = NoCount
    /\ deletion = [s \in PastScans |-> "none"] /\ survivor = [s \in PastScans |-> NoAnchor]
    /\ sightings = [f \in PastFindings |-> {}] /\ moved = {} /\ kept = {} /\ late = {}

-----------------------------------------------------------------------------
\* A scan is requested.
BeginScan(s) ==
    /\ s \notin Made
    /\ created' = Append(created, s) /\ living' = living \cup {s}
    /\ UNCHANGED <<attempt, reruns, holdVars, seenVars, deletionVars>>

\* It is executed, for the first time or, when its message comes again, whatever its
\* row says but for a fresh heartbeat: it loads the findings of its repository.
ExecuteScan(s) ==
    /\ s \in There /\ pending[s] = {}
    /\ IF attempt[s] = 0 THEN UNCHANGED reruns
       ELSE s \notin PastHooks /\ reruns < MaxReruns /\ reruns' = reruns + 1
    /\ living' = living \cup {s} /\ attempt' = [attempt EXCEPT ![s] = @ + 1]
    /\ pending' = [pending EXCEPT ![s] = PastFindings]
    /\ memory' = [memory EXCEPT ![s] = count] /\ aged' = [aged EXCEPT ![s] = {}]
    /\ UNCHANGED <<created, seenVars, deletionVars>>

\* Mutant: a webhook does not count what it sees again.
CountedByScans(s, f) == IF s \in PastHooks THEN memory[s][f] ELSE memory[s][f] + 1

\* "scan_count is incremented on every ingest path when a finding is seen again":
\* from the count that was loaded.
CountedAgain(s, f) == memory[s][f] + 1

\* What the execution of s keeps of what it holds.
Holds(s, F) ==
    /\ pending' = [pending EXCEPT ![s] = F]
    /\ memory' = [memory EXCEPT ![s] = [f \in PastFindings |-> IF f \in F THEN @[f] ELSE 0]]

\* Scan s commits a chunk F, a webhook all it stores: rows it holds are seen again, the
\* others are new.  A webhook leaves the anchor.  A row that somebody has written or
\* deleted fails the commit, one that an UPDATE has locked waits.
StoreSeen(s, F) ==
    LET left == IF s \in PastHooks THEN {} ELSE pending[s] \ F
    IN  /\ F # {} /\ F \subseteq pending[s] \ kept
        /\ \A f \in F : IF memory[s][f] = 0 THEN f \notin SeenRows ELSE f \in SeenRows \ aged[s]
        /\ anchor' = [f \in PastFindings |->
                         IF f \in F /\ (s \notin PastHooks \/ f \notin SeenRows) THEN s
                         ELSE anchor[f]]
        /\ count' = [f \in PastFindings |-> IF f \in F THEN CountedAgain(s, f) ELSE count[f]]
        /\ sightings' = [f \in PastFindings |->
                            IF f \in F THEN sightings[f] \cup {<<s, attempt[s]>>} ELSE sightings[f]]
        /\ late' = (late \ F) \cup {f \in F : deletion[anchor'[f]] = "updated"}
        /\ Holds(s, left)
        /\ aged' = [t \in PastScans |-> IF t = s THEN aged[s] \cap left
                                        ELSE aged[t] \cup {f \in F : memory[t][f] > 0}]
        /\ UNCHANGED <<runVars, moved, gone, deletion, survivor, kept>>

\* The row ends: completed, failed, cancelled or reaped, whether or not the execution
\* has noticed.
EndScan(s) ==
    /\ s \in living /\ living' = living \ {s}
    /\ UNCHANGED <<created, attempt, reruns, holdVars, seenVars, deletionVars>>

\* The execution stops: it is through, has failed, or its worker was lost.
Stop(s) ==
    /\ pending[s] # {} /\ Holds(s, {}) /\ aged' = [aged EXCEPT ![s] = {}]
    /\ UNCHANGED <<runVars, seenVars, deletionVars>>

-----------------------------------------------------------------------------
(* delete_scan *)

\* "ScanJob.id != scan_id".
Survivors(s) == There \ {s}

\* created_at.desc().limit(1); running or failed, it does not matter.
Newest(S) == created[CHOOSE i \in 1 .. Len(created) :
                        /\ created[i] \in S
                        /\ \A j \in i + 1 .. Len(created) : created[j] \notin S]

\* Mutant: a count of two is left behind.
PreservedAboveTwo(f) == count[f] > 2

\* "COALESCE(scan_count, 1) > 1".
Preserved(f) == count[f] > 1

\* The status is checked and the survivor chosen; with none, no row will be kept.
SelectSurvivor(s) ==
    /\ s \in There \ living /\ deletion[s] = "none"
    /\ IF Survivors(s) = {}
       THEN /\ deletion' = [deletion EXCEPT ![s] = "updated"] /\ UNCHANGED survivor
       ELSE /\ deletion' = [deletion EXCEPT ![s] = "chosen"]
            /\ survivor' = [survivor EXCEPT ![s] = Newest(Survivors(s))]
    /\ UNCHANGED <<runVars, holdVars, seenVars, gone, kept, late>>

\* The UPDATE: it moves and locks rows, if the survivor is still there for them.
UpdateKept(s) ==
    LET ours == {f \in PastFindings : anchor[f] = s /\ Preserved(f)}
    IN  /\ deletion[s] = "chosen" /\ (ours # {} => survivor[s] \in There)
        /\ deletion' = [deletion EXCEPT ![s] = "updated"] /\ kept' = kept \cup ours
        /\ survivor' = [survivor EXCEPT ![s] = IF ours = {} THEN NoAnchor ELSE @]
        /\ UNCHANGED <<runVars, holdVars, seenVars, gone, late>>

\* Its end, either way.
DeleteEnds(s) ==
    /\ deletion' = [deletion EXCEPT ![s] = "none"] /\ survivor' = [survivor EXCEPT ![s] = NoAnchor]
    /\ kept' = {f \in kept : anchor[f] # s} /\ late' = {f \in late : anchor[f] # s}

\* The DELETEs and the commit: what is still anchored to s goes, and s, unless another
\* deletion's rows refer to it.  An execution of s has no row to commit for.
DeleteLost(s) ==
    LET ours == {f \in PastFindings : anchor[f] = s}
        lost == ours \ kept
    IN  /\ deletion[s] = "updated" /\ \A f \in kept : survivor[anchor[f]] # s
        /\ anchor' = [f \in PastFindings |-> IF f \in ours \cap kept THEN survivor[s]
                                             ELSE IF f \in lost THEN NoAnchor ELSE anchor[f]]
        /\ count' = [f \in PastFindings |-> IF f \in ours \cap kept THEN count[f] - 1
                                            ELSE IF f \in lost THEN 0 ELSE count[f]]
        /\ sightings' = [f \in PastFindings |-> IF f \in lost THEN {} ELSE sightings[f]]
        /\ moved' = (moved \cup (ours \cap kept)) \ lost
        /\ Holds(s, {})
        /\ aged' = [t \in PastScans |-> IF t = s THEN {}
                                        ELSE aged[t] \cup {f \in lost : memory[t][f] > 0}]
        /\ gone' = gone \cup {s} /\ living' = living \ {s} /\ DeleteEnds(s)
        /\ UNCHANGED <<created, attempt, reruns>>

\* It fails, and nothing of it is committed.
DeleteFails(s) ==
    /\ deletion[s] # "none" /\ DeleteEnds(s)
    /\ UNCHANGED <<runVars, holdVars, seenVars, gone>>

HistoryNext ==
    \E s \in PastScans : \/ BeginScan(s) \/ ExecuteScan(s) \/ EndScan(s) \/ Stop(s)
                         \/ SelectSurvivor(s) \/ UpdateKept(s) \/ DeleteLost(s) \/ DeleteFails(s)
                         \/ \E F \in SUBSET PastFindings : StoreSeen(s, F)

HistorySpec == HistoryInit /\ [][HistoryNext]_historyVars

-----------------------------------------------------------------------------
(* Properties *)

\* Every variable has its type; a row is anchored to a scan there is, and counts
\* one sighting at least and no more than there were.
HistoryTypeOK ==
    /\ Made \subseteq PastScans /\ Len(created) = Cardinality(Made)
    /\ living \subseteq There /\ gone \subseteq Made /\ attempt \in [PastScans -> 0 .. reruns + 1]
    /\ reruns \in 0 .. MaxReruns
    /\ pending \in [PastScans -> SUBSET PastFindings] /\ aged \in [PastScans -> SUBSET PastFindings]
    /\ memory \in [PastScans -> [PastFindings -> 0 .. Cardinality(Executions)]]
    /\ anchor \in [PastFindings -> There \cup {NoAnchor}]
    /\ count \in [PastFindings -> 0 .. Cardinality(Executions)]
    /\ deletion \in [PastScans -> {"none", "chosen", "updated"}]
    /\ survivor \in [PastScans -> PastScans \cup {NoAnchor}]
    /\ moved \subseteq SeenRows /\ kept \subseteq SeenRows /\ late \subseteq SeenRows
    /\ \A f \in PastFindings : /\ (f \in SeenRows) <=> (count[f] > 0)
                               /\ count[f] <= Cardinality(sightings[f])

\* A row no deletion has moved counts every execution that stored it, once: chunks of
\* other branches' scans, of webhooks and of scans executed again are committed
\* meanwhile, and none of them is lost or counted twice.  A scan executed twice counts
\* twice.
CountIsSightings ==
    \A f \in SeenRows \ moved : count[f] = Cardinality(sightings[f])

\* Types, anchors that exist, and exact counts.
HistoryInv == HistoryTypeOK /\ CountIsSightings

\* While no deletion has moved it, a row goes only with the last scan that saw it,
\* unless it was stored between the UPDATE and the DELETE of the scan it is anchored to.
UnmovedRowsOutlive ==
    [][\A f \in SeenRows \ (moved \cup late) :
          anchor'[f] = NoAnchor => Seers(f) \subseteq gone']_historyVars
=============================================================================
