----------------------------- MODULE TicketFanout ------------------------------
(***************************************************************************)
(* Tickets for the findings of a scan: a task loads the rows of the scan,  *)
(* files one ticket per row on every board, and commits at the end the     *)
(* tags that say which tickets there are.  Whatever keeps the tags from    *)
(* being committed leaves tickets nobody remembers.                        *)
(*                                                                         *)
(* Rows are ORM objects with a version: one row written meanwhile fails    *)
(* the whole commit, and the task is tried again.                          *)
(*                                                                         *)
(* Abstracted: routing and push rules are a set of rows worth a ticket,    *)
(* and every board has a provider of its own.  The two nested loops run    *)
(* over query results without an order: pairs are visited in any.          *)
(***************************************************************************)
EXTENDS Naturals, FiniteSets

CONSTANTS
    TicketFindings,
    Boards,
    TicketScans,   \* scans, each with a fan-out
    Keyed,         \* boards whose answer holds a key the dispatcher looks for
    Unscanned,     \* not a scan
    MaxRetries,    \* max_retries
    MaxUpsets      \* bound: writes to rows by others, worker deaths, answers lost

\* What the constants are.
TicketBounds ==
    /\ Keyed \subseteq Boards /\ Unscanned \notin TicketScans
    /\ MaxRetries \in Nat /\ MaxUpsets \in Nat

VARIABLES
    scanOf,     \* scan_job_id
    worthy,     \* rows the push rules let through
    tags,       \* boards whose marker is in the tags
    task,       \* a scan's fan-out
    tries,
    todo,       \* rows and boards not yet visited
    loaded,     \* the tags of the rows it loaded; their ids are in objects
    objects,    \* the rows it holds, as ORM objects with a version
    touched,    \* of those, written by others since
    filed,      \* markers not yet committed
    tickets,    \* on the boards
    forgotten,  \* history: tickets no marker was committed for, or not in time
    upsets

rowVars  == <<scanOf, worthy, tags>>
workVars == <<todo, loaded, objects, touched, filed>>
ticketVars == <<rowVars, task, tries, workVars, tickets, forgotten, upsets>>

Pairs    == TicketFindings \X Boards
NoTags   == [f \in TicketFindings |-> {}]
RowsOf(P) == {p[1] : p \in P}
Upset == upsets < MaxUpsets /\ upsets' = upsets + 1
TaskTo(s, to) == task' = [task EXCEPT ![s] = to]

TicketInit ==
    /\ scanOf = [f \in TicketFindings |-> Unscanned] /\ worthy = {} /\ tags = NoTags
    /\ task = [s \in TicketScans |-> "none"] /\ tries = [s \in TicketScans |-> 0]
    /\ todo = [s \in TicketScans |-> {}] /\ loaded = [s \in TicketScans |-> NoTags]
    /\ objects = [s \in TicketScans |-> {}] /\ touched = [s \in TicketScans |-> {}]
    /\ filed = [s \in TicketScans |-> {}]
    /\ tickets = [p \in Pairs |-> 0] /\ forgotten = {} /\ upsets = 0

\* Somebody writes the rows F: the version changes under the fan-outs but s.
Touches(s, F) == touched' = [t \in TicketScans |-> IF t = s THEN touched[t]
                                                   ELSE touched[t] \cup (F \cap objects[t])]

-----------------------------------------------------------------------------
(* Scans and people *)

\* A scan ends that found F, of which those in W are worth a ticket.  Its rows are
\* its own; the fan-out is sent off if one of them is new.
ScanEnds(s, F, W) ==
    /\ task[s] = "none" /\ F # {} /\ W \subseteq F
    /\ scanOf' = [f \in TicketFindings |-> IF f \in F THEN s ELSE scanOf[f]]
    /\ worthy' = (worthy \ F) \cup W
    /\ TaskTo(s, IF \E f \in F : scanOf[f] = Unscanned THEN "queued" ELSE "unsent")
    /\ Touches(Unscanned, F)
    /\ UNCHANGED <<tags, tries, todo, loaded, objects, filed, tickets, forgotten, upsets>>

TicketRows == {f \in TicketFindings : scanOf[f] # Unscanned}

\* triage_finding, a verification pass, the AI: the row is written.
Rule(f) ==
    /\ f \in TicketRows /\ Upset
    /\ worthy' \in {worthy \cup {f}, worthy \ {f}} /\ Touches(Unscanned, {f})
    /\ UNCHANGED <<scanOf, tags, task, tries, todo, loaded, objects, filed, tickets, forgotten>>

\* update_tags replaces the tags by a list made from an older view of them.
EditTags(f, kept) ==
    /\ f \in TicketRows /\ Upset
    /\ kept \subseteq tags[f] /\ tags' = [tags EXCEPT ![f] = kept]
    /\ forgotten' = forgotten \cup ({f} \X (tags[f] \ kept))
    /\ Touches(Unscanned, {f})
    /\ UNCHANGED <<scanOf, worthy, task, tries, todo, loaded, objects, filed, tickets>>

-----------------------------------------------------------------------------
(* dispatch_findings_to_tickets *)

Load(s) ==
    LET F == {f \in TicketFindings : scanOf[f] = s}
    IN  /\ task[s] = "queued" /\ TaskTo(s, "running")
        /\ objects' = [objects EXCEPT ![s] = F]
        /\ loaded' = [loaded EXCEPT ![s] =
                        [f \in TicketFindings |-> IF f \in F THEN tags[f] ELSE {}]]
        /\ todo' = [todo EXCEPT ![s] = (F \cap worthy) \X Boards]
        /\ touched' = [touched EXCEPT ![s] = {}] /\ filed' = [filed EXCEPT ![s] = {}]
        /\ UNCHANGED <<rowVars, tries, tickets, forgotten, upsets>>

\* Mutant: only the tickets of this run are looked for.
HasMarkerOfRun(s, p) == p \in filed[s]

\* "has THIS finding already been ticketed on THIS provider?"
HasMarker(s, p) == p[2] \in loaded[s][p[1]] \/ p \in filed[s]

Visit(s, p) == task[s] = "running" /\ p \in todo[s] /\ todo' = [todo EXCEPT ![s] = @ \ {p}]

PassOver(s, p) ==
    /\ Visit(s, p) /\ HasMarker(s, p)
    /\ UNCHANGED <<rowVars, task, tries, loaded, objects, touched, filed, tickets, forgotten, upsets>>

\* "result.success and result.details", with a key under a name that is looked for.
Marks(p, ok) == ok /\ p[2] \in Keyed

\* Another fan-out is at work on the row.
Overlaps(s, f) == \E t \in TicketScans \ {s} : task[t] = "running" /\ f \in objects[t]

\* _send_to_channel: there is a ticket or not, and the answer says so or not.
Send(s, p, made, ok) ==
    /\ Visit(s, p) /\ ~HasMarker(s, p)
    /\ ok => made
    /\ IF made /\ ~ok THEN Upset ELSE UNCHANGED upsets
    /\ tickets' = IF made THEN [tickets EXCEPT ![p] = @ + 1] ELSE tickets
    /\ filed' = IF Marks(p, ok) THEN [filed EXCEPT ![s] = @ \cup {p}] ELSE filed
    /\ forgotten' = IF made /\ (~ok \/ p[2] \notin Keyed \/ Overlaps(s, p[1]))
                    THEN forgotten \cup {p} ELSE forgotten
    /\ UNCHANGED <<rowVars, task, tries, loaded, objects, touched>>

\* StaleDataError.
Conflict(s) == RowsOf(filed[s]) \cap touched[s] # {}

\* What the run holds is gone.
Drops(s) ==
    /\ todo' = [todo EXCEPT ![s] = {}] /\ filed' = [filed EXCEPT ![s] = {}]
    /\ objects' = [objects EXCEPT ![s] = {}] /\ loaded' = [loaded EXCEPT ![s] = NoTags]

\* Mutant: markers are appended to the list in place, which no commit sees.
NewTagsInPlace(s, f) == loaded[s][f]

\* A new list: the markers loaded and those of this run.
NewTags(s, f) == loaded[s][f] \cup {b \in Boards : <<f, b>> \in filed[s]}

\* "Commit those mutations": the tags as this run knows them.
Commit(s) ==
    LET F == RowsOf(filed[s])
    IN  /\ task[s] = "running" /\ todo[s] = {} /\ ~Conflict(s) /\ TaskTo(s, "done")
        /\ tags' = [f \in TicketFindings |-> IF f \in F THEN NewTags(s, f) ELSE tags[f]]
        /\ Drops(s)
        /\ touched' = [t \in TicketScans |-> IF t = s THEN {} ELSE touched[t] \cup (F \cap objects[t])]
        /\ UNCHANGED <<scanOf, worthy, tries, tickets, forgotten, upsets>>

CountsRetry(s) == [tries EXCEPT ![s] = @ + 1]

\* The conflict, or any other error: rolled back, and retried in a minute.
Fails(s) ==
    /\ task[s] = "running"
    /\ TaskTo(s, IF tries[s] < MaxRetries THEN "waiting" ELSE "dead")
    /\ tries' = IF tries[s] < MaxRetries THEN CountsRetry(s) ELSE tries
    /\ forgotten' = forgotten \cup filed[s]
    /\ Drops(s) /\ touched' = [touched EXCEPT ![s] = {}]
    /\ UNCHANGED <<rowVars, tickets, upsets>>

Countdown(s) ==
    /\ task[s] = "waiting" /\ TaskTo(s, "queued")
    /\ UNCHANGED <<rowVars, tries, workVars, tickets, forgotten, upsets>>

\* The worker dies, before the commit or before the acknowledgement: the message
\* is delivered again, and no retry is counted.
Crash(s) ==
    /\ task[s] \in {"running", "done"} /\ TaskTo(s, "queued")
    /\ Upset
    /\ forgotten' = forgotten \cup filed[s]
    /\ Drops(s) /\ touched' = [touched EXCEPT ![s] = {}]
    /\ UNCHANGED <<rowVars, tries, tickets>>

-----------------------------------------------------------------------------
FanoutStep(s) ==
    \/ Load(s)
    \/ \E p \in Pairs : PassOver(s, p) \/ \E made, ok \in BOOLEAN : Send(s, p, made, ok)
    \/ Commit(s) \/ Fails(s) \/ Countdown(s)

TicketNext ==
    \/ \E s \in TicketScans : \/ FanoutStep(s) \/ Crash(s)
                              \/ \E F, W \in SUBSET TicketFindings : ScanEnds(s, F, W)
    \/ \E f \in TicketFindings : Rule(f) \/ \E kept \in SUBSET Boards : EditTags(f, kept)

TicketSpec == TicketInit /\ [][TicketNext]_ticketVars

-----------------------------------------------------------------------------
(* Properties *)

\* Every variable has its type; markers in memory are for rows that are held, and a
\* run that is over holds nothing.
TicketTypeOK ==
    /\ scanOf \in [TicketFindings -> TicketScans \cup {Unscanned}] /\ worthy \subseteq TicketRows
    /\ tags \in [TicketFindings -> SUBSET Boards]
    /\ task \in [TicketScans -> {"none", "unsent", "queued", "running", "waiting", "done", "dead"}]
    /\ tries \in [TicketScans -> 0 .. MaxRetries]
    /\ todo \in [TicketScans -> SUBSET Pairs] /\ filed \in [TicketScans -> SUBSET Pairs]
    /\ loaded \in [TicketScans -> [TicketFindings -> SUBSET Boards]]
    /\ objects \in [TicketScans -> SUBSET TicketRows]
    /\ touched \in [TicketScans -> SUBSET TicketFindings]
    /\ \A s \in TicketScans : /\ touched[s] \cup RowsOf(filed[s] \cup todo[s]) \subseteq objects[s]
                              /\ task[s] # "running" => objects[s] = {}
    /\ tickets \in [Pairs -> Nat] /\ forgotten \subseteq Pairs
    /\ upsets \in 0 .. MaxUpsets

\* A marker, committed or not, stands for a ticket there is: no failure makes the
\* dispatcher pass over a finding that has none.
MarkersAreTrue ==
    /\ \A p \in Pairs : p[2] \in tags[p[1]] => tickets[p] > 0
    /\ \A s \in TicketScans, p \in Pairs : task[s] = "running" /\ HasMarker(s, p) => tickets[p] > 0

\* "Re-running a scan doesn't fire duplicate tickets": with retries, redelivered
\* messages and rescans, a second ticket is filed only after the first was forgotten.
DuplicateNeedsLoss == \A p \in Pairs : tickets[p] > 1 => p \in forgotten

\* A ticket that is not forgotten is, once nobody works on its row, in the tags.
TicketsAreRemembered ==
    \A p \in Pairs : tickets[p] > 0 /\ p \notin forgotten =>
        \/ p[2] \in tags[p[1]]
        \/ \E s \in TicketScans : task[s] = "running" /\ p \in filed[s]

\* Markers and tickets agree in both directions, whatever fails, is redelivered or
\* is edited: what the tags say is filed, and what was filed and not lost is in them.
TicketInv == TicketTypeOK /\ MarkersAreTrue /\ TicketsAreRemembered
================================================================================
