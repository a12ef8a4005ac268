------------------------------- MODULE SourceWalk -------------------------------
(***************************************************************************)
(* How the adapters of services/source_scanners walk a source, and what    *)
(* their cursors and full sweeps make of pages that fail, pages that are   *)
(* never asked for, and items that change, appear or go meanwhile.         *)
(*                                                                         *)
(* Module SourceScan has the scan around one adapter; here the scan is     *)
(* reduced to how it uses the adapter, and every adapter is a record of    *)
(* how it walks:                                                           *)
(*   places   "one"; several that are "given"; or "found" by requests      *)
(*   order    of the items in a place: "oldest" or "newest" first where    *)
(*            the adapter asks for or relies on it, otherwise "listed"     *)
(*   paging   pages follow the last item ("token"), are counted            *)
(*            ("offset"), or come from one list taken first ("snapshot")   *)
(*   capped   there is a bound on the pages of a place                     *)
(*   mark     the cursor: one of the "source", of each "place", of each    *)
(*            "item", or "none"                                            *)
(*   stamp    what it compares: when the item "changed", was "born", or    *)
(*            "started" (and is listed later); "day": the day it changed;  *)
(*            "text": compares dates as text                               *)
(*   again    items at the mark are read again                             *)
(*   reading  content comes with the "page"; or apart, and the mark moves  *)
(*            "early" or when it was "read"                                *)
(*   error    a failed page ends the "place", costs the "page", "forgets"  *)
(*            what the place did to the mark, or "raises"                  *)
(*                                                                         *)
(* Abstracted: a page is one item, and an item one secret; what adapters   *)
(* fetch besides an item (comments, files) is part of it, and filters by   *)
(* name, type and size leave what the source here has.  The factory of     *)
(* this edition makes the adapters of Wired; the others are kept in the    *)
(* tree and walk by the same rules.                                        *)
(***************************************************************************)
EXTENDS Naturals, FiniteSets

CONSTANTS
    Sources,     \* the adapters looked at, by source_type
    NumItems,
    NumPlaces,   \* how many places each source has its items in
    Cap,         \* the pages of a place that are asked for, where there is a bound
    MaxTime,     \* bound: times something changes
    MaxFaults    \* bound: requests that fail

Alphabet == <<7, 5, 1, 3, 4, 2, 6>>   \* "Wed", "Thu", "Fri", ... as text

ASSUME WalkBounds ==
    /\ NumItems \in Nat /\ NumPlaces \in [Sources -> Nat \ {0}]
    /\ Cap \in [Sources -> Nat \ {0}] /\ MaxFaults \in Nat /\ MaxTime \in 0 .. 7

-----------------------------------------------------------------------------
(* The adapters *)

Plain == [places |-> "found", order |-> "listed", paging |-> "token", capped |-> FALSE,
          mark |-> "source", stamp |-> "changed", again |-> FALSE, reading |-> "early",
          error |-> "place"]

S3   == [Plain EXCEPT !.places = "one", !.reading = "read", !.error = "raises"]
GCS  == [Plain EXCEPT !.places = "one", !.reading = "read", !.error = "raises"]
AzureBlob == [Plain EXCEPT !.capped = TRUE, !.stamp = "text", !.reading = "read"]
Box       == [Plain EXCEPT !.paging = "offset", !.reading = "read"]
OneDrive  == [Plain EXCEPT !.capped = TRUE, !.reading = "read"]
SharePointPages == [Plain EXCEPT !.capped = TRUE]
Teams     == [Plain EXCEPT !.capped = TRUE]

Slack      == [Plain EXCEPT !.mark = "place", !.stamp = "born"]
Mattermost == [Plain EXCEPT !.paging = "offset", !.capped = TRUE, !.again = TRUE,
                            !.reading = "page", !.error = "forgets"]
Confluence == [Plain EXCEPT !.mark = "item", !.reading = "page"]
Notion     == [Plain EXCEPT !.places = "one", !.capped = TRUE]
Asana      == Plain

\* Jira keeps the day of the last issue: issues of that day are read again.
Jira   == [Plain EXCEPT !.places = "one", !.order = "oldest", !.capped = TRUE,
                        !.stamp = "day", !.again = TRUE]
Linear == [Plain EXCEPT !.places = "one", !.order = "newest", !.capped = TRUE, !.reading = "page"]
AzureDevOps  == [Plain EXCEPT !.places = "one", !.paging = "snapshot", !.error = "page"]
GithubIssues == [Plain EXCEPT !.places = "given", !.order = "oldest", !.paging = "offset",
                              !.capped = TRUE]
BitbucketIssues == [Plain EXCEPT !.places = "given", !.order = "newest", !.paging = "offset",
                                 !.capped = TRUE]
BitbucketPulls  == [Plain EXCEPT !.places = "given", !.paging = "offset", !.capped = TRUE]
Salesforce == [Plain EXCEPT !.places = "given", !.order = "oldest", !.capped = TRUE,
                            !.mark = "place"]
ServiceNow == [Plain EXCEPT !.places = "given", !.order = "oldest", !.paging = "offset",
                            !.capped = TRUE, !.mark = "place", !.again = TRUE,
                            !.reading = "page"]

Builds == [Plain EXCEPT !.places = "one", !.order = "newest", !.paging = "snapshot",
                        !.capped = TRUE, !.stamp = "born"]
Jenkins       == Builds
GithubActions == [Builds EXCEPT !.stamp = "started"]
CircleCI      == Builds

ContainerRegistry == [Plain EXCEPT !.paging = "snapshot", !.capped = TRUE, !.mark = "none",
                                   !.reading = "read"]
DockerImage    == [Plain EXCEPT !.places = "one", !.paging = "snapshot", !.mark = "none",
                                !.reading = "read"]
TerraformState == [Plain EXCEPT !.places = "one", !.mark = "item", !.reading = "page"]
Postman == [Plain EXCEPT !.places = "given", !.paging = "snapshot", !.mark = "item",
                         !.reading = "read"]

Profile == [
    s3 |-> S3, gcs |-> GCS, azure_blob |-> AzureBlob, box |-> Box,
    onedrive_sharepoint |-> OneDrive, sharepoint_pages |-> SharePointPages, ms_teams |-> Teams,
    slack |-> Slack, mattermost |-> Mattermost, confluence |-> Confluence, notion |-> Notion,
    asana |-> Asana, jira |-> Jira, linear |-> Linear, azure_devops |-> AzureDevOps,
    github_issues |-> GithubIssues, bitbucket_issues |-> BitbucketIssues,
    bitbucket_pulls |-> BitbucketPulls, salesforce |-> Salesforce, servicenow |-> ServiceNow,
    jenkins |-> Jenkins, github_actions |-> GithubActions, circleci |-> CircleCI,
    container_registry |-> ContainerRegistry, docker_image |-> DockerImage,
    terraform_state |-> TerraformState, postman |-> Postman]

Wired == {"jira", "servicenow", "azure_devops", "s3", "gcs", "azure_blob", "docker_image",
          "jenkins", "github_actions", "circleci", "container_registry", "terraform_state",
          "postman", "salesforce"}

ASSUME SourcesAreKnown == Sources \subseteq DOMAIN Profile

-----------------------------------------------------------------------------
VARIABLES
    source,    \* ScanSource.source_type
    now,       \* the source's clock
    born, changed,   \* per item, when it appeared and last changed; 0: not there
    found,     \* its NormalizedFinding: "none", "open", "resolved" (RESOLVED_ITEM_DELETED)
    fresh,     \* items scanned as they are now
    mark,      \* ScanSource.sync_state
    walk,      \* the scan under way, Idle if none
    faults,    \* requests that failed
    unread,    \* ghost: items whose content could not be fetched since they changed
    excused,   \* ghost: items there when a walk ended that was cut or stirred,
               \*   unchanged since
    tied       \* ghost: items of the very time of a cursor that skips it, or of the item a
               \*   walk in order of change stood at when they changed

vars == <<source, now, born, changed, found, fresh, mark, walk, faults, unread, excused,
          tied>>

Items  == 1 .. NumItems
Keys   == 0 .. NumItems
NoMark == [k \in Keys |-> 0]

Walks  == Profile[source]
Places == IF Walks.places = "one" THEN 1 ELSE NumPlaces[source]
Place(i) == ((i - 1) % Places) + 1
Present == {i \in Items : changed[i] # 0}

\* A scan: whether it is a full sweep, the marks it started from (base), has
\* reached (next) and had at this place's start (entry), the place (at), how far
\* it is in it (pos: rank of the last item, or items so far), pages read, the
\* list taken first (todo), locators seen, items read, and two ghosts: requests
\* failed or pages left (cut), items touched meanwhile.
Idle == [on |-> FALSE, full |-> FALSE, base |-> NoMark, next |-> NoMark, entry |-> NoMark,
         at |-> 0, pos |-> 0, pages |-> 0, todo |-> {}, seen |-> {}, read |-> {},
         cut |-> FALSE, touched |-> {}]

-----------------------------------------------------------------------------
(* Cursors *)

MarkKey(i) == CASE Walks.mark = "place" -> Place(i)
                [] Walks.mark = "item"  -> i
                [] OTHER -> 0

Stamp(i) == IF Walks.stamp \in {"born", "started"} THEN born[i] ELSE changed[i]

\* The value compared: Azure's Last-Modified starts with the name of the day; a
\* day of Jira's has two times.
Kept(t) == CASE Walks.stamp = "text" /\ t # 0 -> Alphabet[t]
             [] Walks.stamp = "day" /\ t # 0 -> (t + 2) \div 2
             [] OTHER -> t

\* An item whose stamp is at the mark is skipped, unless read again.
Filtered(i, m) ==
    LET reached == m[MarkKey(i)] IN
    /\ Walks.mark # "none" /\ reached # 0
    /\ \/ Kept(Stamp(i)) < Kept(reached)
       \/ ~Walks.again /\ Stamp(i) = reached

Raised(i, m) ==
    IF Walks.mark # "none" /\ Kept(Stamp(i)) > Kept(m[MarkKey(i)])
    THEN [m EXCEPT ![MarkKey(i)] = Stamp(i)] ELSE m

-----------------------------------------------------------------------------
(* Paging *)

\* GitHub lists runs that are completed.
Offered == {i \in Present : Walks.stamp = "started" => changed[i] > born[i]}

\* What a place lists: an ordered query is filtered by the service.
Listed(p, base) ==
    {i \in Offered : Place(i) = p /\ (Walks.order # "listed" => ~Filtered(i, base))}

Rank(i) == CASE Walks.order = "oldest" -> Stamp(i) * (NumItems + 1) + i
             [] Walks.order = "newest" -> (MaxTime + 1 - Stamp(i)) * (NumItems + 1) + i
             [] OTHER -> i

\* Pages follow the order of change.
InOrder == Walks.order = "oldest" /\ Walks.paging = "token"

\* What the pages to come have in store, and what the next one has: nothing, or the
\* item it starts with.
Ahead ==
    LET list == Listed(walk.at, walk.base) IN
    CASE Walks.paging = "token"  -> {i \in list : Rank(i) > walk.pos}
      [] Walks.paging = "offset" ->
           {i \in list : Cardinality({j \in list : Rank(j) < Rank(i)}) >= walk.pos}
      [] OTHER -> walk.todo

NextPage == {i \in Ahead : \A j \in Ahead : Rank(i) <= Rank(j)}

Turned(i) == [walk EXCEPT !.pos = IF Walks.paging = "token" THEN Rank(i) ELSE @ + 1,
                          !.pages = @ + 1, !.todo = @ \ {i}]

Entered(w, p) ==
    [w EXCEPT !.at = p, !.pos = 0, !.pages = 0,
              !.entry = IF Walks.error = "forgets" THEN w.next ELSE @,
              !.todo = IF Walks.paging = "snapshot" THEN Listed(p, w.base) ELSE @]

-----------------------------------------------------------------------------
(* The source *)

\* An item appears or changes; changes of two items may fall together.
Put(i) ==
    /\ now' \in {now, now + 1} \ {changed[i]} /\ now' \in 1 .. MaxTime
    /\ changed' = [changed EXCEPT ![i] = now']
    /\ born' = [born EXCEPT ![i] = IF @ = 0 THEN now' ELSE @]
    /\ fresh' = fresh \ {i} /\ unread' = unread \ {i} /\ excused' = excused \ {i}
    /\ tied' = IF walk.on /\ InOrder /\ walk.pos >= now' * (NumItems + 1)
                THEN tied \union {i} ELSE tied \ {i}
    /\ walk' = IF walk.on THEN [walk EXCEPT !.touched = @ \union {i}, !.read = @ \ {i}] ELSE walk
    /\ UNCHANGED <<source, found, mark, faults>>

Remove(i) ==
    /\ i \in Present
    /\ changed' = [changed EXCEPT ![i] = 0] /\ born' = [born EXCEPT ![i] = 0]
    /\ fresh' = fresh \ {i} /\ unread' = unread \ {i} /\ excused' = excused \ {i}
    /\ tied' = tied \ {i}
    /\ walk' = IF walk.on
                THEN [walk EXCEPT !.touched = @ \union {i}, !.read = @ \ {i}, !.todo = @ \ {i}]
                ELSE walk
    /\ UNCHANGED <<source, now, found, mark, faults>>

-----------------------------------------------------------------------------
(* A scan *)

\* Mutant: a sweep starts from the saved cursors.
BaseKept(full) == mark

\* force_full gives the adapter no state, and it keeps what it makes of it.
BaseOf(full) == IF full THEN NoMark ELSE mark

Start(full) ==
    /\ ~walk.on
    /\ LET base == BaseOf(full) IN
       walk' = Entered([Idle EXCEPT !.on = TRUE, !.full = full, !.base = base, !.next = base], 1)
    /\ UNCHANGED <<source, now, born, changed, found, fresh, mark, faults, unread, excused, tied>>

Walking == walk.on /\ walk.at <= Places

Turning == Walking /\ (Walks.capped => walk.pages < Cap[source])

\* The findings of what was seen: rows are found again by their stability id, and
\* a resolved one stays so.
Stored(seen) == [i \in Items |-> IF i \in seen /\ found[i] = "none" THEN "open" ELSE found[i]]

ReadItem(i) ==
    /\ Turning /\ i \in NextPage
    /\ walk' = IF Filtered(i, walk.base) THEN Turned(i)
                ELSE [Turned(i) EXCEPT !.next = Raised(i, @), !.seen = @ \union {i},
                                       !.read = @ \union {i}]
    /\ UNCHANGED <<source, now, born, changed, found, fresh, mark, faults, unread, excused, tied>>

\* The content of an item cannot be fetched, and the walk goes on.
ReadFails(i) ==
    /\ Turning /\ i \in NextPage /\ faults < MaxFaults
    /\ Walks.reading # "page" /\ ~Filtered(i, walk.base)
    /\ faults' = faults + 1
    /\ walk' = [Turned(i) EXCEPT !.next = IF Walks.reading = "early" THEN Raised(i, @) ELSE @]
    /\ unread' = unread \union {i}
    /\ UNCHANGED <<source, now, born, changed, found, fresh, mark, excused, tied>>

\* A request for a page fails; the loop breaks, or skips it.
PageFails ==
    /\ Turning /\ faults < MaxFaults /\ Walks.error # "raises"
    /\ faults' = faults + 1
    /\ LET w == [walk EXCEPT !.cut = TRUE] IN
       CASE Walks.error = "page" /\ NextPage # {} ->
              \E i \in NextPage : walk' = [Turned(i) EXCEPT !.cut = TRUE]
         [] Walks.error = "forgets" -> walk' = Entered([w EXCEPT !.next = walk.entry], walk.at + 1)
         [] OTHER -> walk' = Entered(w, walk.at + 1)
    /\ UNCHANGED <<source, now, born, changed, found, fresh, mark, unread, excused, tied>>

\* A request for the list of places fails, and those not listed yet are left out.
PlacesFail ==
    /\ Walking /\ walk.pages = 0 /\ faults < MaxFaults /\ Walks.places = "found"
    /\ faults' = faults + 1
    /\ walk' = [walk EXCEPT !.at = Places + 1, !.cut = TRUE]
    /\ UNCHANGED <<source, now, born, changed, found, fresh, mark, unread, excused, tied>>

\* No page is left in this place, or no more are asked for.
EndPlace ==
    /\ Walking /\ (NextPage = {} \/ ~Turning)
    /\ walk' = Entered([walk EXCEPT !.cut = @ \/ NextPage # {}], walk.at + 1)
    /\ UNCHANGED <<source, now, born, changed, found, fresh, mark, faults, unread, excused, tied>>

\* Open findings of items not seen, after a full sweep.
ResolvedBySweep == {i \in Items : walk.full /\ found[i] = "open" /\ i \notin walk.seen}

\* The scan completes: findings, sync_state and resolved rows are committed.
Finish ==
    /\ walk.on /\ walk.at > Places
    /\ found' = [i \in Items |-> IF i \in ResolvedBySweep THEN "resolved"
                                ELSE Stored(walk.seen)[i]]
    /\ fresh' = fresh \union walk.read /\ unread' = unread \ walk.read
    /\ mark' = walk.next
    /\ tied' = tied \union {i \in Present \ fresh' : ~Walks.again /\
                    Stamp(i) \in {walk.base[MarkKey(i)], walk.next[MarkKey(i)]}}
    /\ excused' = IF walk.cut \/ walk.touched # {} THEN excused \union Present ELSE excused
    /\ walk' = Idle
    /\ UNCHANGED <<source, now, born, changed, faults>>

\* Mutant: a failing scan saves its cursors.
FailSaves ==
    /\ walk.on /\ faults < MaxFaults
    /\ faults' = faults + 1
    /\ \E kept \in SUBSET walk.seen :
         LET read == kept \intersect walk.read IN
         found' = Stored(kept) /\ fresh' = fresh \union read /\ unread' = unread \ read
    /\ mark' = walk.next /\ walk' = Idle
    /\ UNCHANGED <<source, now, born, changed, excused, tied>>

\* The walk raises or the scan dies: sync_state stays, and batches of findings
\* committed on the way stay too.
Fail ==
    /\ walk.on /\ faults < MaxFaults
    /\ faults' = faults + 1
    /\ \E kept \in SUBSET walk.seen :
         LET read == kept \intersect walk.read IN
         found' = Stored(kept) /\ fresh' = fresh \union read /\ unread' = unread \ read
    /\ walk' = Idle
    /\ UNCHANGED <<source, now, born, changed, mark, excused, tied>>

Init ==
    /\ source \in Sources /\ now = 0 /\ faults = 0
    /\ born = [i \in Items |-> 0] /\ changed = born
    /\ found = [i \in Items |-> "none"]
    /\ fresh = {} /\ unread = {} /\ excused = {} /\ tied = {}
    /\ mark = NoMark /\ walk = Idle

Step == (\E i \in Items : ReadItem(i)) \/ EndPlace \/ Finish
Next == \/ \E i \in Items : Put(i) \/ Remove(i) \/ ReadFails(i)
        \/ \E full \in BOOLEAN : Start(full)
        \/ Step \/ PageFails \/ PlacesFail \/ Fail

Spec == Init /\ [][Next]_vars

-----------------------------------------------------------------------------
(* Properties *)

\* No cursor is ahead of the source's clock.
Marks == [Keys -> 0 .. now]

WalkRecords ==
    [on : BOOLEAN, full : BOOLEAN, base : Marks, next : Marks, entry : Marks, at : Nat,
     pos : Nat, pages : Nat, todo : SUBSET Present, seen : SUBSET Items,
     read : SUBSET Present, cut : BOOLEAN, touched : SUBSET Items]

WalkTypeOK ==
    /\ source \in Sources /\ now \in 0 .. MaxTime /\ faults \in 0 .. MaxFaults
    /\ born \in [Items -> Nat] /\ changed \in [Items -> Nat]
    /\ \A i \in Items : born[i] <= changed[i] /\ changed[i] <= now
    /\ found \in [Items -> {"none", "open", "resolved"}]
    /\ fresh \cup unread \cup excused \cup tied \subseteq Present
    /\ mark \in Marks /\ walk \in WalkRecords
    /\ walk.read \subseteq walk.seen
    /\ Walks.capped => walk.pages <= Cap[source]
    /\ ~walk.on => walk = Idle

\* Walks whose cursor says what they have covered, however they were cut short.
Resumes == \/ Walks.mark = "item"
           \/ /\ InOrder
              /\ Walks.places = "one" \/ Walks.mark = "place"

\* A walk from these marks will not read this item, though it is not of their time.
Passed(i, m) == Filtered(i, m) /\ Stamp(i) # m[MarkKey(i)]

\* An item that changed is not left behind the cursor, unless its content could not be
\* fetched; it has the very time of a cursor; it is not listed yet, or the adapter compares
\* something else than when it changed; or the cursor came from a walk that was cut short
\* or stirred, by an adapter whose cursor does not say what it covered.
PassedWithCause ==
    \A i \in Present \ fresh :
        Passed(i, mark) => \/ i \in unread \union tied \/ i \notin Offered
                           \/ Stamp(i) # changed[i] \/ Walks.stamp = "text"
                           \/ i \in excused /\ ~Resumes

\* The types of the variables, and what cursors pass.
WalkInv == WalkTypeOK /\ PassedWithCause

\* Pages that a change in the source can push items across.
Shifts == Walks.paging = "offset"

\* A full sweep resolves the finding of an item that is there only if its content
\* could not be fetched, the walk was cut short, or pages shifted under it.
SweepsResolveWithCause ==
    [][ \A i \in Items : (found[i] = "open" /\ found'[i] = "resolved") =>
            \/ i \notin Offered \/ i \in unread \/ walk.cut
            \/ walk.touched # {} /\ (Shifts \/ i \in walk.touched) ]_vars

\* A full sweep that was not cut short brings every item up to date, whatever the
\* saved cursor was.
FullSweepRecovers ==
    [][ (walk.full /\ mark' = walk.next /\ walk' = Idle /\ ~walk.cut
         /\ (walk.touched = {} \/ ~Shifts) /\ faults' = faults) =>
            Offered \ (unread' \union walk.touched) \subseteq fresh' ]_vars

\* What a full sweep may do to findings, and what it does for items.
SweepsAreSound == SweepsResolveWithCause /\ FullSweepRecovers

\* As the comment above the sweep's UPDATE says: items not seen "have been deleted".
SweepResolvesOnlyDeleted ==
    [][ \A i \in Items : (found[i] = "open" /\ found'[i] = "resolved") => changed[i] = 0 ]_vars

\* Schedules and the weekly sweep keep coming, workers keep working.
WalkFairness == WF_vars(Step) /\ SF_vars(Start(TRUE))
FairSpec == Spec /\ WalkFairness

\* Whatever cursors, failures and changes have left behind, once the source rests and
\* answers, sweeps bring every item of a source without a cap up to date.
SweepsCatchUp == <>[][UNCHANGED changed]_vars => <>[](Offered \subseteq fresh)
===============================================================================
