--------------------------- MODULE SourceWalkProofs ---------------------------
(***************************************************************************)
(* Walks of any adapter over any items, pages and places, for any clock    *)
(* and faults.  A walk that was neither cut nor shifted has read all that  *)
(* it is past; one in order of change has, of the items of its place that  *)
(* nothing else accounts for, read all up to where it stands.  So what a   *)
(* sweep resolves, and what a cursor passes, has one of the causes.        *)
(***************************************************************************)
EXTENDS SourceWalk, FiniteSetTheorems, WellFoundedInduction, TLAPS

-----------------------------------------------------------------------------
(* The adapters *)

\* What the proofs use of an adapter: which walks resume, and how.
Known(w) ==
    /\ w.paging \in {"token", "offset", "snapshot"}
    /\ w.order \in {"oldest", "newest", "listed"}
    /\ w.mark \in {"source", "place", "item", "none"}
    /\ w.places \in {"one", "given", "found"}
    /\ w.mark = "item" => w.stamp = "changed" /\ w.error = "place"
    /\ w.order = "oldest" /\ w.paging = "token" =>
         /\ w.stamp \in {"changed", "day"} /\ w.error = "place"
         /\ w.mark = "place" \/ (w.mark = "source" /\ w.places = "one")

LEMMA AdaptersAreKnown == \A s \in DOMAIN Profile : Known(Profile[s])
  <1>. USE DEF Plain, Known
  <1>1. Known(S3) /\ Known(GCS) /\ Known(AzureBlob) /\ Known(Box) /\ Known(OneDrive)
        /\ Known(SharePointPages) /\ Known(Teams)
    BY DEF S3, GCS, AzureBlob, Box, OneDrive, SharePointPages, Teams
  <1>2. Known(Slack) /\ Known(Mattermost) /\ Known(Confluence) /\ Known(Notion) /\ Known(Asana)
        /\ Known(Jira) /\ Known(Linear) /\ Known(AzureDevOps)
    BY DEF Slack, Mattermost, Confluence, Notion, Asana, Jira, Linear, AzureDevOps
  <1>3. Known(GithubIssues) /\ Known(BitbucketIssues) /\ Known(BitbucketPulls)
        /\ Known(Salesforce) /\ Known(ServiceNow)
    BY DEF GithubIssues, BitbucketIssues, BitbucketPulls, Salesforce, ServiceNow
  <1>4. Known(Jenkins) /\ Known(GithubActions) /\ Known(CircleCI)
    BY DEF Builds, Jenkins, GithubActions, CircleCI
  <1>5. Known(ContainerRegistry) /\ Known(DockerImage) /\ Known(TerraformState) /\ Known(Postman)
    BY DEF ContainerRegistry, DockerImage, TerraformState, Postman
  <1>. HIDE DEF Plain, Known
  <1>. QED  BY <1>1, <1>2, <1>3, <1>4, <1>5 DEF Profile

-----------------------------------------------------------------------------
(* Types *)

LEMMA Bounds ==
    ASSUME WalkTypeOK
    PROVE  /\ Known(Walks) /\ Places \in Nat \ {0} /\ Cap[source] \in Nat \ {0}
           /\ NumItems \in Nat /\ MaxFaults \in Nat /\ MaxTime \in Nat
  BY WalkBounds, SourcesAreKnown, AdaptersAreKnown DEF WalkTypeOK, Places, Walks

LEMMA Remainders ==
    ASSUME NEW a \in Nat, NEW n \in Nat \ {0}
    PROVE  a % n \in 0 .. n - 1 /\ a % n <= a
  OBVIOUS

\* Places and cursors of items.
LEMMA PlacesAndKeys ==
    ASSUME WalkTypeOK, NEW i \in Items
    PROVE  /\ Place(i) \in 1 .. Places /\ MarkKey(i) \in Keys
           /\ born[i] \in Nat /\ changed[i] \in Nat /\ Stamp(i) \in Nat /\ Stamp(i) <= now
           /\ now \in Nat /\ i \in Nat \ {0} /\ i <= NumItems
  <1>1. i \in Nat \ {0} /\ i <= NumItems /\ NumItems \in Nat /\ i - 1 \in Nat
    BY WalkBounds DEF Items
  <1>2. (i - 1) % Places \in 0 .. Places - 1 /\ (i - 1) % Places <= i - 1
    BY <1>1, Bounds, Remainders
  <1>3. Place(i) \in 1 .. Places /\ Place(i) <= i
    BY <1>1, <1>2, Bounds DEF Place
  <1>4. MarkKey(i) \in Keys
    BY <1>1, <1>3, Bounds DEF MarkKey, Keys, Known
  <1>. QED  BY <1>1, <1>3, <1>4, WalkBounds DEF WalkTypeOK, Stamp

LEMMA RanksAreNumbers ==
    ASSUME WalkTypeOK, NEW i \in Items
    PROVE  Rank(i) \in Nat \ {0}
  <1>1. MaxTime + 1 - Stamp(i) \in Nat
    BY PlacesAndKeys, WalkBounds DEF WalkTypeOK
  <1>. QED  BY <1>1, PlacesAndKeys, WalkBounds DEF Rank

-----------------------------------------------------------------------------
(* Order and pages *)

LEMMA ProductsGrow ==
    ASSUME NEW m \in Nat, NEW n \in Nat, m < n, NEW q \in Nat
    PROVE  m * q + q <= n * q
  <1>1. (m + 1) * q <= n * q
    OBVIOUS
  <1>2. (m + 1) * q = m * q + q
    OBVIOUS
  <1>. QED  BY <1>1, <1>2

LEMMA TwoPlaces ==
    ASSUME NEW N \in Nat, NEW i \in 1 .. N, NEW j \in 1 .. N, NEW s \in Nat, NEW t \in Nat
    PROVE  /\ s < t => s * (N + 1) + i < t * (N + 1) + j
           /\ s * (N + 1) + i = t * (N + 1) + j => i = j
  <1>1. ASSUME NEW a \in Nat, NEW b \in Nat, a < b, NEW k \in 1 .. N, NEW l \in 1 .. N
        PROVE  a * (N + 1) + k < b * (N + 1) + l
    <2>1. a * (N + 1) + (N + 1) <= b * (N + 1) /\ a * (N + 1) \in Nat /\ b * (N + 1) \in Nat
      BY <1>1, ProductsGrow
    <2>. QED  BY <2>1
  <1>2. s * (N + 1) \in Nat /\ t * (N + 1) \in Nat
    OBVIOUS
  <1>3. CASE s < t
    BY <1>1, <1>2, <1>3
  <1>4. CASE t < s
    BY <1>1, <1>2, <1>4
  <1>5. CASE s = t
    BY <1>2, <1>5
  <1>. QED  BY <1>3, <1>4, <1>5

\* Two items have two ranks, and in order of change the older one has the lower.
LEMMA RanksDiffer ==
    ASSUME WalkTypeOK, NEW i \in Items, NEW j \in Items
    PROVE  /\ Rank(i) = Rank(j) => i = j
           /\ Walks.order = "oldest" /\ Stamp(i) < Stamp(j) => Rank(i) < Rank(j)
  <1>1. /\ i \in 1 .. NumItems /\ j \in 1 .. NumItems /\ NumItems \in Nat
        /\ Stamp(i) \in Nat /\ Stamp(j) \in Nat
        /\ MaxTime + 1 - Stamp(i) \in Nat /\ MaxTime + 1 - Stamp(j) \in Nat
    <2>1. \A k \in Items : /\ Stamp(k) \in Nat /\ k \in Nat \ {0} /\ k <= NumItems
                           /\ MaxTime + 1 - Stamp(k) \in Nat
      BY PlacesAndKeys, WalkBounds DEF WalkTypeOK
    <2>. QED  BY <2>1, WalkBounds
  <1>2. CASE Walks.order = "oldest"
    <2>1. /\ Rank(i) = Stamp(i) * (NumItems + 1) + i
          /\ Rank(j) = Stamp(j) * (NumItems + 1) + j
      BY <1>2 DEF Rank
    <2>. QED  BY <1>1, <2>1, TwoPlaces
  <1>3. CASE Walks.order = "newest"
    <2>1. /\ Rank(i) = (MaxTime + 1 - Stamp(i)) * (NumItems + 1) + i
          /\ Rank(j) = (MaxTime + 1 - Stamp(j)) * (NumItems + 1) + j
      BY <1>3 DEF Rank
    <2>. QED  BY <1>1, <1>3, <2>1, TwoPlaces
  <1>4. CASE Walks.order \notin {"oldest", "newest"}
    <2>1. Rank(i) = i /\ Rank(j) = j
      BY <1>4 DEF Rank
    <2>. QED  BY <1>4, <2>1
  <1>. QED  BY <1>2, <1>3, <1>4

\* Numbers up to a bound have a least one.
LEMMA Least ==
    ASSUME NEW N \in Nat, NEW T \in SUBSET (1 .. N), T # {}
    PROVE  \E m \in T : \A n \in T : m <= n
<1> DEFINE I    == 1 .. N
           O    == StrictSubsetOrdering(I)
           Segs == {1 .. m : m \in T}
<1>1. IsFiniteSet(I)
  BY FS_Interval
<1>2. FiniteSubsetsOf(I) = SUBSET I
  BY <1>1, FS_FiniteSubsetsOfFinite
<1>3. IsWellFoundedOn(O, SUBSET I)
  BY <1>2, FS_StrictSubsetOrderingWellFounded
<1>4. Segs \subseteq SUBSET I /\ Segs # {}
  <2>1. \A m \in T : 1 .. m \subseteq I
    OBVIOUS
  <2> HIDE DEF I
  <2> QED BY <2>1
<1>5. PICK x \in Segs : \A y \in Segs : ~(<<y, x>> \in O)
  <2> HIDE DEF O, Segs, I
  <2> QED BY <1>3, <1>4, WFMin
<1>6. PICK m \in T : x = 1 .. m
  OBVIOUS
<1>7. ASSUME NEW n \in T PROVE m <= n
  <2> SUFFICES ASSUME n < m PROVE FALSE
    OBVIOUS
  <2>1. 1 .. n \subseteq 1 .. m /\ 1 .. n # 1 .. m
    OBVIOUS
  <2>2. 1 .. n \in SUBSET I /\ 1 .. m \in SUBSET I /\ 1 .. n \in Segs
    OBVIOUS
  <2>3. <<1 .. n, x>> \in O
    BY <1>6, <2>1, <2>2 DEF StrictSubsetOrdering
  <2> QED BY <1>5, <2>2, <2>3
<1> QED BY <1>7

LEMMA AheadIsPresent == WalkTypeOK => Ahead \subseteq Present
  BY DEF Ahead, Listed, Offered, WalkTypeOK, WalkRecords

\* While there is something ahead the next page has something.
LEMMA PagesGoOn ==
    ASSUME WalkTypeOK, Ahead # {}
    PROVE  NextPage # {}
  <1>1. Ahead \subseteq Items
    BY AheadIsPresent DEF Present
  <1>2. PICK k \in Ahead : TRUE
    OBVIOUS
  <1>. DEFINE T == {Rank(i) : i \in {j \in Ahead : Rank(j) <= Rank(k)}}
  <1>3. Rank(k) \in Nat /\ T \in SUBSET (1 .. Rank(k)) /\ T # {}
    BY <1>1, <1>2, RanksAreNumbers
  <1>4. PICK m \in T : \A n \in T : m <= n
    <2>. HIDE DEF T
    <2>. QED  BY <1>3, Least
  <1>5. PICK i \in Ahead : Rank(i) = m /\ Rank(i) <= Rank(k)
    BY <1>4
  <1>6. ASSUME NEW j \in Ahead PROVE Rank(i) <= Rank(j)
    <2>1. Rank(j) \in Nat /\ Rank(i) \in Nat
      BY <1>1, <1>5, <1>6, RanksAreNumbers
    <2>2. CASE Rank(j) <= Rank(k)
      BY <1>4, <1>5, <2>2
    <2>3. CASE Rank(j) > Rank(k)
      BY <1>3, <1>5, <2>1, <2>3
    <2>. QED  BY <1>3, <2>1, <2>2, <2>3
  <1>. QED  BY <1>5, <1>6 DEF NextPage

-----------------------------------------------------------------------------
(* Type correctness *)

LEMMA SourceInitTypes == Init => WalkTypeOK
  <1>. SUFFICES ASSUME Init PROVE WalkTypeOK
    OBVIOUS
  <1>1. NoMark \in Marks /\ Idle \in WalkRecords
    BY DEF Init, NoMark, Marks, Keys, Idle, WalkRecords
  <1>. QED  BY <1>1, WalkBounds DEF Init, WalkTypeOK, Present, Idle

LEMMA RaisedIsMarks ==
    ASSUME WalkTypeOK, NEW i \in Items, NEW m \in Marks
    PROVE  Raised(i, m) \in Marks
  <1>1. MarkKey(i) \in Keys /\ Stamp(i) \in 0 .. now
    BY PlacesAndKeys
  <1>. QED  BY <1>1 DEF Raised, Marks

LEMMA TurnedTypes ==
    ASSUME WalkTypeOK, NEW i \in Items, NEW w, w = Turned(i)
    PROVE  /\ w \in WalkRecords
           /\ w.on = walk.on /\ w.full = walk.full /\ w.base = walk.base /\ w.next = walk.next
           /\ w.entry = walk.entry /\ w.at = walk.at /\ w.pages = walk.pages + 1
           /\ w.pos = IF Walks.paging = "token" THEN Rank(i) ELSE walk.pos + 1
           /\ w.todo = walk.todo \ {i} /\ w.seen = walk.seen /\ w.read = walk.read
           /\ w.cut = walk.cut /\ w.touched = walk.touched
  <1>1. /\ Rank(i) \in Nat /\ walk \in WalkRecords
        /\ walk.pos + 1 \in Nat /\ walk.pages + 1 \in Nat
    BY RanksAreNumbers DEF WalkTypeOK, WalkRecords
  <1>2. w = [walk EXCEPT !.pos = IF Walks.paging = "token" THEN Rank(i) ELSE @ + 1,
                         !.pages = @ + 1, !.todo = @ \ {i}]
    BY DEF Turned
  <1>. QED  BY <1>1, <1>2 DEF WalkRecords

LEMMA EnteredTypes ==
    ASSUME NEW w \in WalkRecords, NEW p \in Nat, NEW v, v = Entered(w, p)
    PROVE  /\ v \in WalkRecords
           /\ v.on = w.on /\ v.full = w.full /\ v.base = w.base /\ v.next = w.next
           /\ v.at = p /\ v.pages = 0 /\ v.pos = 0
           /\ v.todo = IF Walks.paging = "snapshot" THEN Listed(p, w.base) ELSE w.todo
           /\ v.seen = w.seen /\ v.read = w.read /\ v.cut = w.cut /\ v.touched = w.touched
  <1>1. Listed(p, w.base) \subseteq Present
    BY DEF Listed, Offered
  <1>. QED  BY <1>1 DEF WalkRecords, Entered

SourceRests == UNCHANGED <<source, now, born, changed>>

LEMMA TypesAtRest ==
    ASSUME WalkTypeOK, SourceRests,
           faults' \in 0 .. MaxFaults, found' \in [Items -> {"none", "open", "resolved"}],
           fresh' \cup unread' \cup excused' \cup tied' \subseteq Present,
           mark' \in Marks, walk' \in WalkRecords, walk'.read \subseteq walk'.seen,
           Walks.capped => walk'.pages <= Cap[source],
           ~walk'.on => walk' = Idle
    PROVE  WalkTypeOK'
  <1>1. Marks' = Marks /\ Present' = Present /\ Walks' = Walks
    BY DEF SourceRests, Marks, Present, Walks
  <1>2. WalkRecords' = WalkRecords
    BY <1>1 DEF WalkRecords
  <1>. QED  BY <1>1, <1>2 DEF WalkTypeOK, SourceRests

LEMMA PutTypes ==
    ASSUME WalkTypeOK, NEW i \in Items, Put(i)
    PROVE  WalkTypeOK'
  <1>1. /\ now' \in 1 .. MaxTime /\ now <= now'
        /\ changed' = [changed EXCEPT ![i] = now']
        /\ born' = [born EXCEPT ![i] = IF @ = 0 THEN now' ELSE @]
        /\ fresh' = fresh \ {i} /\ unread' = unread \ {i} /\ excused' = excused \ {i}
        /\ tied' \subseteq tied \cup {i} /\ mark' = mark
        /\ UNCHANGED <<source, found, faults>>
    BY WalkBounds DEF Put, WalkTypeOK
  <1>2. born' \in [Items -> Nat] /\ changed' \in [Items -> Nat]
        /\ \A j \in Items : born'[j] <= changed'[j] /\ changed'[j] <= now'
    BY <1>1, WalkBounds DEF WalkTypeOK
  <1>3. Marks \subseteq Marks' /\ Present' = Present \cup {i} /\ i \in Items
    BY <1>1, WalkBounds DEF Marks, Present, WalkTypeOK
  <1>4. CASE walk.on
    <2>1. walk' = [walk EXCEPT !.touched = @ \cup {i}, !.read = @ \ {i}]
      BY <1>4 DEF Put
    <2>2. walk \in WalkRecords /\ walk.read \subseteq walk.seen
      BY DEF WalkTypeOK
    <2>3. /\ walk' \in WalkRecords' /\ walk'.on /\ walk'.pages = walk.pages
          /\ walk'.read \subseteq walk'.seen
      BY <1>3, <1>4, <2>1, <2>2 DEF WalkRecords
    <2>. QED  BY <1>1, <1>2, <1>3, <2>3, WalkBounds DEF WalkTypeOK, Walks
  <1>5. CASE ~walk.on
    <2>1. walk' = walk
      BY <1>5 DEF Put
    <2>2. walk' \in WalkRecords'
      BY <1>3, <2>1 DEF WalkRecords, WalkTypeOK
    <2>. QED  BY <1>1, <1>2, <1>3, <2>1, <2>2, WalkBounds DEF WalkTypeOK, Walks
  <1>. QED  BY <1>4, <1>5

LEMMA RemoveTypes ==
    ASSUME WalkTypeOK, NEW i \in Items, Remove(i)
    PROVE  WalkTypeOK'
  <1>1. /\ changed' = [changed EXCEPT ![i] = 0] /\ born' = [born EXCEPT ![i] = 0]
        /\ fresh' = fresh \ {i} /\ unread' = unread \ {i} /\ excused' = excused \ {i}
        /\ tied' = tied \ {i}
        /\ UNCHANGED <<source, now, found, mark, faults>>
    BY DEF Remove
  <1>2. born' \in [Items -> Nat] /\ changed' \in [Items -> Nat]
        /\ \A j \in Items : born'[j] <= changed'[j] /\ changed'[j] <= now'
    BY <1>1 DEF WalkTypeOK
  <1>3. Marks' = Marks /\ Present' = Present \ {i} /\ i \in Items
    BY <1>1 DEF Marks, Present, WalkTypeOK
  <1>4. CASE walk.on
    <2>1. walk' = [walk EXCEPT !.touched = @ \cup {i}, !.read = @ \ {i}, !.todo = @ \ {i}]
      BY <1>4 DEF Remove
    <2>2. /\ walk' \in WalkRecords' /\ walk'.on /\ walk'.pages = walk.pages
          /\ walk'.read \subseteq walk'.seen
      BY <1>3, <1>4, <2>1 DEF WalkRecords, WalkTypeOK
    <2>. QED  BY <1>1, <1>2, <1>3, <2>2 DEF WalkTypeOK, Walks
  <1>5. CASE ~walk.on
    <2>1. walk' = walk /\ walk = Idle
      BY <1>5 DEF Remove, WalkTypeOK
    <2>2. walk' \in WalkRecords'
      BY <1>3, <2>1 DEF WalkRecords, WalkTypeOK, Idle
    <2>. QED  BY <1>1, <1>2, <1>3, <2>1, <2>2 DEF WalkTypeOK, Walks
  <1>. QED  BY <1>4, <1>5

LEMMA StartTypes ==
    ASSUME WalkTypeOK, NEW full \in BOOLEAN, Start(full)
    PROVE  WalkTypeOK'
  <1>. DEFINE w == [Idle EXCEPT !.on = TRUE, !.full = full, !.base = BaseOf(full),
                                !.next = BaseOf(full)]
  <1>1. NoMark \in Marks /\ mark \in Marks
    BY DEF WalkTypeOK, NoMark, Marks
  <1>2. w \in WalkRecords /\ w.on /\ w.read = {}
    BY <1>1 DEF Idle, WalkRecords, BaseOf
  <1>3. walk' = Entered(w, 1) /\ SourceRests
        /\ UNCHANGED <<found, fresh, mark, faults, unread, excused, tied>>
    BY DEF Start, SourceRests
  <1>4. walk' \in WalkRecords /\ walk'.on /\ walk'.read = {} /\ walk'.pages = 0
    <2>. HIDE DEF w
    <2>. QED  BY <1>2, <1>3, EnteredTypes
  <1>5. Cap[source] \in Nat
    BY Bounds
  <1>. QED  BY <1>3, <1>4, <1>5, TypesAtRest DEF WalkTypeOK

LEMMA PresentAreItems == Present \subseteq Items
  BY DEF Present

LEMMA ReadTypes ==
    ASSUME WalkTypeOK, NEW i \in Items, ReadItem(i)
    PROVE  WalkTypeOK'
  <1>. DEFINE w == Turned(i)
  <1>1. i \in Present /\ w \in WalkRecords /\ Raised(i, w.next) \in Marks
        /\ w.on /\ w.read = walk.read /\ w.seen = walk.seen /\ w.pages = walk.pages + 1
    <2>1. walk.on
      BY DEF ReadItem, Turning, Walking
    <2>2. w.next \in Marks
      BY TurnedTypes DEF WalkRecords
    <2>. QED  BY <2>1, <2>2, TurnedTypes, RaisedIsMarks, AheadIsPresent DEF ReadItem, NextPage
  <1>2. walk' = w \/ walk' = [w EXCEPT !.next = Raised(i, @), !.seen = @ \cup {i},
                                       !.read = @ \cup {i}]
    BY DEF ReadItem
  <1>3. walk' \in WalkRecords /\ walk'.on /\ walk'.read \subseteq walk'.seen
        /\ walk'.pages = walk.pages + 1
    <2>1. w.read \subseteq w.seen
      BY <1>1 DEF WalkTypeOK
    <2>. DEFINE m == Raised(i, w.next)
    <2>2. walk' = w \/ walk' = [w EXCEPT !.next = m, !.seen = @ \cup {i}, !.read = @ \cup {i}]
      BY <1>2
    <2>3. m \in Marks
      BY <1>1
    <2>. HIDE DEF w, m
    <2>4. CASE walk' = w
      BY <1>1, <2>1, <2>4
    <2>5. CASE walk' = [w EXCEPT !.next = m, !.seen = @ \cup {i}, !.read = @ \cup {i}]
      <3>1. /\ walk' \in WalkRecords /\ walk'.on = w.on /\ walk'.pages = w.pages
            /\ walk'.seen = w.seen \cup {i} /\ walk'.read = w.read \cup {i}
        BY <1>1, <2>3, <2>5, PresentAreItems DEF WalkRecords
      <3>. QED  BY <1>1, <2>1, <3>1
    <2>. QED  BY <2>2, <2>4, <2>5
  <1>4. Walks.capped => walk'.pages <= Cap[source]
    BY <1>3, Bounds DEF ReadItem, Turning, WalkTypeOK, WalkRecords
  <1>5. SourceRests /\ UNCHANGED <<found, fresh, mark, faults, unread, excused, tied>>
    BY DEF ReadItem, SourceRests
  <1>. QED  BY <1>3, <1>4, <1>5, TypesAtRest DEF WalkTypeOK

LEMMA ReadFailsTypes ==
    ASSUME WalkTypeOK, NEW i \in Items, ReadFails(i)
    PROVE  WalkTypeOK'
  <1>. DEFINE w == Turned(i)
              m == IF Walks.reading = "early" THEN Raised(i, w.next) ELSE w.next
  <1>1. i \in Present /\ walk.on /\ faults < MaxFaults
    BY AheadIsPresent DEF ReadFails, NextPage, Turning, Walking
  <1>2. /\ w \in WalkRecords /\ w.on = walk.on /\ w.read = walk.read /\ w.seen = walk.seen
        /\ w.pages = walk.pages + 1 /\ w.next = walk.next
    BY TurnedTypes
  <1>3. m \in Marks
    <2>1. walk.next \in Marks
      BY DEF WalkTypeOK, WalkRecords
    <2>. QED  BY <1>2, <2>1, RaisedIsMarks
  <1>4. walk' = [w EXCEPT !.next = m]
    BY DEF ReadFails
  <1>5. /\ walk' \in WalkRecords /\ walk'.on /\ walk'.read = w.read /\ walk'.seen = w.seen
        /\ walk'.pages = w.pages
    <2>. HIDE DEF w, m
    <2>. QED  BY <1>1, <1>2, <1>3, <1>4 DEF WalkRecords
  <1>6. Walks.capped => walk'.pages <= Cap[source]
    BY <1>2, <1>5, Bounds DEF ReadFails, Turning, WalkTypeOK, WalkRecords
  <1>7. SourceRests /\ unread' = unread \cup {i} /\ faults' = faults + 1
        /\ UNCHANGED <<found, fresh, mark, excused, tied>>
    BY DEF ReadFails, SourceRests
  <1>8. faults' \in 0 .. MaxFaults
    BY <1>1, <1>7, WalkBounds DEF WalkTypeOK
  <1>9. walk'.read \subseteq walk'.seen
    BY <1>2, <1>5 DEF WalkTypeOK
  <1>. QED  BY <1>1, <1>5, <1>6, <1>7, <1>8, <1>9, TypesAtRest DEF WalkTypeOK

\* The walk goes on, a place further or not, with no new item.
MovesOn ==
    /\ SourceRests /\ walk.on /\ walk' \in WalkRecords /\ walk'.on
    /\ walk'.read = walk.read /\ walk'.seen = walk.seen
    /\ Walks.capped => walk'.pages <= Cap[source]
    /\ faults' \in 0 .. MaxFaults
    /\ UNCHANGED <<found, fresh, mark, unread, excused, tied>>

LEMMA MovesOnTypes == WalkTypeOK /\ MovesOn => WalkTypeOK'
  <1>. SUFFICES ASSUME WalkTypeOK, MovesOn PROVE WalkTypeOK'
    OBVIOUS
  <1>1. walk'.read \subseteq walk'.seen
    BY DEF MovesOn, WalkTypeOK
  <1>. QED  BY <1>1, TypesAtRest DEF MovesOn, WalkTypeOK

LEMMA WalkIsRecord == WalkTypeOK => walk \in WalkRecords /\ walk.at + 1 \in Nat
  BY DEF WalkTypeOK, WalkRecords

LEMMA EndPlaceFacts ==
    ASSUME WalkTypeOK, EndPlace
    PROVE  /\ MovesOn /\ walk'.at = walk.at + 1 /\ walk'.pos = 0
           /\ walk'.base = walk.base /\ walk'.next = walk.next /\ walk'.full = walk.full
           /\ walk'.touched = walk.touched /\ walk'.cut = (walk.cut \/ NextPage # {})
           /\ Walks.paging = "snapshot" => walk'.todo = Listed(walk.at + 1, walk.base)
  <1>. DEFINE w == [walk EXCEPT !.cut = @ \/ NextPage # {}]
  <1>1. /\ w \in WalkRecords /\ walk.at + 1 \in Nat
        /\ w.on = walk.on /\ w.full = walk.full /\ w.base = walk.base /\ w.next = walk.next
        /\ w.seen = walk.seen /\ w.read = walk.read /\ w.touched = walk.touched
        /\ w.cut = (walk.cut \/ NextPage # {})
    BY WalkIsRecord DEF WalkRecords
  <1>2. walk' = Entered(w, walk.at + 1) /\ walk.on /\ SourceRests
        /\ UNCHANGED <<found, fresh, mark, faults, unread, excused, tied>>
    BY DEF EndPlace, Walking, SourceRests
  <1>. HIDE DEF w
  <1>3. /\ walk' \in WalkRecords
        /\ walk'.on = w.on /\ walk'.full = w.full /\ walk'.base = w.base
        /\ walk'.next = w.next /\ walk'.at = walk.at + 1 /\ walk'.pages = 0 /\ walk'.pos = 0
        /\ walk'.seen = w.seen /\ walk'.read = w.read /\ walk'.cut = w.cut
        /\ walk'.touched = w.touched
    <2>1. w \in WalkRecords /\ walk.at + 1 \in Nat
      BY <1>1
    <2>. QED  BY <1>2, <2>1, EnteredTypes
  <1>4. walk'.todo = IF Walks.paging = "snapshot" THEN Listed(walk.at + 1, w.base) ELSE w.todo
    BY <1>1, <1>2, EnteredTypes
  <1>5. Walks.capped => walk'.pages <= Cap[source]
    BY <1>3, Bounds
  <1>6. faults' \in 0 .. MaxFaults
    BY <1>2 DEF WalkTypeOK
  <1>7. MovesOn
    BY <1>1, <1>2, <1>3, <1>5, <1>6 DEF MovesOn
  <1>. QED  BY <1>1, <1>3, <1>4, <1>7

LEMMA PageFailsFacts ==
    ASSUME WalkTypeOK, PageFails
    PROVE  /\ MovesOn /\ walk'.cut /\ walk'.base = walk.base /\ walk'.full = walk.full
           /\ walk'.touched = walk.touched
           /\ Walks.error # "forgets" => walk'.next = walk.next
           /\ Walks.error \notin {"forgets", "page"} => walk'.pos = 0 /\ walk'.at = walk.at + 1
  <1>. DEFINE w == [walk EXCEPT !.cut = TRUE]
  <1>1. /\ w \in WalkRecords /\ walk.at + 1 \in Nat /\ w.entry = walk.entry
        /\ w.on = walk.on /\ w.full = walk.full /\ w.base = walk.base /\ w.next = walk.next
        /\ w.seen = walk.seen /\ w.read = walk.read /\ w.touched = walk.touched /\ w.cut
    BY WalkIsRecord DEF WalkRecords
  <1>2. SourceRests /\ walk.on /\ Turning /\ faults' = faults + 1 /\ faults' \in 0 .. MaxFaults
        /\ UNCHANGED <<found, fresh, mark, unread, excused, tied>>
    BY WalkBounds DEF PageFails, Turning, Walking, SourceRests, WalkTypeOK
  <1>3. CASE Walks.error = "page" /\ NextPage # {}
    <2>1. PICK i \in NextPage : walk' = [Turned(i) EXCEPT !.cut = TRUE]
      BY <1>3 DEF PageFails
    <2>2. i \in Items
      BY AheadIsPresent, PresentAreItems DEF NextPage
    <2>. DEFINE t == Turned(i)
    <2>3. /\ t \in WalkRecords
          /\ t.on = walk.on /\ t.full = walk.full /\ t.base = walk.base /\ t.next = walk.next
          /\ t.pages = walk.pages + 1 /\ t.seen = walk.seen /\ t.read = walk.read
          /\ t.touched = walk.touched
      BY <2>2, TurnedTypes
    <2>4. /\ walk' \in WalkRecords
          /\ walk'.on = t.on /\ walk'.full = t.full /\ walk'.base = t.base
          /\ walk'.next = t.next /\ walk'.pages = t.pages /\ walk'.seen = t.seen
          /\ walk'.read = t.read /\ walk'.touched = t.touched /\ walk'.cut
      <3>1. walk' = [t EXCEPT !.cut = TRUE]
        BY <2>1
      <3>. HIDE DEF t
      <3>. QED  BY <2>3, <3>1 DEF WalkRecords
    <2>5. Walks.capped => walk'.pages <= Cap[source]
      BY <1>2, <2>3, <2>4, Bounds DEF Turning, WalkTypeOK, WalkRecords
    <2>. QED  BY <1>2, <1>3, <2>3, <2>4, <2>5 DEF MovesOn
  <1>4. CASE ~(Walks.error = "page" /\ NextPage # {}) /\ Walks.error = "forgets"
    <2>. DEFINE v == [w EXCEPT !.next = walk.entry]
    <2>1. walk' = Entered(v, walk.at + 1)
      BY <1>4 DEF PageFails
    <2>2. /\ v \in WalkRecords
          /\ v.on = w.on /\ v.full = w.full /\ v.base = w.base
          /\ v.seen = w.seen /\ v.read = w.read /\ v.touched = w.touched /\ v.cut = w.cut
      BY <1>1 DEF WalkRecords
    <2>. HIDE DEF v, w
    <2>3. /\ walk' \in WalkRecords
          /\ walk'.on = v.on /\ walk'.full = v.full /\ walk'.base = v.base
          /\ walk'.pages = 0 /\ walk'.seen = v.seen
          /\ walk'.read = v.read /\ walk'.touched = v.touched /\ walk'.cut = v.cut
      BY <1>1, <2>1, <2>2, EnteredTypes
    <2>. QED  BY <1>1, <1>2, <1>4, <2>2, <2>3, Bounds DEF MovesOn
  <1>5. CASE ~(Walks.error = "page" /\ NextPage # {}) /\ Walks.error # "forgets"
    <2>1. walk' = Entered(w, walk.at + 1)
      BY <1>5 DEF PageFails
    <2>. HIDE DEF w
    <2>2. /\ walk' \in WalkRecords
          /\ walk'.on = w.on /\ walk'.full = w.full /\ walk'.base = w.base
          /\ walk'.next = w.next /\ walk'.at = walk.at + 1 /\ walk'.pos = 0
          /\ walk'.pages = 0 /\ walk'.seen = w.seen
          /\ walk'.read = w.read /\ walk'.touched = w.touched /\ walk'.cut = w.cut
      BY <1>1, <2>1, EnteredTypes
    <2>. QED  BY <1>1, <1>2, <2>2, Bounds DEF MovesOn
  <1>. QED  BY <1>3, <1>4, <1>5

LEMMA PlacesFailFacts ==
    ASSUME WalkTypeOK, PlacesFail
    PROVE  /\ MovesOn /\ walk'.cut /\ walk'.base = walk.base /\ walk'.full = walk.full
           /\ walk'.next = walk.next /\ walk'.touched = walk.touched
           /\ walk'.pos = walk.pos /\ walk'.at = Places + 1
  <1>1. walk' = [walk EXCEPT !.at = Places + 1, !.cut = TRUE] /\ walk.on /\ SourceRests
        /\ faults' = faults + 1 /\ faults' \in 0 .. MaxFaults
        /\ UNCHANGED <<found, fresh, mark, unread, excused, tied>>
    BY WalkBounds DEF PlacesFail, Walking, SourceRests, WalkTypeOK
  <1>2. Places + 1 \in Nat
    BY Bounds
  <1>3. walk' \in WalkRecords /\ walk'.pages = walk.pages
    BY <1>1, <1>2 DEF WalkTypeOK, WalkRecords
  <1>. QED  BY <1>1, <1>3 DEF MovesOn, WalkTypeOK, WalkRecords

LEMMA IdleIsRecord == WalkTypeOK => Idle \in WalkRecords /\ Idle.read = {} /\ Idle.pages = 0
  BY DEF WalkTypeOK, Idle, NoMark, Marks, WalkRecords

LEMMA StoredTypes ==
    ASSUME WalkTypeOK, NEW S
    PROVE  Stored(S) \in [Items -> {"none", "open", "resolved"}]
  BY DEF WalkTypeOK, Stored

LEMMA FinishTypes == WalkTypeOK /\ Finish => WalkTypeOK'
  <1>. SUFFICES ASSUME WalkTypeOK, Finish PROVE WalkTypeOK'
    OBVIOUS
  <1>1. SourceRests /\ faults' = faults /\ walk' = Idle /\ mark' = walk.next
    BY DEF Finish, SourceRests
  <1>2. found' \in [Items -> {"none", "open", "resolved"}]
    BY StoredTypes DEF Finish
  <1>3. walk.next \in Marks /\ walk.read \subseteq Present
    BY WalkIsRecord DEF WalkRecords
  <1>4. /\ fresh' = fresh \cup walk.read /\ unread' \subseteq unread
        /\ tied' \subseteq tied \cup Present /\ excused' \subseteq excused \cup Present
    BY DEF Finish
  <1>5. Cap[source] \in Nat
    BY Bounds
  <1>. QED
    <2>. HIDE DEF Finish
    <2>. QED  BY <1>1, <1>2, <1>3, <1>4, <1>5, IdleIsRecord, TypesAtRest DEF WalkTypeOK

LEMMA FailTypes == WalkTypeOK /\ Fail => WalkTypeOK'
  <1>. SUFFICES ASSUME WalkTypeOK, Fail PROVE WalkTypeOK'
    OBVIOUS
  <1>1. SourceRests /\ faults' = faults + 1 /\ faults < MaxFaults /\ walk' = Idle
        /\ UNCHANGED <<mark, excused, tied>>
    BY DEF Fail, SourceRests
  <1>2. PICK kept \in SUBSET walk.seen :
          /\ found' = Stored(kept) /\ fresh' = fresh \cup (kept \cap walk.read)
          /\ unread' = unread \ (kept \cap walk.read)
    BY DEF Fail
  <1>3. found' \in [Items -> {"none", "open", "resolved"}]
    BY <1>2, StoredTypes
  <1>4. walk.read \subseteq Present
    BY WalkIsRecord DEF WalkRecords
  <1>5. Cap[source] \in Nat /\ faults' \in 0 .. MaxFaults
    BY <1>1, Bounds DEF WalkTypeOK
  <1>. QED  BY <1>1, <1>2, <1>3, <1>4, <1>5, IdleIsRecord, TypesAtRest DEF WalkTypeOK

LEMMA SourceNextTypes == WalkTypeOK /\ [Next]_vars => WalkTypeOK'
  <1>. SUFFICES ASSUME WalkTypeOK, [Next]_vars PROVE WalkTypeOK'
    OBVIOUS
  <1>1. ASSUME NEW i \in Items, Put(i) \/ Remove(i) \/ ReadItem(i) \/ ReadFails(i)
        PROVE  WalkTypeOK'
    BY <1>1, PutTypes, RemoveTypes, ReadTypes, ReadFailsTypes
  <1>2. CASE \E full \in BOOLEAN : Start(full)
    BY <1>2, StartTypes
  <1>3. CASE EndPlace \/ PageFails \/ PlacesFail
    BY <1>3, EndPlaceFacts, PageFailsFacts, PlacesFailFacts, MovesOnTypes
  <1>4. CASE Finish \/ Fail
    BY <1>4, FinishTypes, FailTypes
  <1>5. CASE UNCHANGED vars
    <2>1. SourceRests /\ UNCHANGED <<found, fresh, mark, walk, faults, unread, excused, tied>>
      BY <1>5 DEF vars, SourceRests
    <2>. QED  BY <2>1, TypesAtRest DEF WalkTypeOK
  <1>. QED  BY <1>1, <1>2, <1>3, <1>4, <1>5 DEF Next, Step

-----------------------------------------------------------------------------
(* What a walk has covered *)

\* The walk passes over this item.
Skips(i) == Filtered(i, walk.base)

LEMMA SameItem ==
    ASSUME NEW i \in Items, source' = source, changed'[i] = changed[i], born'[i] = born[i]
    PROVE  /\ Stamp(i)' = Stamp(i) /\ Rank(i)' = Rank(i) /\ Place(i)' = Place(i)
           /\ MarkKey(i)' = MarkKey(i)
           /\ (i \in Present)' <=> i \in Present
           /\ (i \in Offered)' <=> i \in Offered
           /\ walk'.base = walk.base => (Skips(i)' <=> Skips(i))
  <1>1. Walks' = Walks /\ Places' = Places
    BY DEF Walks, Places
  <1>2. Stamp(i)' = Stamp(i) /\ Place(i)' = Place(i)
    BY <1>1 DEF Stamp, Place
  <1>3. Rank(i)' = Rank(i) /\ MarkKey(i)' = MarkKey(i)
    BY <1>1, <1>2 DEF Rank, MarkKey
  <1>4. (i \in Present)' <=> i \in Present
    BY DEF Present
  <1>5. (i \in Offered)' <=> i \in Offered
    BY <1>1, <1>4 DEF Offered
  <1>6. walk'.base = walk.base => (Skips(i)' <=> Skips(i))
    BY <1>1, <1>2, <1>3 DEF Skips, Filtered, Kept
  <1>. QED  BY <1>2, <1>3, <1>4, <1>5, <1>6

\* The items of a set are as before.
LEMMA SameList ==
    ASSUME SourceRests, walk'.at = walk.at, walk'.base = walk.base
    PROVE  Listed(walk.at, walk.base)' = Listed(walk.at, walk.base)
  <1>1. Walks' = Walks
    BY DEF Walks, SourceRests
  <1>2. Offered' = Offered /\ Offered \subseteq Items
    BY <1>1 DEF Offered, Present, SourceRests
  <1>3. \A i \in Items : Place(i)' = Place(i) /\ (Skips(i)' <=> Skips(i))
    BY SameItem DEF SourceRests
  <1>. QED  BY <1>1, <1>2, <1>3 DEF Listed, Skips

LEMMA ItemsAreFinite ==
    ASSUME WalkTypeOK, NEW S \in SUBSET Items
    PROVE  IsFiniteSet(S) /\ Cardinality(S) \in Nat
  <1>1. NumItems \in Int /\ 1 \in Int
    BY WalkBounds
  <1>2. IsFiniteSet(Items)
    BY <1>1, FS_Interval DEF Items
  <1>. QED  BY <1>2, FS_Subset, FS_CardinalityType

\* Turning a page leaves what is ahead ahead, but for the item read.
LEMMA TurnedAhead ==
    ASSUME WalkTypeOK, SourceRests, NEW i \in NextPage, NEW j \in Ahead, j # i,
           walk'.at = walk.at, walk'.base = walk.base, walk'.todo = walk.todo \ {i},
           walk'.pos = IF Walks.paging = "token" THEN Rank(i) ELSE walk.pos + 1
    PROVE  j \in Ahead'
  <1>. DEFINE list == Listed(walk.at, walk.base)
  <1>1. /\ list' = list /\ list \subseteq Items /\ Walks' = Walks
        /\ \A k \in Items : Rank(k)' = Rank(k) /\ Rank(k) \in Nat
    <2>1. list' = list
      BY SameList
    <2>2. list \subseteq Items
      BY DEF Listed, Offered, Present
    <2>. QED  BY <2>1, <2>2, SameItem, RanksAreNumbers DEF SourceRests, Walks
  <1>2. i \in Items /\ j \in Items /\ i \in Ahead /\ Rank(i) < Rank(j)
    <2>1. i \in Items /\ j \in Items /\ i \in Ahead /\ Rank(i) <= Rank(j)
      BY AheadIsPresent, PresentAreItems DEF NextPage
    <2>. QED  BY <1>1, <2>1, RanksDiffer
  <1>3. CASE Walks.paging = "token"
    <2>1. j \in list
      BY <1>3 DEF Ahead
    <2>2. j \in list' /\ Rank(j)' > walk'.pos
      BY <1>1, <1>2, <1>3, <2>1
    <2>. HIDE DEF list
    <2>3. Ahead' = {k \in list' : Rank(k)' > walk'.pos}
      BY <1>1, <1>3 DEF Ahead, list
    <2>. QED  BY <2>2, <2>3
  <1>4. CASE Walks.paging = "offset"
    <2>. DEFINE Before(k) == {l \in list : Rank(l) < Rank(k)}
    <2>1. i \in list /\ j \in list /\ Cardinality(Before(i)) >= walk.pos
      BY <1>2, <1>4 DEF Ahead
    <2>2. Before(i) \cup {i} \subseteq Before(j) /\ i \notin Before(i)
      BY <1>1, <1>2, <2>1
    <2>3. IsFiniteSet(Before(i)) /\ IsFiniteSet(Before(j)) /\ IsFiniteSet(Before(i) \cup {i})
          /\ Cardinality(Before(i)) \in Nat /\ Cardinality(Before(j)) \in Nat
      BY <1>1, <1>2, ItemsAreFinite
    <2>4. Cardinality(Before(j)) >= Cardinality(Before(i)) + 1
      <3>. HIDE DEF Before
      <3>1. Cardinality(Before(i) \cup {i}) = Cardinality(Before(i)) + 1
        BY <2>2, <2>3, FS_AddElement
      <3>2. Cardinality(Before(i) \cup {i}) <= Cardinality(Before(j))
        BY <2>2, <2>3, FS_Subset
      <3>. QED  BY <2>3, <3>1, <3>2
    <2>5. Cardinality(Before(j)) >= walk'.pos
      <3>1. walk.pos \in Nat /\ walk'.pos = walk.pos + 1
        BY <1>4, WalkIsRecord DEF WalkRecords
      <3>. HIDE DEF Before
      <3>. QED  BY <2>1, <2>3, <2>4, <3>1
    <2>6. {l \in list' : Rank(l)' < Rank(j)'} = Before(j)
      BY <1>1, <1>2
    <2>7. j \in list' /\ Cardinality({l \in list' : Rank(l)' < Rank(j)'}) >= walk'.pos
      <3>. HIDE DEF Before, list
      <3>. QED  BY <1>1, <2>1, <2>5, <2>6
    <2>. QED
      <3>1. Ahead' = {k \in list' : Cardinality({l \in list' : Rank(l)' < Rank(k)'}) >= walk'.pos}
        BY <1>1, <1>4 DEF Ahead
      <3>. HIDE DEF list
      <3>. QED  BY <2>7, <3>1
  <1>5. CASE Walks.paging \notin {"token", "offset"}
    <2>1. j \in walk.todo /\ j \in walk'.todo
      BY <1>5 DEF Ahead
    <2>. QED  BY <1>1, <1>5, <2>1 DEF Ahead
  <1>. QED  BY <1>3, <1>4, <1>5

\* In a new place everything the walk reads is ahead.
LEMMA EnteredAhead ==
    ASSUME WalkTypeOK, WalkTypeOK', SourceRests, walk'.pos = 0,
           Walks.paging = "snapshot" => walk'.todo = Listed(walk'.at, walk'.base),
           NEW i \in Offered, ~Skips(i)', Place(i) = walk'.at
    PROVE  i \in Ahead'
  <1>1. i \in Items /\ Walks' = Walks /\ Known(Walks)
    BY Bounds DEF Offered, Present, SourceRests, Walks
  <1>2. /\ i \in Offered' /\ Place(i)' = walk'.at /\ ~Skips(i)' /\ Rank(i)' \in Nat \ {0}
    BY <1>1, SameItem, RanksAreNumbers DEF SourceRests
  <1>. DEFINE list == Listed(walk.at, walk.base)
  <1>3. i \in list'
    BY <1>2 DEF Listed, Skips
  <1>4. CASE Walks.paging = "token"
    <2>1. Ahead' = {k \in list' : Rank(k)' > walk'.pos}
      BY <1>1, <1>4 DEF Ahead
    <2>2. Rank(i)' > walk'.pos
      BY <1>2
    <2>. HIDE DEF list
    <2>. QED  BY <1>3, <2>1, <2>2
  <1>5. CASE Walks.paging = "offset"
    <2>1. {l \in list' : Rank(l)' < Rank(i)'} \subseteq Items
      BY DEF Listed, Offered, Present
    <2>2. Cardinality({l \in list' : Rank(l)' < Rank(i)'}) \in Nat
      <3>. HIDE DEF list
      <3>. QED  BY <2>1, ItemsAreFinite
    <2>3. Ahead' = {k \in list' : Cardinality({l \in list' : Rank(l)' < Rank(k)'}) >= walk'.pos}
      BY <1>1, <1>5 DEF Ahead
    <2>4. Cardinality({l \in list' : Rank(l)' < Rank(i)'}) >= walk'.pos
      <3>. HIDE DEF list
      <3>. QED  BY <2>2
    <2>. HIDE DEF list
    <2>. QED  BY <1>3, <2>3, <2>4
  <1>6. CASE Walks.paging = "snapshot"
    <2>1. ~Filtered(i, walk'.base)
      <3>1. Stamp(i)' = Stamp(i) /\ MarkKey(i)' = MarkKey(i)
        BY <1>1, SameItem DEF SourceRests
      <3>. QED  BY <1>1, <1>2, <3>1 DEF Skips, Filtered, Kept
    <2>2. i \in walk'.todo
      BY <1>6, <2>1 DEF Listed
    <2>. QED  BY <1>1, <1>6, <2>2 DEF Ahead
  <1>. QED  BY <1>1, <1>4, <1>5, <1>6 DEF Known

\* A sweep starts from nothing, another scan from the saved cursors.
BaseIsOwn == walk.on => walk.base = BaseOf(walk.full)

Steady == walk.on /\ ~walk.cut /\ (walk.touched = {} \/ ~Shifts)

\* The walk is past this item.
Behind(i) == Place(i) < walk.at \/ (Place(i) = walk.at /\ i \notin Ahead)

Accounted(i) == i \in walk.read \cup unread

\* A walk that is neither cut nor shifted has read all it is past, or knows it could not.
WalkCovers ==
    Steady => \A i \in Offered \ walk.touched : ~Skips(i) /\ Behind(i) => Accounted(i)

\* A page with an item has been turned, and the item read, or not.
TurnStep(i) ==
    /\ SourceRests /\ i \in NextPage
    /\ walk'.on = walk.on /\ walk'.full = walk.full /\ walk'.base = walk.base
    /\ walk'.at = walk.at /\ walk'.todo = walk.todo \ {i}
    /\ walk'.pos = IF Walks.paging = "token" THEN Rank(i) ELSE walk.pos + 1
    /\ walk'.cut = walk.cut /\ walk'.touched = walk.touched
    /\ ~Skips(i) => Accounted(i)'
    /\ walk.read \subseteq walk'.read /\ unread \subseteq unread'
    /\ Skips(i) => walk'.next = walk.next
    /\ walk'.next = walk.next \/ walk'.next = Raised(i, walk.next)
    /\ UNCHANGED <<found, fresh, mark, excused, tied>>

LEMMA ReadItemTurns ==
    ASSUME WalkTypeOK, NEW i \in Items, ReadItem(i) \/ ReadFails(i)
    PROVE  TurnStep(i)
  <1>. DEFINE w == Turned(i)
  <1>1. /\ w \in WalkRecords
        /\ w.on = walk.on /\ w.full = walk.full /\ w.base = walk.base /\ w.next = walk.next
        /\ w.at = walk.at
        /\ w.pos = IF Walks.paging = "token" THEN Rank(i) ELSE walk.pos + 1
        /\ w.todo = walk.todo \ {i} /\ w.read = walk.read
        /\ w.cut = walk.cut /\ w.touched = walk.touched
    BY TurnedTypes
  <1>2. CASE ReadItem(i)
    <2>1. /\ SourceRests /\ i \in NextPage
          /\ UNCHANGED <<found, fresh, mark, faults, unread, excused, tied>>
      BY <1>2 DEF ReadItem, SourceRests
    <2>2. CASE Skips(i)
      <3>1. walk' = w
        BY <1>2, <2>2 DEF ReadItem, Skips
      <3>. HIDE DEF w
      <3>. QED  BY <1>1, <2>1, <2>2, <3>1 DEF TurnStep
    <2>3. CASE ~Skips(i)
      <3>. DEFINE m == Raised(i, walk.next)
      <3>1. walk' = [w EXCEPT !.next = m, !.seen = @ \cup {i}, !.read = @ \cup {i}]
        <4>1. walk' = [w EXCEPT !.next = Raised(i, @), !.seen = @ \cup {i}, !.read = @ \cup {i}]
          BY <1>2, <2>3 DEF ReadItem, Skips
        <4>2. w.next = walk.next
          BY <1>1
        <4>. HIDE DEF w
        <4>. QED  BY <4>1, <4>2
      <3>2. /\ walk'.on = w.on /\ walk'.full = w.full /\ walk'.base = w.base
            /\ walk'.next = m /\ walk'.at = w.at /\ walk'.pos = w.pos /\ walk'.todo = w.todo
            /\ walk'.read = w.read \cup {i} /\ walk'.cut = w.cut /\ walk'.touched = w.touched
        <4>. HIDE DEF w, m
        <4>. QED  BY <1>1, <3>1 DEF WalkRecords
      <3>. HIDE DEF w
      <3>. QED  BY <1>1, <2>1, <2>3, <3>2 DEF TurnStep, Accounted
    <2>. QED  BY <2>2, <2>3
  <1>3. CASE ReadFails(i)
    <2>1. /\ SourceRests /\ i \in NextPage /\ ~Skips(i) /\ unread' = unread \cup {i}
          /\ UNCHANGED <<found, fresh, mark, excused, tied>>
      BY <1>3 DEF ReadFails, SourceRests, Skips
    <2>. DEFINE m == IF Walks.reading = "early" THEN Raised(i, walk.next) ELSE walk.next
    <2>2. walk' = [w EXCEPT !.next = m]
      <3>1. walk' = [w EXCEPT !.next = IF Walks.reading = "early" THEN Raised(i, @) ELSE @]
        BY <1>3 DEF ReadFails
      <3>2. w.next = walk.next
        BY <1>1
      <3>. HIDE DEF w
      <3>. QED  BY <3>1, <3>2
    <2>3. /\ walk'.on = w.on /\ walk'.full = w.full /\ walk'.base = w.base
          /\ walk'.next = m /\ walk'.at = w.at /\ walk'.pos = w.pos /\ walk'.todo = w.todo
          /\ walk'.read = w.read /\ walk'.cut = w.cut /\ walk'.touched = w.touched
      <3>. HIDE DEF w, m
      <3>. QED  BY <1>1, <2>2 DEF WalkRecords
    <2>4. m = walk.next \/ m = Raised(i, walk.next)
      OBVIOUS
    <2>. HIDE DEF w, m
    <2>. QED  BY <1>1, <2>1, <2>3, <2>4 DEF TurnStep, Accounted
  <1>. QED  BY <1>2, <1>3

LEMMA UntouchedAhead ==
    ASSUME NEW j \in Items, source' = source, changed'[j] = changed[j], born'[j] = born[j],
           walk'.at = walk.at, walk'.base = walk.base, walk'.pos = walk.pos,
           j \in walk'.todo <=> j \in walk.todo, Walks.paging # "offset"
    PROVE  j \in Ahead' <=> j \in Ahead
  <1>1. Walks' = Walks
    BY DEF Walks
  <1>2. j \in Listed(walk.at, walk.base)' <=> j \in Listed(walk.at, walk.base)
    BY <1>1, SameItem DEF Listed, Skips
  <1>3. Rank(j)' = Rank(j)
    BY SameItem
  <1>. QED  BY <1>1, <1>2, <1>3 DEF Ahead

LEMMA SameAhead == SourceRests /\ walk' = walk => Ahead' = Ahead
  <1>. SUFFICES ASSUME SourceRests, walk' = walk PROVE Ahead' = Ahead
    OBVIOUS
  <1>. DEFINE list == Listed(walk.at, walk.base)
  <1>1. list' = list /\ Walks' = Walks /\ list \subseteq Items
    BY SameList DEF SourceRests, Walks, Listed, Offered, Present
  <1>2. \A k \in Items : Rank(k)' = Rank(k)
    BY SameItem DEF SourceRests
  <1>3. \A k \in list : {l \in list' : Rank(l)' < Rank(k)'} = {l \in list : Rank(l) < Rank(k)}
    <2>. HIDE DEF list
    <2>. QED  BY <1>1, <1>2
  <1>4. CASE Walks.paging = "token"
    <2>1. Ahead = {k \in list : Rank(k) > walk.pos} /\ Ahead' = {k \in list' : Rank(k)' > walk'.pos}
      BY <1>1, <1>4 DEF Ahead
    <2>. HIDE DEF list
    <2>. QED  BY <1>1, <1>2, <2>1
  <1>5. CASE Walks.paging = "offset"
    <2>1. /\ Ahead = {k \in list : Cardinality({l \in list : Rank(l) < Rank(k)}) >= walk.pos}
          /\ Ahead' = {k \in list' : Cardinality({l \in list' : Rank(l)' < Rank(k)'}) >= walk'.pos}
      BY <1>1, <1>5 DEF Ahead
    <2>. HIDE DEF list
    <2>. QED  BY <1>1, <1>3, <2>1
  <1>6. CASE Walks.paging \notin {"token", "offset"}
    BY <1>1, <1>6 DEF Ahead
  <1>. QED  BY <1>4, <1>5, <1>6

LEMMA TouchedFacts ==
    ASSUME WalkTypeOK, NEW i \in Items, Put(i) \/ Remove(i), walk.on
    PROVE  /\ source' = source /\ walk'.on /\ walk'.full = walk.full /\ walk'.base = walk.base
           /\ walk'.next = walk.next /\ walk'.at = walk.at /\ walk'.pos = walk.pos
           /\ walk'.cut = walk.cut /\ walk'.touched = walk.touched \cup {i}
           /\ walk'.read = walk.read \ {i} /\ unread' = unread \ {i} /\ mark' = mark
           /\ \A j \in Items \ {i} : /\ changed'[j] = changed[j] /\ born'[j] = born[j]
                                     /\ j \in walk'.todo <=> j \in walk.todo
  <1>1. \/ walk' = [walk EXCEPT !.touched = @ \cup {i}, !.read = @ \ {i}]
        \/ walk' = [walk EXCEPT !.touched = @ \cup {i}, !.read = @ \ {i}, !.todo = @ \ {i}]
    BY DEF Put, Remove
  <1>2. \A j \in Items \ {i} : changed'[j] = changed[j] /\ born'[j] = born[j]
    BY DEF Put, Remove, WalkTypeOK
  <1>3. /\ walk'.on /\ walk'.full = walk.full /\ walk'.base = walk.base
        /\ walk'.next = walk.next /\ walk'.at = walk.at /\ walk'.pos = walk.pos
        /\ walk'.cut = walk.cut /\ walk'.touched = walk.touched \cup {i}
        /\ walk'.read = walk.read \ {i}
        /\ \A j \in Items \ {i} : j \in walk'.todo <=> j \in walk.todo
    BY <1>1, WalkIsRecord DEF WalkRecords
  <1>4. source' = source /\ unread' = unread \ {i} /\ mark' = mark
    BY DEF Put, Remove
  <1>. QED  BY <1>2, <1>3, <1>4

CoversStep == WalkTypeOK /\ WalkTypeOK' /\ WalkCovers

LEMMA TurnCovers ==
    ASSUME CoversStep, NEW i \in Items, TurnStep(i)
    PROVE  WalkCovers'
  <1>. SUFFICES ASSUME Steady', NEW j \in (Offered \ walk.touched)', ~Skips(j)', Behind(j)'
                PROVE  Accounted(j)'
    BY DEF WalkCovers
  <1>1. j \in Items /\ Walks' = Walks
    BY DEF Offered, Present, TurnStep, SourceRests, Walks
  <1>2. Steady /\ j \in Offered \ walk.touched /\ ~Skips(j) /\ Place(j)' = Place(j)
    <2>1. Steady /\ j \notin walk.touched
      BY <1>1 DEF Steady, TurnStep, Shifts
    <2>. QED  BY <1>1, <2>1, SameItem DEF TurnStep, SourceRests
  <1>3. CASE j = i
    BY <1>2, <1>3 DEF TurnStep
  <1>4. CASE j # i
    <2>1. Behind(j)
      <3>1. j \in Ahead => j \in Ahead'
        BY <1>4, TurnedAhead DEF TurnStep, CoversStep
      <3>. QED  BY <1>2, <3>1 DEF Behind, TurnStep
    <2>2. Accounted(j)
      BY <1>2, <2>1 DEF WalkCovers, CoversStep
    <2>. QED  BY <2>2 DEF Accounted, TurnStep
  <1>. QED  BY <1>3, <1>4

LEMMA EndPlaceCovers ==
    ASSUME CoversStep, EndPlace
    PROVE  WalkCovers'
  <1>. SUFFICES ASSUME Steady', NEW j \in (Offered \ walk.touched)', ~Skips(j)', Behind(j)'
                PROVE  Accounted(j)'
    BY DEF WalkCovers
  <1>0. /\ MovesOn /\ walk'.at = walk.at + 1 /\ walk'.pos = 0
        /\ walk'.base = walk.base /\ walk'.touched = walk.touched
        /\ walk'.cut = (walk.cut \/ NextPage # {})
        /\ Walks.paging = "snapshot" => walk'.todo = Listed(walk.at + 1, walk.base)
    BY EndPlaceFacts DEF CoversStep
  <1>1. j \in Items /\ Walks' = Walks /\ SourceRests
    BY <1>0 DEF Offered, Present, MovesOn, SourceRests, Walks
  <1>2. Steady /\ NextPage = {}
    BY <1>0, <1>1 DEF Steady, MovesOn, Shifts
  <1>3. j \in Offered \ walk.touched /\ ~Skips(j) /\ Place(j)' = Place(j)
    BY <1>0, <1>1, SameItem DEF SourceRests
  <1>4. Ahead = {}
    BY <1>2, PagesGoOn DEF CoversStep
  <1>5. Place(j) # walk'.at
    <2>. SUFFICES ASSUME Place(j) = walk'.at PROVE FALSE
      OBVIOUS
    <2>1. Walks.paging = "snapshot" => walk'.todo = Listed(walk'.at, walk'.base)
      BY <1>0
    <2>2. j \in Ahead'
      BY <1>0, <1>1, <1>3, <2>1, EnteredAhead DEF CoversStep
    <2>3. WalkTypeOK /\ WalkTypeOK' /\ Place(j)' = walk'.at
      BY <1>3 DEF CoversStep
    <2>4. Places \in Nat /\ Place(j) \in Nat
      BY <1>1, <2>3, PlacesAndKeys, Bounds
    <2>. QED  BY <1>3, <2>2, <2>3, <2>4 DEF Behind
  <1>6. Place(j) \in Nat /\ walk.at \in Nat
    BY <1>1, PlacesAndKeys, WalkIsRecord, Bounds DEF CoversStep, WalkRecords
  <1>7. Behind(j)
    BY <1>0, <1>3, <1>4, <1>5, <1>6 DEF Behind
  <1>. QED  BY <1>0, <1>2, <1>3, <1>7 DEF WalkCovers, CoversStep, Accounted, MovesOn

LEMMA TouchCovers ==
    ASSUME CoversStep, NEW i \in Items, Put(i) \/ Remove(i)
    PROVE  WalkCovers'
  <1>. SUFFICES ASSUME Steady', NEW j \in (Offered \ walk.touched)', ~Skips(j)', Behind(j)'
                PROVE  Accounted(j)'
    BY DEF WalkCovers
  <1>1. walk.on
    BY DEF Put, Remove, Steady
  <1>2. j \in Items /\ j # i /\ Walks' = Walks /\ Walks.paging # "offset"
    BY <1>1, TouchedFacts DEF Offered, Present, CoversStep, Walks, Steady, Shifts
  <1>t. WalkTypeOK /\ WalkCovers
    BY DEF CoversStep
  <1>f. /\ source' = source /\ changed'[j] = changed[j] /\ born'[j] = born[j]
        /\ walk'.base = walk.base /\ walk'.at = walk.at /\ walk'.pos = walk.pos
        /\ walk'.cut = walk.cut /\ walk'.touched = walk.touched \cup {i}
        /\ walk'.read = walk.read \ {i} /\ unread' = unread \ {i}
        /\ j \in walk'.todo <=> j \in walk.todo
    <2>1. j \in Items \ {i}
      BY <1>2
    <2>2. \A k \in Items \ {i} : /\ changed'[k] = changed[k] /\ born'[k] = born[k]
                                 /\ k \in walk'.todo <=> k \in walk.todo
      BY <1>1, <1>t, TouchedFacts
    <2>3. /\ source' = source /\ walk'.base = walk.base /\ walk'.at = walk.at
          /\ walk'.pos = walk.pos /\ walk'.cut = walk.cut
          /\ walk'.touched = walk.touched \cup {i}
          /\ walk'.read = walk.read \ {i} /\ unread' = unread \ {i}
      BY <1>1, <1>t, TouchedFacts
    <2>. QED  BY <2>1, <2>2, <2>3
  <1>3. Steady /\ j \in Offered \ walk.touched /\ ~Skips(j) /\ Place(j)' = Place(j)
    <2>1. Steady /\ j \notin walk.touched
      BY <1>1, <1>2, <1>f DEF Steady, Shifts
    <2>. QED  BY <1>2, <1>f, <2>1, SameItem
  <1>4. j \in Ahead' <=> j \in Ahead
    BY <1>2, <1>f, UntouchedAhead
  <1>5. Behind(j)
    BY <1>3, <1>4, <1>f DEF Behind
  <1>6. Accounted(j)
    BY <1>3, <1>5, <1>t DEF WalkCovers
  <1>. QED  BY <1>2, <1>6, <1>f DEF Accounted

LEMMA StartFacts ==
    ASSUME WalkTypeOK, NEW full \in BOOLEAN, Start(full)
    PROVE  /\ SourceRests /\ walk'.on /\ walk'.full = full /\ walk'.base = BaseOf(full)
           /\ walk'.next = BaseOf(full) /\ walk'.at = 1 /\ walk'.pos = 0
           /\ walk'.read = {} /\ walk'.touched = {} /\ ~walk'.cut
           /\ Walks.paging = "snapshot" => walk'.todo = Listed(1, BaseOf(full))
           /\ UNCHANGED <<found, fresh, mark, unread, excused, tied>>
  <1>. DEFINE b == BaseOf(full)
              w == [Idle EXCEPT !.on = TRUE, !.full = full, !.base = b, !.next = b]
  <1>1. b \in Marks
    BY DEF WalkTypeOK, NoMark, Marks, BaseOf
  <1>2. /\ w \in WalkRecords /\ w.on /\ w.full = full /\ w.base = b /\ w.next = b
        /\ w.read = {} /\ w.touched = {} /\ ~w.cut
    <2>1. Idle \in WalkRecords /\ Idle.read = {} /\ Idle.touched = {} /\ ~Idle.cut
      BY IdleIsRecord DEF Idle
    <2>. HIDE DEF b
    <2>. QED  BY <1>1, <2>1 DEF WalkRecords
  <1>3. walk' = Entered(w, 1) /\ SourceRests
        /\ UNCHANGED <<found, fresh, mark, unread, excused, tied>>
    BY DEF Start, SourceRests
  <1>. HIDE DEF b, w
  <1>4. /\ walk'.on = w.on /\ walk'.full = w.full /\ walk'.base = w.base
        /\ walk'.next = w.next /\ walk'.at = 1 /\ walk'.pos = 0
        /\ walk'.read = w.read /\ walk'.touched = w.touched /\ walk'.cut = w.cut
    <2>1. w \in WalkRecords /\ walk' = Entered(w, 1)
      BY <1>2, <1>3
    <2>. QED  BY <2>1, EnteredTypes
  <1>5. Walks.paging = "snapshot" => walk'.todo = Listed(1, w.base)
    BY <1>2, <1>3, EnteredTypes
  <1>. QED  BY <1>2, <1>3, <1>4, <1>5 DEF b

LEMMA StartCovers ==
    ASSUME CoversStep, NEW full \in BOOLEAN, Start(full)
    PROVE  WalkCovers'
  <1>. SUFFICES ASSUME NEW j \in (Offered \ walk.touched)', ~Skips(j)', Behind(j)' PROVE FALSE
    BY DEF WalkCovers
  <1>t. WalkTypeOK /\ WalkTypeOK'
    BY DEF CoversStep
  <1>1. /\ SourceRests /\ walk'.at = 1 /\ walk'.pos = 0
        /\ Walks.paging = "snapshot" => walk'.todo = Listed(walk'.at, walk'.base)
    BY <1>t, StartFacts
  <1>2. j \in Items /\ j \in Offered /\ Place(j)' = Place(j)
    <2>1. j \in Items
      BY DEF Offered, Present
    <2>. QED  BY <1>1, <2>1, SameItem DEF SourceRests
  <1>3. Place(j) \in 1 .. Places /\ Places \in Nat
    BY <1>2, <1>t, PlacesAndKeys, Bounds
  <1>4. Place(j) = walk'.at /\ j \notin Ahead'
    BY <1>1, <1>2, <1>3 DEF Behind
  <1>. QED  BY <1>1, <1>2, <1>4, <1>t, EnteredAhead

LEMMA CoversNext == WalkTypeOK /\ WalkCovers /\ [Next]_vars => WalkCovers'
  <1>. SUFFICES ASSUME WalkTypeOK, WalkCovers, [Next]_vars PROVE WalkCovers'
    OBVIOUS
  <1>t. CoversStep
    BY SourceNextTypes DEF CoversStep
  <1>1. ASSUME NEW i \in Items, ReadItem(i) \/ ReadFails(i) PROVE WalkCovers'
    BY <1>1, <1>t, ReadItemTurns, TurnCovers
  <1>2. ASSUME NEW i \in Items, Put(i) \/ Remove(i) PROVE WalkCovers'
    BY <1>2, <1>t, TouchCovers
  <1>3. CASE \E full \in BOOLEAN : Start(full)
    BY <1>3, <1>t, StartCovers
  <1>4. CASE EndPlace
    BY <1>4, <1>t, EndPlaceCovers
  <1>5. CASE PageFails \/ PlacesFail
    <2>1. walk'.cut
      BY <1>5, PageFailsFacts, PlacesFailFacts
    <2>. QED  BY <2>1 DEF WalkCovers, Steady
  <1>6. CASE Finish \/ Fail
    <2>1. ~walk'.on
      BY <1>6 DEF Finish, Fail, Idle
    <2>. QED  BY <2>1 DEF WalkCovers, Steady
  <1>7. CASE UNCHANGED vars
    <2>1. SourceRests /\ walk' = walk /\ unread' = unread
      BY <1>7 DEF vars, SourceRests
    <2>2. Walks' = Walks /\ Offered' = Offered /\ Offered \subseteq Items
      BY <2>1 DEF SourceRests, Walks, Offered, Present
    <2>3. Ahead' = Ahead
      BY <2>1, SameAhead
    <2>4. \A i \in Items : (Skips(i)' <=> Skips(i)) /\ Place(i)' = Place(i)
      BY <2>1, SameItem DEF SourceRests
    <2>. QED  BY <2>1, <2>2, <2>3, <2>4 DEF WalkCovers, Steady, Shifts, Behind, Accounted
  <1>. QED  BY <1>1, <1>2, <1>3, <1>4, <1>5, <1>6, <1>7 DEF Next, Step

LEMMA BaseNext == WalkTypeOK /\ BaseIsOwn /\ [Next]_vars => BaseIsOwn'
  <1>. SUFFICES ASSUME WalkTypeOK, BaseIsOwn, [Next]_vars PROVE BaseIsOwn'
    OBVIOUS
  <1>0. ASSUME walk'.on => walk.on /\ walk'.base = walk.base /\ walk'.full = walk.full /\ mark' = mark
        PROVE  BaseIsOwn'
    BY <1>0 DEF BaseIsOwn, BaseOf
  <1>1. ASSUME NEW i \in Items, ReadItem(i) \/ ReadFails(i) PROVE BaseIsOwn'
    BY <1>0, <1>1, ReadItemTurns DEF TurnStep
  <1>2. ASSUME NEW i \in Items, Put(i) \/ Remove(i) PROVE BaseIsOwn'
    <2>1. CASE walk.on
      BY <1>0, <1>2, <2>1, TouchedFacts
    <2>2. CASE ~walk.on
      BY <1>0, <1>2, <2>2 DEF Put, Remove
    <2>. QED  BY <2>1, <2>2
  <1>3. ASSUME NEW full \in BOOLEAN, Start(full) PROVE BaseIsOwn'
    BY <1>3, StartFacts DEF BaseIsOwn, BaseOf
  <1>4. CASE EndPlace \/ PageFails \/ PlacesFail
    BY <1>0, <1>4, EndPlaceFacts, PageFailsFacts, PlacesFailFacts DEF MovesOn
  <1>5. CASE Finish \/ Fail
    BY <1>0, <1>5 DEF Finish, Fail, Idle
  <1>6. CASE UNCHANGED vars
    BY <1>0, <1>6 DEF vars
  <1>. QED  BY <1>1, <1>2, <1>3, <1>4, <1>5, <1>6 DEF Next, Step

\* A walk that ends steady has read all it does not skip, or knows what it could not.
LEMMA WalksReadAll ==
    ASSUME WalkTypeOK, WalkCovers, Finish, Steady, NEW i \in Offered \ walk.touched, ~Skips(i)
    PROVE  Accounted(i)
  <1>1. i \in Items
    BY DEF Offered, Present
  <1>2. Behind(i)
    <2>1. Place(i) \in 1 .. Places /\ Places \in Nat /\ walk.at \in Nat /\ walk.at > Places
      BY <1>1, PlacesAndKeys, Bounds, WalkIsRecord DEF Finish, WalkRecords
    <2>. QED  BY <2>1 DEF Behind
  <1>. QED  BY <1>2 DEF WalkCovers

LEMMA NothingIsFiltered ==
    ASSUME WalkTypeOK, NEW i \in Items
    PROVE  ~Filtered(i, NoMark)
  BY PlacesAndKeys DEF Filtered, NoMark

LEMMA SweepsReadAll ==
    ASSUME WalkTypeOK, BaseIsOwn, WalkCovers, Finish, walk.full, Steady,
           NEW i \in Offered \ walk.touched
    PROVE  Accounted(i)
  <1>1. i \in Items
    BY DEF Offered, Present
  <1>2. ~Skips(i)
    BY <1>1, NothingIsFiltered DEF BaseIsOwn, BaseOf, Steady, Skips
  <1>. QED  BY <1>2, WalksReadAll

\* Only a sweep that ends resolves.
LEMMA OnlySweepsResolve ==
    ASSUME WalkTypeOK, [Next]_vars, NEW i \in Items, found[i] = "open", found'[i] = "resolved"
    PROVE  Finish /\ walk.full /\ i \notin walk.seen
  <1>1. found' # found
    OBVIOUS
  <1>2. Finish \/ Fail
    <2>1. ASSUME NEW j \in Items, ReadItem(j) \/ ReadFails(j) PROVE FALSE
      BY <1>1, <2>1, ReadItemTurns DEF TurnStep
    <2>2. ASSUME NEW j \in Items, Put(j) \/ Remove(j) PROVE FALSE
      BY <1>1, <2>2 DEF Put, Remove
    <2>3. ASSUME NEW full \in BOOLEAN, Start(full) PROVE FALSE
      BY <1>1, <2>3, StartFacts
    <2>4. ~(EndPlace \/ PageFails \/ PlacesFail)
      BY <1>1, EndPlaceFacts, PageFailsFacts, PlacesFailFacts DEF MovesOn
    <2>5. ~UNCHANGED vars
      BY <1>1 DEF vars
    <2>. QED  BY <2>1, <2>2, <2>3, <2>4, <2>5 DEF Next, Step
  <1>3. ~Fail
    <2>. SUFFICES ASSUME Fail PROVE FALSE
      OBVIOUS
    <2>1. PICK kept : found' = Stored(kept)
      BY DEF Fail
    <2>. QED  BY <2>1 DEF Stored
  <1>4. Finish
    BY <1>2, <1>3
  <1>. QED  BY <1>4 DEF Finish, ResolvedBySweep, Stored

WalkIInv == WalkTypeOK /\ BaseIsOwn /\ WalkCovers

LEMMA WalkIInvHolds == Spec => []WalkIInv
  <1>1. Init => WalkIInv
    <2>. SUFFICES ASSUME Init PROVE WalkIInv
      OBVIOUS
    <2>1. ~walk.on
      BY DEF Init, Idle
    <2>. QED  BY <2>1, SourceInitTypes DEF WalkIInv, BaseIsOwn, WalkCovers, Steady
  <1>2. WalkIInv /\ [Next]_vars => WalkIInv'
    BY SourceNextTypes, BaseNext, CoversNext DEF WalkIInv
  <1>. QED  BY <1>1, <1>2, PTL DEF Spec

\* A sweep resolves the finding of an item that is there only if its content could not be
\* fetched, the walk was cut short, or pages shifted under it; and one that was not cut
\* brings every item up to date, whatever the saved cursors.
THEOREM SweepsStaySound == Spec => SweepsAreSound
  <1>1. ASSUME WalkIInv, [Next]_vars, NEW i \in Items, found[i] = "open", found'[i] = "resolved"
        PROVE  \/ i \notin Offered \/ i \in unread \/ walk.cut
               \/ walk.touched # {} /\ (Shifts \/ i \in walk.touched)
    <2>. SUFFICES ASSUME i \in Offered, ~walk.cut,
                         walk.touched = {} \/ (~Shifts /\ i \notin walk.touched)
                  PROVE  i \in unread
      OBVIOUS
    <2>1. Finish /\ walk.full /\ i \notin walk.seen
      BY <1>1, OnlySweepsResolve DEF WalkIInv
    <2>2. Steady /\ i \in Offered \ walk.touched
      BY <2>1 DEF Steady, Finish
    <2>3. Accounted(i)
      BY <1>1, <2>1, <2>2, SweepsReadAll DEF WalkIInv
    <2>. QED  BY <1>1, <2>1, <2>3 DEF Accounted, WalkIInv, WalkTypeOK
  <1>2. ASSUME WalkIInv, [Next]_vars, walk.full, mark' = walk.next, walk' = Idle, ~walk.cut,
               walk.touched = {} \/ ~Shifts, faults' = faults
        PROVE  Offered \ (unread' \cup walk.touched) \subseteq fresh'
    <2>1. walk.on
      BY <1>2 DEF WalkIInv, WalkTypeOK, Idle
    <2>2. ~walk'.on
      BY <1>2 DEF Idle
    <2>3. Finish
      <3>1. ASSUME NEW j \in Items, ReadItem(j) \/ ReadFails(j) PROVE FALSE
        BY <1>2, <2>1, <2>2, <3>1, ReadItemTurns DEF TurnStep, WalkIInv
      <3>2. ASSUME NEW j \in Items, Put(j) \/ Remove(j) PROVE FALSE
        BY <1>2, <2>1, <2>2, <3>2, TouchedFacts DEF WalkIInv
      <3>3. ~(EndPlace \/ PageFails \/ PlacesFail)
        BY <1>2, <2>2, EndPlaceFacts, PageFailsFacts, PlacesFailFacts DEF MovesOn, WalkIInv
      <3>4. ~Fail
        <4>1. faults \in Nat
          BY <1>2, WalkBounds DEF WalkIInv, WalkTypeOK
        <4>. QED  BY <1>2, <4>1 DEF Fail
      <3>5. ~UNCHANGED vars
        BY <2>1, <2>2 DEF vars
      <3>6. \A full \in BOOLEAN : ~Start(full)
        BY <2>1 DEF Start
      <3>. QED  BY <1>2, <3>1, <3>2, <3>3, <3>4, <3>5, <3>6 DEF Next, Step
    <2>4. \A i \in Offered \ walk.touched : Accounted(i)
      BY <1>2, <2>1, <2>3, SweepsReadAll DEF WalkIInv, Steady
    <2>. QED  BY <2>3, <2>4 DEF Accounted, Finish
  <1>. QED
    <2>1. WalkIInv /\ [Next]_vars =>
            [\A i \in Items : (found[i] = "open" /\ found'[i] = "resolved") =>
                \/ i \notin Offered \/ i \in unread \/ walk.cut
                \/ walk.touched # {} /\ (Shifts \/ i \in walk.touched)]_vars
      BY <1>1
    <2>2. WalkIInv /\ [Next]_vars =>
            [(walk.full /\ mark' = walk.next /\ walk' = Idle /\ ~walk.cut
              /\ (walk.touched = {} \/ ~Shifts) /\ faults' = faults) =>
                Offered \ (unread' \cup walk.touched) \subseteq fresh']_vars
      BY <1>2
    <2>. QED
      BY <2>1, <2>2, WalkIInvHolds, PTL
      DEF Spec, SweepsAreSound, SweepsResolveWithCause, FullSweepRecovers

-----------------------------------------------------------------------------
(* What cursors pass *)

\* Later times are kept as later ones, or the same.
LEMMA KeptGrows ==
    ASSUME Walks.stamp # "text", NEW s \in Nat, NEW t \in Nat, s <= t
    PROVE  Kept(s) \in Nat /\ Kept(t) \in Nat /\ Kept(s) <= Kept(t)
  BY DEF Kept

\* What is not older than the marks is not passed by them.
LEMMA NewIsNotPassed ==
    ASSUME Walks.stamp # "text", NEW i, NEW m, Stamp(i) \in Nat, m[MarkKey(i)] \in Nat,
           m[MarkKey(i)] <= Stamp(i)
    PROVE  ~Passed(i, m)
  <1>1. Kept(m[MarkKey(i)]) <= Kept(Stamp(i))
        /\ Kept(m[MarkKey(i)]) \in Nat /\ Kept(Stamp(i)) \in Nat
    BY KeptGrows
  <1>. QED  BY <1>1 DEF Passed, Filtered

LEMMA SamePassed ==
    ASSUME NEW i \in Items, source' = source, changed'[i] = changed[i], born'[i] = born[i]
    PROVE  /\ mark' = mark => (Passed(i, mark)' <=> Passed(i, mark))
           /\ walk'.next = walk.next => (Passed(i, walk.next)' <=> Passed(i, walk.next))
  <1>1. Walks' = Walks
    BY DEF Walks
  <1>2. Stamp(i)' = Stamp(i) /\ MarkKey(i)' = MarkKey(i)
    BY SameItem
  <1>. QED  BY <1>1, <1>2 DEF Passed, Filtered, Kept

\* An item of this time is skipped by a walk from its marks.
Level(i) == ~Walks.again /\ Stamp(i) = walk.base[MarkKey(i)]

\* What a walk skips is of the time of its marks, or passed by the saved ones.
LEMMA SkippedArePassed ==
    ASSUME WalkTypeOK, BaseIsOwn, walk.on, NEW i \in Items, Skips(i)
    PROVE  Level(i) \/ Passed(i, mark)
  <1>1. walk.base = mark
    BY NothingIsFiltered DEF BaseIsOwn, BaseOf, Skips
  <1>2. walk.base[MarkKey(i)] \in Nat /\ Stamp(i) \in Nat
    BY PlacesAndKeys, WalkIsRecord DEF WalkRecords, Marks
  <1>3. CASE Stamp(i) = walk.base[MarkKey(i)] /\ Walks.stamp # "text"
    <2>1. Kept(Stamp(i)) \in Nat
      BY <1>2, <1>3, KeptGrows
    <2>. QED  BY <1>3, <2>1 DEF Skips, Filtered, Level
  <1>4. CASE Stamp(i) # walk.base[MarkKey(i)]
    BY <1>1, <1>4 DEF Skips, Passed
  <1>5. CASE Walks.stamp = "text" /\ Stamp(i) = walk.base[MarkKey(i)]
    <2>1. Stamp(i) # 0 /\ Stamp(i) \in 1 .. 7
      BY <1>5, PlacesAndKeys, WalkBounds DEF Skips, Filtered, WalkTypeOK
    <2>2. Kept(Stamp(i)) \in Nat
      BY <1>5, <2>1 DEF Kept, Alphabet
    <2>. QED  BY <1>5, <2>2 DEF Skips, Filtered, Level
  <1>. QED  BY <1>3, <1>4, <1>5

\* The cursors of items are not ahead of them.
ItemMarks ==
    Walks.mark = "item" =>
        \A i \in Present : mark[i] <= changed[i] /\ walk.next[i] <= changed[i]

\* What no scan has up to date, and no ghost accounts for.
Weak == Present \ (fresh \cup walk.read \cup unread \cup tied)

\* A walk in the order of change has read what it is past,
OrderCovers ==
    InOrder /\ walk.on =>
        \A i \in Weak : Place(i) = walk.at /\ ~Skips(i) => Rank(i) > walk.pos

\* and so its marks pass nothing else.
NextPasses ==
    InOrder /\ Resumes /\ walk.on => \A i \in Weak : Passed(i, walk.next) => Level(i)

MarksStep ==
    /\ WalkTypeOK /\ WalkTypeOK' /\ BaseIsOwn /\ WalkCovers
    /\ ItemMarks /\ OrderCovers /\ NextPasses /\ PassedWithCause

LEMMA InOrderFacts ==
    ASSUME WalkTypeOK, InOrder
    PROVE  /\ Walks.stamp \in {"changed", "day"} /\ Walks.error = "place"
           /\ Walks.order = "oldest" /\ Walks.paging = "token" /\ Resumes
           /\ Walks.mark = "place" \/ (Walks.mark = "source" /\ Walks.places = "one")
           /\ Offered = Present /\ \A i \in Items : Stamp(i) = changed[i]
  BY Bounds DEF InOrder, Known, Resumes, Offered, Stamp

\* Items of one cursor are items of one place.
LEMMA KeysArePlaces ==
    ASSUME WalkTypeOK, InOrder, NEW i \in Items, NEW j \in Items, MarkKey(i) = MarkKey(j)
    PROVE  Place(i) = Place(j)
  <1>1. CASE Walks.mark = "place"
    BY <1>1 DEF MarkKey
  <1>2. CASE Walks.places = "one"
    <2>1. Places = 1 /\ Place(i) \in 1 .. Places /\ Place(j) \in 1 .. Places
      BY <1>2, PlacesAndKeys DEF Places
    <2>. QED  BY <2>1
  <1>. QED  BY <1>1, <1>2, InOrderFacts

LEMMA TurnMarks ==
    ASSUME MarksStep, NEW i \in Items, TurnStep(i)
    PROVE  ItemMarks' /\ OrderCovers' /\ NextPasses' /\ PassedWithCause'
  <1>t. /\ WalkTypeOK /\ BaseIsOwn /\ ItemMarks /\ OrderCovers /\ NextPasses /\ PassedWithCause
    BY DEF MarksStep
  <1>1. /\ source' = source /\ Walks' = Walks /\ Present' = Present /\ Present \subseteq Items
        /\ i \in NextPage /\ i \in Ahead /\ i \in Present
        /\ Offered' = Offered /\ InOrder' = InOrder /\ Resumes' = Resumes
        /\ \A j \in Items : /\ changed'[j] = changed[j] /\ born'[j] = born[j]
                            /\ Stamp(j)' = Stamp(j) /\ Rank(j)' = Rank(j)
                            /\ Place(j)' = Place(j) /\ (Skips(j)' <=> Skips(j))
    BY <1>t, SameItem, AheadIsPresent
    DEF TurnStep, SourceRests, Walks, Present, Offered, InOrder, Resumes, NextPage
  <1>2. Weak' \subseteq Weak /\ (i \in Weak' => Skips(i))
    BY <1>1 DEF Weak, TurnStep, Accounted
  <1>3. walk'.next = walk.next \/ walk'.next = Raised(i, walk.next)
    BY DEF TurnStep
  <1>4. walk.next \in Marks /\ walk.base \in Marks /\ mark \in Marks /\ walk.pos \in Nat
    BY <1>t, WalkIsRecord DEF WalkRecords, WalkTypeOK
  <1>5. \A j \in Items : /\ MarkKey(j) \in Keys /\ Stamp(j) \in Nat /\ Rank(j) \in Nat
                         /\ changed[j] \in Nat
    BY <1>t, PlacesAndKeys, RanksAreNumbers
  <1>6. PassedWithCause'
    <2>. SUFFICES ASSUME NEW j \in Present, j \notin fresh, Passed(j, mark)'
                  PROVE  (\/ j \in unread \cup tied \/ j \notin Offered
                          \/ Stamp(j) # changed[j] \/ Walks.stamp = "text"
                          \/ j \in excused /\ ~Resumes)'
      BY <1>1 DEF PassedWithCause, TurnStep
    <2>1. Passed(j, mark)
      BY <1>1, SamePassed DEF TurnStep
    <2>. QED  BY <1>1, <1>t, <2>1 DEF PassedWithCause, TurnStep
  <1>7. ItemMarks'
    <2>. SUFFICES ASSUME Walks.mark = "item", NEW j \in Present
                  PROVE  mark'[j] <= changed'[j] /\ walk'.next[j] <= changed'[j]
      BY <1>1 DEF ItemMarks
    <2>1. mark'[j] <= changed'[j] /\ walk.next[j] <= changed'[j]
      BY <1>1, <1>t DEF ItemMarks, TurnStep
    <2>2. MarkKey(i) = i /\ Stamp(i) = changed[i]
      <3>1. Walks.stamp = "changed"
        BY <1>t, Bounds DEF Known
      <3>. QED  BY <3>1 DEF MarkKey, Stamp
    <2>3. CASE walk'.next # walk.next
      <3>1. walk'.next = [walk.next EXCEPT ![i] = changed[i]]
        BY <1>3, <2>2, <2>3 DEF Raised
      <3>2. walk'.next[j] = IF j = i THEN changed[i] ELSE walk.next[j]
        <4>1. j \in Keys
          BY <1>1, WalkBounds DEF Keys, Items
        <4>. QED  BY <1>4, <3>1, <4>1 DEF Marks
      <3>. QED  BY <1>1, <1>5, <2>1, <3>2
    <2>. QED  BY <2>1, <2>3
  <1>8. OrderCovers'
    <2>. SUFFICES ASSUME InOrder, walk.on, NEW j \in Weak', Place(j) = walk.at, ~Skips(j)
                  PROVE  Rank(j) > walk'.pos
      <3>1. Weak' \subseteq Items
        BY <1>1, <1>2 DEF Weak
      <3>. QED  BY <1>1, <3>1 DEF OrderCovers, TurnStep
    <2>1. j \in Weak /\ j \in Present /\ j # i /\ j \in Items
      BY <1>1, <1>2 DEF Weak
    <2>2. Rank(j) > walk.pos
      BY <1>t, <2>1 DEF OrderCovers
    <2>3. Walks.paging = "token" /\ Offered = Present
      BY <1>t, InOrderFacts
    <2>4. j \in Ahead
      BY <2>1, <2>2, <2>3 DEF Ahead, Listed, Skips
    <2>5. Rank(i) <= Rank(j) /\ Rank(i) # Rank(j)
      BY <1>1, <1>t, <2>1, <2>4, RanksDiffer DEF NextPage
    <2>. QED  BY <1>5, <2>1, <2>3, <2>5 DEF TurnStep
  <1>9. NextPasses'
    <2>. SUFFICES ASSUME InOrder, walk.on, NEW j \in Weak', Passed(j, walk.next)'
                  PROVE  Level(j)'
      BY <1>1 DEF NextPasses, TurnStep
    <2>1. j \in Weak /\ j \in Present /\ j \in Items
      BY <1>1, <1>2 DEF Weak
    <2>2. Level(j)' <=> Level(j)
      <3>1. MarkKey(j)' = MarkKey(j)
        BY <1>1, <2>1, SameItem
      <3>. QED  BY <1>1, <2>1, <3>1 DEF Level, TurnStep
    <2>3. Resumes /\ Walks.stamp # "text"
      BY <1>t, InOrderFacts
    <2>4. CASE walk'.next = walk.next
      <3>1. Passed(j, walk.next)
        BY <1>1, <2>1, <2>4, SamePassed
      <3>. QED  BY <1>t, <2>1, <2>2, <2>3, <3>1 DEF NextPasses
    <2>5. CASE walk'.next # walk.next
      <3>1. /\ walk'.next = [walk.next EXCEPT ![MarkKey(i)] = Stamp(i)] /\ ~Skips(i)
            /\ i # j
        BY <1>2, <1>3, <2>5 DEF Raised, TurnStep
      <3>2. MarkKey(j)' = MarkKey(j) /\ Stamp(j)' = Stamp(j)
        BY <1>1, <2>1, SameItem
      <3>3. CASE MarkKey(j) # MarkKey(i)
        <4>1. walk'.next[MarkKey(j)] = walk.next[MarkKey(j)]
          BY <1>4, <1>5, <2>1, <3>1, <3>3 DEF Marks
        <4>2. Passed(j, walk.next)
          BY <1>1, <3>2, <4>1 DEF Passed, Filtered, Kept
        <4>. QED  BY <1>t, <2>1, <2>2, <2>3, <4>2 DEF NextPasses
      <3>4. CASE MarkKey(j) = MarkKey(i)
        <4>1. walk'.next[MarkKey(j)] = Stamp(i)
          BY <1>1, <1>4, <1>5, <2>1, <3>1, <3>4 DEF Marks
        <4>2. ~(Stamp(i) <= Stamp(j))
          <5>1. Kept(Stamp(j)) < Kept(Stamp(i))
            BY <1>1, <3>2, <4>1 DEF Passed, Filtered, Kept
          <5>. QED  BY <1>1, <1>5, <2>1, <2>3, <5>1, KeptGrows
        <4>3. Rank(j) < Rank(i)
          BY <1>1, <1>5, <1>t, <2>1, <4>2, RanksDiffer, InOrderFacts
        <4>4. Place(j) = walk.at
          <5>1. Place(i) = walk.at
            BY <1>1, <1>t, InOrderFacts DEF Ahead, Listed
          <5>. QED  BY <1>1, <1>t, <2>1, <3>4, <5>1, KeysArePlaces
        <4>5. Skips(j)
          <5>. SUFFICES ASSUME ~Skips(j) PROVE FALSE
            OBVIOUS
          <5>1. Rank(j) > walk.pos
            BY <1>t, <2>1, <4>4 DEF OrderCovers
          <5>2. j \in Ahead
            BY <1>t, <2>1, <4>4, <5>1, InOrderFacts DEF Ahead, Listed, Skips
          <5>. QED  BY <1>1, <1>5, <2>1, <4>3, <5>2 DEF NextPage
        <4>6. ~Passed(j, mark)
          BY <1>t, <2>1, <2>3, InOrderFacts DEF PassedWithCause, Weak
        <4>. QED  BY <1>t, <2>1, <2>2, <4>5, <4>6, SkippedArePassed
      <3>. QED  BY <3>3, <3>4
    <2>. QED  BY <2>4, <2>5
  <1>. QED  BY <1>6, <1>7, <1>8, <1>9

\* Users of the source touch one item; the others are as they were.
LEMMA TouchMarks ==
    ASSUME MarksStep, NEW i \in Items, Put(i) \/ Remove(i)
    PROVE  ItemMarks' /\ OrderCovers' /\ NextPasses' /\ PassedWithCause'
  <1>t. /\ WalkTypeOK /\ BaseIsOwn /\ ItemMarks /\ OrderCovers /\ NextPasses /\ PassedWithCause
        /\ WalkTypeOK'
    BY DEF MarksStep
  <1>1. /\ source' = source /\ mark' = mark /\ Walks' = Walks
        /\ fresh' = fresh \ {i} /\ unread' = unread \ {i} /\ excused' = excused \ {i}
        /\ InOrder' = InOrder /\ Resumes' = Resumes
        /\ \A j \in Items \ {i} : changed'[j] = changed[j] /\ born'[j] = born[j]
        /\ \A j \in Items \ {i} : j \in tied => j \in tied'
    BY <1>t DEF Put, Remove, Walks, InOrder, Resumes, WalkTypeOK
  <1>2. walk'.next = walk.next /\ walk'.base = walk.base /\ walk'.at = walk.at
        /\ walk'.pos = walk.pos /\ walk'.on = walk.on /\ walk'.read = walk.read \ {i}
    <2>1. CASE walk.on
      BY <1>t, <2>1, TouchedFacts
    <2>2. CASE ~walk.on
      BY <1>t, <2>2 DEF Put, Remove, WalkTypeOK, Idle
    <2>. QED  BY <2>1, <2>2
  <1>3. \A j \in Items \ {i} : /\ Stamp(j)' = Stamp(j) /\ Rank(j)' = Rank(j)
                               /\ Place(j)' = Place(j) /\ MarkKey(j)' = MarkKey(j)
                               /\ (j \in Present)' <=> j \in Present
                               /\ (j \in Offered)' <=> j \in Offered
                               /\ Skips(j)' <=> Skips(j)
                               /\ Passed(j, mark)' <=> Passed(j, mark)
                               /\ Passed(j, walk.next)' <=> Passed(j, walk.next)
    BY <1>1, <1>2, SameItem, SamePassed
  <1>4. \A j \in Items \ {i} : j \in Weak' => j \in Weak
    BY <1>1, <1>2, <1>3 DEF Weak
  <1>5. i \in Present' => Put(i) /\ changed'[i] = now' /\ now <= now' /\ now' \in Nat
    <2>1. Remove(i) => i \notin Present'
      BY <1>t DEF Remove, Present, WalkTypeOK
    <2>2. Put(i) => changed'[i] = now' /\ now <= now' /\ now' \in Nat
      BY <1>t, WalkBounds DEF Put, WalkTypeOK
    <2>. QED  BY <2>1, <2>2
  <1>6. \A k \in Keys : /\ mark[k] \in Nat /\ walk.next[k] \in Nat
                        /\ mark[k] <= now /\ walk.next[k] <= now
    BY <1>t, WalkIsRecord DEF WalkRecords, WalkTypeOK, Marks
  <1>7. now \in Nat /\ MarkKey(i)' \in Keys /\ i \in Keys /\ Present' \subseteq Items
    <2>1. MarkKey(i)' = MarkKey(i)
      BY <1>1 DEF MarkKey, Place, Places
    <2>2. MarkKey(i) \in Keys /\ now \in Nat
      BY <1>t, PlacesAndKeys
    <2>. QED  BY <1>t, <2>1, <2>2, WalkBounds DEF Present, Keys, Items
  <1>8. ItemMarks'
    <2>. SUFFICES ASSUME Walks.mark = "item", NEW j \in Present'
                  PROVE  mark[j] <= changed'[j] /\ walk.next[j] <= changed'[j]
      BY <1>1, <1>2 DEF ItemMarks
    <2>1. CASE j = i
      BY <1>5, <1>6, <1>7, <2>1
    <2>2. CASE j # i
      BY <1>1, <1>3, <1>7, <1>t, <2>2 DEF ItemMarks
    <2>. QED  BY <2>1, <2>2
  <1>9. OrderCovers'
    <2>. SUFFICES ASSUME InOrder, walk.on, NEW j \in Weak', Place(j)' = walk.at, ~Skips(j)'
                  PROVE  Rank(j)' > walk.pos
      BY <1>1, <1>2 DEF OrderCovers
    <2>1. j \in Items /\ j \in Present' /\ j \notin tied'
      BY <1>7 DEF Weak
    <2>2. CASE j # i
      BY <1>3, <1>4, <1>t, <2>1, <2>2 DEF OrderCovers
    <2>3. CASE j = i
      <3>1. ~(walk.pos >= now' * (NumItems + 1))
        BY <1>5, <2>1, <2>3 DEF Put
      <3>2. Rank(i)' = now' * (NumItems + 1) + i
        <4>1. Stamp(i)' = changed'[i] /\ Walks.order = "oldest"
          BY <1>1, <1>t, InOrderFacts DEF Stamp
        <4>. QED  BY <1>1, <1>5, <2>1, <2>3, <4>1 DEF Rank
      <3>3. now' * (NumItems + 1) \in Nat /\ i \in Nat /\ walk.pos \in Nat
        BY <1>5, <1>t, <2>1, <2>3, PlacesAndKeys, WalkIsRecord, WalkBounds DEF WalkRecords
      <3>. QED  BY <2>3, <3>1, <3>2, <3>3
    <2>. QED  BY <2>2, <2>3
  <1>10. InOrder => Stamp(i)' = changed'[i] /\ Walks.stamp # "text"
    BY <1>1, <1>t, InOrderFacts DEF Stamp
  <1>11. ASSUME i \in Present', Stamp(i)' = changed'[i], Walks.stamp # "text"
         PROVE  ~Passed(i, mark)' /\ ~Passed(i, walk.next)'
    <2>1. Stamp(i)' \in Nat /\ mark'[MarkKey(i)'] \in Nat /\ mark'[MarkKey(i)'] <= Stamp(i)'
          /\ walk'.next[MarkKey(i)'] \in Nat /\ walk'.next[MarkKey(i)'] <= Stamp(i)'
      BY <1>1, <1>11, <1>2, <1>5, <1>6, <1>7
    <2>2. /\ Kept(mark[MarkKey(i)])' <= Kept(Stamp(i))'
          /\ Kept(walk.next[MarkKey(i)])' <= Kept(Stamp(i))'
          /\ Kept(mark[MarkKey(i)])' \in Nat /\ Kept(walk.next[MarkKey(i)])' \in Nat
          /\ Kept(Stamp(i))' \in Nat
      BY <1>1, <1>11, <2>1 DEF Kept
    <2>. QED  BY <2>2 DEF Passed, Filtered
  <1>12. NextPasses'
    <2>. SUFFICES ASSUME InOrder, Resumes, walk.on, NEW j \in Weak', Passed(j, walk.next)'
                  PROVE  Level(j)'
      BY <1>1, <1>2 DEF NextPasses
    <2>1. j \in Items /\ j \in Present'
      BY <1>7 DEF Weak
    <2>2. j # i
      BY <1>10, <1>11, <2>1
    <2>3. Level(j)
      BY <1>3, <1>4, <1>t, <2>1, <2>2 DEF NextPasses
    <2>. QED  BY <1>1, <1>2, <1>3, <2>1, <2>2, <2>3 DEF Level
  <1>13. PassedWithCause'
    <2>. SUFFICES ASSUME NEW j \in Present', j \notin fresh', Passed(j, mark)'
                  PROVE  (\/ j \in unread \cup tied \/ j \notin Offered
                          \/ Stamp(j) # changed[j] \/ Walks.stamp = "text"
                          \/ j \in excused /\ ~Resumes)'
      BY DEF PassedWithCause
    <2>1. CASE j = i
      BY <1>1, <1>11, <2>1
    <2>2. CASE j # i
      <3>1. j \in Items \ {i}
        BY <1>7, <2>2
      <3>2. \/ j \in unread \cup tied \/ j \notin Offered
            \/ Stamp(j) # changed[j] \/ Walks.stamp = "text"
            \/ j \in excused /\ ~Resumes
        BY <1>1, <1>3, <1>t, <3>1 DEF PassedWithCause
      <3>. QED  BY <1>1, <1>3, <3>1, <3>2
    <2>. QED  BY <2>1, <2>2
  <1>. QED  BY <1>8, <1>9, <1>12, <1>13

\* The walk goes a place further, or to the end.
Advances ==
    /\ MovesOn /\ walk'.base = walk.base
    /\ Walks.error = "place" => walk'.next = walk.next
    /\ Walks.error = "place" => walk'.pos = 0 \/ walk'.at = Places + 1

LEMMA AdvanceMarks ==
    ASSUME MarksStep, Advances
    PROVE  ItemMarks' /\ OrderCovers' /\ NextPasses' /\ PassedWithCause'
  <1>t. /\ WalkTypeOK /\ ItemMarks /\ OrderCovers /\ NextPasses /\ PassedWithCause
        /\ Walks.mark = "item" => Walks.error = "place"
        /\ InOrder => Walks.error = "place"
    BY Bounds, InOrderFacts DEF MarksStep, Known
  <1>1. /\ source' = source /\ changed' = changed /\ Walks' = Walks /\ Present' = Present
        /\ Present \subseteq Items /\ Offered' = Offered
        /\ InOrder' = InOrder /\ Resumes' = Resumes /\ Weak' = Weak
        /\ walk.on /\ walk'.on /\ walk'.base = walk.base
        /\ UNCHANGED <<fresh, mark, unread, excused, tied>>
    BY DEF Advances, MovesOn, SourceRests, Walks, Present, Offered, InOrder, Resumes, Weak
  <1>2. \A j \in Items : /\ Stamp(j)' = Stamp(j) /\ Rank(j)' = Rank(j)
                         /\ Place(j)' = Place(j) /\ MarkKey(j)' = MarkKey(j)
                         /\ (Passed(j, mark)' <=> Passed(j, mark))
                         /\ walk'.next = walk.next =>
                              (Passed(j, walk.next)' <=> Passed(j, walk.next))
    BY <1>1, SameItem, SamePassed DEF Advances, MovesOn, SourceRests
  <1>3. PassedWithCause'
    <2>. SUFFICES ASSUME NEW j \in Present, j \notin fresh, Passed(j, mark)'
                  PROVE  (\/ j \in unread \cup tied \/ j \notin Offered
                          \/ Stamp(j) # changed[j] \/ Walks.stamp = "text"
                          \/ j \in excused /\ ~Resumes)'
      BY <1>1 DEF PassedWithCause
    <2>. QED  BY <1>1, <1>2, <1>t DEF PassedWithCause
  <1>4. ItemMarks'
    BY <1>1, <1>t DEF ItemMarks, Advances
  <1>5. OrderCovers'
    <2>. SUFFICES ASSUME InOrder, NEW j \in Weak, Place(j)' = walk'.at PROVE Rank(j)' > walk'.pos
      BY <1>1 DEF OrderCovers
    <2>1. j \in Items
      BY <1>1 DEF Weak
    <2>2. Place(j) \in 1 .. Places /\ Places \in Nat /\ Rank(j) \in Nat \ {0}
      BY <1>t, <2>1, PlacesAndKeys, RanksAreNumbers, Bounds
    <2>3. walk'.pos = 0
      BY <1>2, <1>t, <2>1, <2>2 DEF Advances
    <2>. QED  BY <1>2, <2>1, <2>2, <2>3
  <1>6. NextPasses'
    <2>. SUFFICES ASSUME InOrder, Resumes, NEW j \in Weak, Passed(j, walk.next)'
                  PROVE  Level(j)'
      BY <1>1 DEF NextPasses
    <2>1. j \in Items
      BY <1>1 DEF Weak
    <2>2. Level(j)
      BY <1>1, <1>2, <1>t, <2>1 DEF NextPasses, Advances
    <2>. QED  BY <1>1, <1>2, <2>1, <2>2 DEF Level
  <1>. QED  BY <1>3, <1>4, <1>5, <1>6

LEMMA StartMarks ==
    ASSUME MarksStep, NEW full \in BOOLEAN, Start(full)
    PROVE  ItemMarks' /\ OrderCovers' /\ NextPasses' /\ PassedWithCause'
  <1>t. WalkTypeOK /\ WalkTypeOK' /\ ItemMarks /\ PassedWithCause
    BY DEF MarksStep
  <1>1. /\ SourceRests /\ walk'.on /\ walk'.base = BaseOf(full) /\ walk'.next = BaseOf(full)
        /\ walk'.pos = 0 /\ walk'.read = {} /\ UNCHANGED <<fresh, mark, unread, excused, tied>>
    BY <1>t, StartFacts
  <1>2. /\ source' = source /\ changed' = changed /\ Walks' = Walks /\ Present' = Present
        /\ Present \subseteq Items /\ Offered' = Offered
        /\ InOrder' = InOrder /\ Resumes' = Resumes
    BY <1>1 DEF SourceRests, Walks, Present, Offered, InOrder, Resumes
  <1>3. \A j \in Items : /\ Stamp(j)' = Stamp(j) /\ Rank(j)' \in Nat \ {0}
                         /\ (Passed(j, mark)' <=> Passed(j, mark))
    BY <1>1, <1>t, SameItem, SamePassed, RanksAreNumbers DEF SourceRests
  <1>4. PassedWithCause'
    <2>. SUFFICES ASSUME NEW j \in Present, j \notin fresh, Passed(j, mark)'
                  PROVE  (\/ j \in unread \cup tied \/ j \notin Offered
                          \/ Stamp(j) # changed[j] \/ Walks.stamp = "text"
                          \/ j \in excused /\ ~Resumes)'
      BY <1>1, <1>2 DEF PassedWithCause
    <2>. QED  BY <1>1, <1>2, <1>3, <1>t DEF PassedWithCause
  <1>5. ItemMarks'
    <2>1. \A i \in Items : NoMark[i] = 0 /\ changed[i] \in Nat
      BY <1>t, WalkBounds DEF NoMark, Keys, Items, WalkTypeOK
    <2>. QED  BY <1>1, <1>2, <1>t, <2>1 DEF ItemMarks, BaseOf
  <1>6. OrderCovers'
    <2>1. Weak' \subseteq Items
      BY <1>2 DEF Weak
    <2>. QED  BY <1>1, <1>3, <2>1 DEF OrderCovers
  <1>7. NextPasses'
    <2>. SUFFICES ASSUME InOrder, NEW j \in Weak', Passed(j, walk.next)' PROVE FALSE
      BY <1>2 DEF NextPasses
    <2>1. j \in Items /\ j \in Present /\ j \notin fresh \cup unread \cup tied
      BY <1>1, <1>2 DEF Weak
    <2>2. ~Passed(j, mark)
      BY <1>t, <2>1, InOrderFacts DEF PassedWithCause
    <2>3. ~Filtered(j, NoMark)
      BY <1>t, <2>1, NothingIsFiltered
    <2>4. ~Passed(j, BaseOf(full))
      BY <2>2, <2>3 DEF BaseOf, Passed
    <2>5. MarkKey(j)' = MarkKey(j)
      BY <1>1, <2>1, SameItem DEF SourceRests
    <2>. QED  BY <1>1, <1>2, <1>3, <2>1, <2>4, <2>5 DEF Passed, Filtered, Kept
  <1>. QED  BY <1>4, <1>5, <1>6, <1>7

LEMMA FailMarks ==
    ASSUME MarksStep, Fail
    PROVE  ItemMarks' /\ OrderCovers' /\ NextPasses' /\ PassedWithCause'
  <1>t. WalkTypeOK /\ ItemMarks /\ PassedWithCause
    BY DEF MarksStep
  <1>1. /\ SourceRests /\ walk' = Idle /\ ~walk'.on /\ UNCHANGED <<mark, excused, tied>>
    BY DEF Fail, SourceRests, Idle
  <1>2. PICK read : fresh' = fresh \cup read /\ unread' = unread \ read
    BY DEF Fail
  <1>3. /\ source' = source /\ changed' = changed /\ Walks' = Walks /\ Present' = Present
        /\ Present \subseteq Items /\ Offered' = Offered /\ Resumes' = Resumes
    BY <1>1 DEF SourceRests, Walks, Present, Offered, InOrder, Resumes
  <1>4. \A j \in Items : Stamp(j)' = Stamp(j) /\ (Passed(j, mark)' <=> Passed(j, mark))
    BY <1>1, SameItem, SamePassed DEF SourceRests
  <1>5. PassedWithCause'
    <2>. SUFFICES ASSUME NEW j \in Present, j \notin fresh', Passed(j, mark)'
                  PROVE  (\/ j \in unread \cup tied \/ j \notin Offered
                          \/ Stamp(j) # changed[j] \/ Walks.stamp = "text"
                          \/ j \in excused /\ ~Resumes)'
      BY <1>3 DEF PassedWithCause
    <2>. QED  BY <1>1, <1>2, <1>3, <1>4, <1>t DEF PassedWithCause
  <1>6. ItemMarks'
    <2>1. \A i \in Items : walk'.next[i] = 0 /\ changed[i] \in Nat
      BY <1>1, <1>t, WalkBounds DEF Idle, NoMark, Keys, Items, WalkTypeOK
    <2>. QED  BY <1>1, <1>3, <1>t, <2>1 DEF ItemMarks
  <1>. QED  BY <1>1, <1>5, <1>6 DEF OrderCovers, NextPasses

\* A scan that completes: its marks say what it covered, or it is known why they do not.
LEMMA FinishMarks ==
    ASSUME MarksStep, Finish
    PROVE  ItemMarks' /\ OrderCovers' /\ NextPasses' /\ PassedWithCause'
  <1>t. /\ WalkTypeOK /\ BaseIsOwn /\ WalkCovers /\ ItemMarks /\ NextPasses /\ PassedWithCause
    BY DEF MarksStep
  <1>1. /\ SourceRests /\ walk.on /\ walk' = Idle /\ ~walk'.on /\ mark' = walk.next
        /\ fresh' = fresh \cup walk.read /\ unread' = unread \ walk.read
        /\ tied' = tied \cup {i \in Present \ fresh' : ~Walks.again /\
                      Stamp(i) \in {walk.base[MarkKey(i)], walk.next[MarkKey(i)]}}
        /\ excused' = IF walk.cut \/ walk.touched # {} THEN excused \cup Present ELSE excused
    BY DEF Finish, SourceRests, Idle
  <1>2. /\ source' = source /\ changed' = changed /\ Walks' = Walks /\ Present' = Present
        /\ Present \subseteq Items /\ Offered' = Offered /\ Resumes' = Resumes
    BY <1>1 DEF SourceRests, Walks, Present, Offered, InOrder, Resumes
  <1>3. \A j \in Items : /\ Stamp(j)' = Stamp(j)
                         /\ Passed(j, mark)' <=> Passed(j, walk.next)
    <2>. TAKE j \in Items
    <2>1. Stamp(j)' = Stamp(j) /\ MarkKey(j)' = MarkKey(j)
      BY <1>1, SameItem DEF SourceRests
    <2>. QED  BY <1>1, <1>2, <2>1 DEF Passed, Filtered, Kept
  <1>4. ItemMarks'
    <2>1. \A i \in Items : walk'.next[i] = 0 /\ changed[i] \in Nat
      BY <1>1, <1>t, WalkBounds DEF Idle, NoMark, Keys, Items, WalkTypeOK
    <2>. QED  BY <1>1, <1>2, <1>t, <2>1 DEF ItemMarks
  <1>5. PassedWithCause'
    <2>. SUFFICES ASSUME NEW j \in Present, j \notin fresh \cup walk.read, Passed(j, walk.next),
                         j \notin unread \cup tied', j \in Offered, Stamp(j) = changed[j],
                         Walks.stamp # "text", ~(j \in excused' /\ ~Resumes)
                  PROVE  FALSE
      BY <1>1, <1>2, <1>3 DEF PassedWithCause
    <2>1. j \in Items /\ j \notin tied /\ j \in Weak
      BY <1>1, <1>2 DEF Weak
    <2>2. ~Level(j)
      BY <1>1 DEF Level
    <2>3. ~Passed(j, mark)
      BY <1>1, <1>t, <2>1 DEF PassedWithCause
    <2>4. ~Skips(j)
      BY <1>1, <1>t, <2>1, <2>2, <2>3, SkippedArePassed
    <2>5. CASE InOrder
      BY <1>1, <1>t, <2>1, <2>2, <2>5, InOrderFacts DEF NextPasses
    <2>6. CASE Walks.mark = "item"
      <3>1. MarkKey(j) = j /\ walk.next[j] <= changed[j] /\ walk.next[j] \in Nat
            /\ changed[j] \in Nat
        <4>1. MarkKey(j) = j /\ j \in Keys /\ changed[j] \in Nat
          BY <1>t, <2>1, <2>6, PlacesAndKeys DEF MarkKey
        <4>. QED  BY <1>t, <2>6, <4>1, WalkIsRecord DEF ItemMarks, WalkRecords, Marks
      <3>. QED  BY <3>1, NewIsNotPassed
    <2>7. CASE ~Resumes
      <3>1. Steady /\ j \notin walk.touched
        BY <1>1, <2>7 DEF Steady
      <3>2. Accounted(j)
        BY <1>t, <2>4, <3>1, WalksReadAll
      <3>. QED  BY <3>2 DEF Accounted
    <2>. QED  BY <2>5, <2>6, <2>7 DEF Resumes
  <1>. QED  BY <1>1, <1>4, <1>5 DEF OrderCovers, NextPasses

MarksHold == ItemMarks /\ OrderCovers /\ NextPasses /\ PassedWithCause

MarksIInv == WalkIInv /\ MarksHold

\* The variables have their types, and whatever scans, failures and changes come together,
\* an item that changed and was not read since is behind its cursor only with a cause.
THEOREM WalkKeepsInv == Spec => []WalkInv
  <1>1. Init => MarksIInv
    <2>. SUFFICES ASSUME Init PROVE MarksIInv
      OBVIOUS
    <2>1. ~walk.on /\ Present = {}
      BY DEF Init, Idle, Present
    <2>2. WalkIInv
      BY <2>1, SourceInitTypes DEF WalkIInv, BaseIsOwn, WalkCovers, Steady
    <2>3. MarksHold
      BY <2>1 DEF MarksHold, ItemMarks, OrderCovers, NextPasses, PassedWithCause
    <2>. QED  BY <2>2, <2>3 DEF MarksIInv
  <1>2. MarksIInv /\ [Next]_vars => MarksIInv'
    <2>. SUFFICES ASSUME MarksIInv, [Next]_vars PROVE MarksIInv'
      OBVIOUS
    <2>1. WalkIInv'
      BY SourceNextTypes, BaseNext, CoversNext DEF MarksIInv, WalkIInv
    <2>2. MarksStep /\ WalkTypeOK
      BY <2>1 DEF MarksStep, MarksIInv, WalkIInv, MarksHold
    <2>. SUFFICES MarksHold'
      BY <2>1 DEF MarksIInv
    <2>3. ASSUME NEW i \in Items, ReadItem(i) \/ ReadFails(i) PROVE MarksHold'
      BY <2>2, <2>3, ReadItemTurns, TurnMarks DEF MarksHold
    <2>4. ASSUME NEW i \in Items, Put(i) \/ Remove(i) PROVE MarksHold'
      BY <2>2, <2>4, TouchMarks DEF MarksHold
    <2>5. CASE \E full \in BOOLEAN : Start(full)
      BY <2>2, <2>5, StartMarks DEF MarksHold
    <2>6. CASE EndPlace \/ PageFails \/ PlacesFail
      <3>1. Advances
        BY <2>2, <2>6, EndPlaceFacts, PageFailsFacts, PlacesFailFacts DEF Advances
      <3>. QED  BY <2>2, <3>1, AdvanceMarks DEF MarksHold
    <2>7. CASE Finish \/ Fail
      BY <2>2, <2>7, FinishMarks, FailMarks DEF MarksHold
    <2>8. CASE UNCHANGED vars
      <3>1. /\ Walks' = Walks /\ Present' = Present /\ Places' = Places /\ Offered' = Offered
            /\ InOrder' = InOrder /\ Resumes' = Resumes /\ Present \subseteq Items
            /\ UNCHANGED <<changed, fresh, mark, walk, unread, excused, tied>>
        BY <2>8 DEF vars, Walks, Present, Places, Offered, InOrder, Resumes
      <3>2. \A j \in Items : /\ Stamp(j)' = Stamp(j) /\ Rank(j)' = Rank(j)
                             /\ Place(j)' = Place(j) /\ MarkKey(j)' = MarkKey(j)
                             /\ Skips(j)' <=> Skips(j)
                             /\ Passed(j, mark)' <=> Passed(j, mark)
                             /\ Passed(j, walk.next)' <=> Passed(j, walk.next)
        BY <2>8, SameItem, SamePassed DEF vars
      <3>3. ItemMarks' /\ PassedWithCause'
        BY <3>1, <3>2, <2>2 DEF MarksStep, ItemMarks, PassedWithCause
      <3>4. Weak' = Weak /\ Weak \subseteq Items
        BY <3>1 DEF Weak
      <3>5. \A j \in Items : Level(j)' <=> Level(j)
        BY <3>1, <3>2 DEF Level
      <3>. QED  BY <3>1, <3>2, <3>3, <3>4, <3>5, <2>2
           DEF MarksStep, MarksHold, OrderCovers, NextPasses
    <2>. QED  BY <2>3, <2>4, <2>5, <2>6, <2>7, <2>8 DEF Next, Step
  <1>3. MarksIInv => WalkInv
    BY DEF MarksIInv, MarksHold, WalkIInv, WalkInv
  <1>. QED  BY <1>1, <1>2, <1>3, PTL DEF Spec
=============================================================================
