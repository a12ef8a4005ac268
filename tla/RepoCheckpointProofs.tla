------------------------- MODULE RepoCheckpointProofs -------------------------
(***************************************************************************)
(* Incremental scans for any number of files, branches, rule packs and     *)
(* scans of one shared clone.  A watermark vouches for its commit because  *)
(* the scan that moved it vouched for its base and stored the difference;  *)
(* what a scan vouches for only grows under the others, as findings are    *)
(* never taken back.                                                       *)
(***************************************************************************)
EXTENDS RepoCheckpoint, TLAPS

Trees == [Files -> Versions]

\* Every file of the commit was stored with some pack; with this one.
Covered(c, S)        == \A x \in Present(c) : \E p \in 1..MaxPack : <<x[1], x[2], p>> \in S
PackCovered(c, p, S) == With(Present(c), p) \subseteq S

ScanStates == [pc : {"idle", "ready", "planned", "stored", "marked"}, label : Branches,
               base : Trees, head : Trees, full : BOOLEAN, pack : 0..MaxPack,
               known : 0..MaxPack, whole : BOOLEAN]
HookStates == [pc : {"idle", "scanning"}, branch : Branches, base : Trees, head : Trees,
               full : BOOLEAN, pack : 0..MaxPack]

LocalsOK ==
    /\ scan \in [Branches -> ScanStates] /\ hook \in HookStates
    /\ pack \in 1..MaxPack
    /\ hook.pc = "scanning" => hook.pack \in 1..MaxPack /\ hook.head \in Commits
    /\ \A b \in Branches :
          scan[b].pc \in {"planned", "stored", "marked"} =>
              /\ scan[b].pack \in 1..MaxPack /\ scan[b].head \in Commits
              /\ scan[b].known \in {0, scan[b].pack}

\* What a row of repo_branch_checkpoints vouches for.
RowHolds(r, S) ==
    r.whole => Covered(r.at, S) /\ (r.pack # 0 => PackCovered(r.at, r.pack, S))

\* What the locals of a scan do: of the base before the walk, of the head after it.
ScanHolds(s, S) ==
    s.whole =>
        /\ s.pc = "planned" /\ ~s.full =>
              Covered(s.base, S) /\ (s.known # 0 => PackCovered(s.base, s.known, S))
        /\ s.pc \in {"stored", "marked"} =>
              /\ Covered(s.head, S)
              /\ s.full => PackCovered(s.head, s.pack, S)
              /\ ~s.full /\ s.known # 0 => PackCovered(s.head, s.known, S)

Vouched == /\ \A b \in Branches : RowHolds(ckpt[b], stored)
           /\ \A b \in Branches : ScanHolds(scan[b], stored)

\* A scan nobody interfered with, from its plan on: the clone is at its head, and
\* if it is a full one the markers become those of its commit.
AloneHolds ==
    \A b \in alone :
        /\ b \in Branches /\ hook.pc = "idle" /\ \A o \in Branches \ {b} : scan[o].pc = "idle"
        /\ scan[b].pc \in {"planned", "stored", "marked"} /\ clone.at = scan[b].head
        /\ scan[b].full /\ scan[b].label = Default =>
              /\ scan[b].pc = "stored" => \A f \in removed : scan[b].head[f] = 0
              /\ scan[b].pc = "marked" => removed = {f \in Known : scan[b].head[f] = 0}

CheckpointIInv == CheckpointTypeOK /\ LocalsOK /\ Vouched /\ AloneHolds

-----------------------------------------------------------------------------
(* Commits, differences, and what is stored. *)

LEMMA CommitsAreTrees ==
    /\ NoCommit \in Trees /\ Commits \subseteq Trees
    /\ Commits \cup {NoCommit} = Trees
  BY CheckpointBounds DEF NoCommit, Trees, Commits, Versions

\* What a tree holds is in the tree before it, or in the difference.
LEMMA PresentSplits ==
    ASSUME NEW c \in Trees, NEW d \in Trees
    PROVE  Present(d) \subseteq Present(c) \cup Diff(c, d)
  BY DEF Present, Diff

LEMMA FilesRead ==
    ASSUME NEW c \in Trees, NEW d \in Trees
    PROVE  /\ Present(d) \subseteq Files \X (1..MaxVersion)
           /\ Diff(c, d) \subseteq Files \X (1..MaxVersion)
  BY CheckpointBounds DEF Present, Diff, Trees, Versions

LEMMA FilesPresent ==
    ASSUME NEW c \in Trees
    PROVE  FilesOf(Present(c)) = {f \in Files : c[f] # 0}
  <1>1. ASSUME NEW x \in Present(c) PROVE x[1] \in Files /\ c[x[1]] # 0
    BY DEF Present
  <1>2. ASSUME NEW f \in Files, c[f] # 0 PROVE \E x \in Present(c) : x[1] = f
    <2>1. <<f, c[f]>> \in Present(c) /\ <<f, c[f]>>[1] = f
      BY <1>2 DEF Present
    <2>. QED  BY <2>1
  <1>. QED  BY <1>1, <1>2 DEF FilesOf

\* Nothing stored is taken back, so what was covered stays covered.
LEMMA CoverGrows ==
    ASSUME stored \subseteq stored'
    PROVE  /\ \A c : Covered(c, stored) => Covered(c, stored')
           /\ \A c, p : PackCovered(c, p, stored) => PackCovered(c, p, stored')
           /\ Known \subseteq Known'
  BY DEF Covered, PackCovered, Known, FilesOf

LEMMA NothingToCover ==
    Present(NoCommit) = {}
  BY DEF Present, NoCommit

\* A walk of the whole tree covers it.
LEMMA FullCovers ==
    ASSUME NEW c \in Trees, NEW p \in 1..MaxPack, stored' = stored \cup With(Present(c), p)
    PROVE  Covered(c, stored') /\ PackCovered(c, p, stored')
  BY DEF Covered, PackCovered, With

\* A walk of the difference covers the head, if its base was covered.
LEMMA DiffCovers ==
    ASSUME NEW c \in Trees, NEW d \in Trees, NEW p \in 1..MaxPack, Covered(c, stored),
           stored' = stored \cup With(Diff(c, d), p)
    PROVE  Covered(d, stored') /\ (PackCovered(c, p, stored) => PackCovered(d, p, stored'))
  <1>1. Present(d) \subseteq Present(c) \cup Diff(c, d)
    BY PresentSplits
  <1>2. ASSUME NEW x \in Present(d) PROVE \E q \in 1..MaxPack : <<x[1], x[2], q>> \in stored'
    <2>1. CASE x \in Present(c)
      BY <2>1 DEF Covered
    <2>2. CASE x \in Diff(c, d)
      BY <2>2 DEF With
    <2>. QED  BY <1>1, <2>1, <2>2
  <1>3. ASSUME PackCovered(c, p, stored) PROVE PackCovered(d, p, stored')
    BY <1>1, <1>3 DEF PackCovered, With
  <1>. QED  BY <1>2, <1>3 DEF Covered

LEMMA WithTyped ==
    ASSUME NEW F \in SUBSET (Files \X (1..MaxVersion)), NEW p \in 1..MaxPack
    PROVE  With(F, p) \subseteq Files \X (1..MaxVersion) \X (1..MaxPack)
  BY DEF With

-----------------------------------------------------------------------------
LEMMA CheckpointInitIInv == CheckpointInit => CheckpointIInv
  <1>. SUFFICES ASSUME CheckpointInit PROVE CheckpointIInv
    OBVIOUS
  <1>1. PICK c \in Commits : tip = [b \in Branches |-> c] /\ clone = [on |-> Default, at |-> c]
    BY DEF CheckpointInit
  <1>2. CheckpointTypeOK
    BY <1>1, CheckpointBounds DEF CheckpointInit, CheckpointTypeOK, NoRow
  <1>3. LocalsOK
    BY CheckpointBounds, CommitsAreTrees
    DEF CheckpointInit, LocalsOK, ScanStates, HookStates, NoScan, NoHook
  <1>4. Vouched
    BY DEF CheckpointInit, Vouched, RowHolds, ScanHolds, NoRow, NoScan
  <1>5. AloneHolds
    BY DEF CheckpointInit, AloneHolds
  <1>. QED  BY <1>2, <1>3, <1>4, <1>5 DEF CheckpointIInv

\* The remote, the queue and the rules move under scans that do not look.
LEMMA OutsideKeeps ==
    ASSUME CheckpointIInv,
           \/ \E b \in Branches, f \in Files, v \in Versions : Push(b, f, v)
           \/ \E m \in queue : LoseWebhook(m)
           \/ ChangeRules
    PROVE  CheckpointIInv'
  <1>. USE DEF CheckpointIInv
  <1>1. UNCHANGED <<clone, ckpt, stored, removed, scan, hook, alone>>
    BY DEF Push, LoseWebhook, ChangeRules
  <1>2. /\ tip' \in [Branches -> Commits]
        /\ queue' \subseteq [branch : Branches, base : Commits, head : Commits]
        /\ pack' \in 1..MaxPack
    <2>1. ASSUME NEW b \in Branches, NEW f \in Files, NEW v \in Versions, Push(b, f, v)
          PROVE  /\ tip' \in [Branches -> Commits]
                 /\ queue' \subseteq [branch : Branches, base : Commits, head : Commits]
                 /\ pack' = pack
      <3>1. [tip[b] EXCEPT ![f] = v] \in Commits
        BY <2>1 DEF Push, CheckpointTypeOK, Commits
      <3>2. tip' = [tip EXCEPT ![b] = [tip[b] EXCEPT ![f] = v]] /\ pack' = pack
            /\ queue' = queue \cup {[branch |-> b, base |-> tip[b], head |-> tip'[b]]}
        BY <2>1 DEF Push
      <3>3. tip' \in [Branches -> Commits]
        BY <3>1, <3>2 DEF CheckpointTypeOK
      <3>4. [branch |-> b, base |-> tip[b], head |-> tip'[b]]
               \in [branch : Branches, base : Commits, head : Commits]
        BY <3>3 DEF CheckpointTypeOK
      <3>5. queue \subseteq [branch : Branches, base : Commits, head : Commits]
        BY DEF CheckpointTypeOK
      <3>. HIDE DEF CheckpointIInv
      <3>. QED  BY <3>2, <3>3, <3>4, <3>5
    <2>2. ASSUME NEW m \in queue, LoseWebhook(m)
          PROVE  tip' = tip /\ queue' \subseteq queue /\ pack' = pack
      BY <2>2 DEF LoseWebhook, remoteVars
    <2>3. CASE ChangeRules
      BY <2>3, CheckpointBounds DEF ChangeRules, remoteVars, CheckpointTypeOK, LocalsOK
    <2>. QED  BY <2>1, <2>2, <2>3 DEF CheckpointTypeOK, LocalsOK
  <1>3. CheckpointTypeOK'
    BY <1>1, <1>2 DEF CheckpointTypeOK, Known
  <1>4. LocalsOK'
    BY <1>1, <1>2 DEF LocalsOK
  <1>5. Vouched' /\ AloneHolds'
    BY <1>1 DEF Vouched, RowHolds, ScanHolds, Covered, PackCovered, AloneHolds, Known
  <1>. QED  BY <1>3, <1>4, <1>5

\* A step of one requested scan: the others keep what they vouch for.
LEMMA ScanStepKeeps ==
    ASSUME CheckpointIInv, NEW b \in Branches, NEW s \in ScanStates,
           scan' = [scan EXCEPT ![b] = s],
           s.pc = "idle" => s = NoScan,
           s.pc \in {"planned", "stored", "marked"} =>
               s.pack \in 1..MaxPack /\ s.head \in Commits /\ s.known \in {0, s.pack},
           ScanHolds(s, stored'),
           stored \subseteq stored',
           stored' \subseteq Files \X (1..MaxVersion) \X (1..MaxPack),
           removed' \subseteq Known',
           clone' \in [on : Branches \cup {"HEAD"}, at : Commits],
           ckpt' = ckpt \/ \E l \in Branches, r \in [at : Trees, pack : 0..MaxPack, whole : BOOLEAN] :
                              ckpt' = [ckpt EXCEPT ![l] = r] /\ RowHolds(r, stored'),
           UNCHANGED <<remoteVars, queue, pack, hook>>
    PROVE  CheckpointTypeOK' /\ LocalsOK' /\ Vouched'
  <1>. USE DEF CheckpointIInv
  <1>1. ckpt' \in [Branches -> [at : Commits \cup {NoCommit}, pack : 0..MaxPack, whole : BOOLEAN]]
    BY CommitsAreTrees DEF CheckpointTypeOK
  <1>2. CheckpointTypeOK'
    <2>1. \A o \in Branches : scan'[o].pc = "idle" => scan'[o] = NoScan
      BY DEF CheckpointTypeOK, LocalsOK
    <2>. QED  BY <1>1, <2>1 DEF CheckpointTypeOK, remoteVars
  <1>3. LocalsOK'
    BY DEF LocalsOK
  <1>4. \A o \in Branches : ScanHolds(scan'[o], stored')
    <2>1. ASSUME NEW o \in Branches, o # b PROVE ScanHolds(scan'[o], stored')
      <3>1. scan'[o] = scan[o] /\ ScanHolds(scan[o], stored)
        BY <2>1 DEF LocalsOK, Vouched
      <3>. QED  BY <3>1, CoverGrows DEF ScanHolds
    <2>2. scan'[b] = s
      BY DEF LocalsOK
    <2>. QED  BY <2>1, <2>2 DEF ScanHolds
  <1>5. \A o \in Branches : RowHolds(ckpt'[o], stored')
    <2>1. ASSUME NEW o \in Branches, ckpt'[o] = ckpt[o] PROVE RowHolds(ckpt'[o], stored')
      <3>1. RowHolds(ckpt[o], stored)
        BY DEF Vouched
      <3>. QED  BY <2>1, <3>1, CoverGrows DEF RowHolds
    <2>2. ASSUME NEW l \in Branches,
                 NEW r \in [at : Trees, pack : 0..MaxPack, whole : BOOLEAN],
                 ckpt' = [ckpt EXCEPT ![l] = r], RowHolds(r, stored'), NEW o \in Branches
          PROVE  RowHolds(ckpt'[o], stored')
      <3>1. CASE o = l
        <4>1. ckpt'[o] = r
          BY <2>2, <3>1 DEF CheckpointTypeOK
        <4>. QED  BY <2>2, <4>1 DEF RowHolds
      <3>2. CASE o # l
        BY <2>1, <2>2, <3>2 DEF CheckpointTypeOK
      <3>. QED  BY <3>1, <3>2
    <2>. QED  BY <2>1, <2>2
  <1>. QED  BY <1>2, <1>3, <1>4, <1>5 DEF Vouched

\* A scan that starts, plans, walks, marks, ends or dies.
LEMMA RequestedScanKeeps ==
    ASSUME CheckpointIInv, NEW b \in Branches,
           \/ \E t \in Branches : Refresh(b, t)
           \/ ScanStale(b) \/ Plan(b) \/ Walk(b) \/ MarkRemoved(b) \/ Stamp(b) \/ Abort(b)
    PROVE  CheckpointTypeOK' /\ LocalsOK' /\ Vouched'
  <1>. USE DEF CheckpointIInv
  <1>t. /\ stored \subseteq Files \X (1..MaxVersion) \X (1..MaxPack) /\ removed \subseteq Known
        /\ clone \in [on : Branches \cup {"HEAD"}, at : Commits] /\ clone.at \in Trees
        /\ scan[b] \in ScanStates /\ pack \in 1..MaxPack
        /\ ckpt[b] \in [at : Trees, pack : 0..MaxPack, whole : BOOLEAN]
        /\ tip \in [Branches -> Commits]
    BY CommitsAreTrees DEF CheckpointTypeOK, LocalsOK
  <1>n. NoScan \in ScanStates /\ NoScan.pc = "idle" /\ ~NoScan.whole
    BY CheckpointBounds, CommitsAreTrees DEF NoScan, ScanStates
  <1>1. ASSUME NEW t \in Branches, Refresh(b, t) PROVE CheckpointTypeOK' /\ LocalsOK' /\ Vouched'
    <2>. DEFINE s == [NoScan EXCEPT !.pc = "ready", !.label = t]
    <2>1. /\ scan' = [scan EXCEPT ![b] = s] /\ clone' = [on |-> t, at |-> tip[t]]
          /\ UNCHANGED <<remoteVars, queue, pack, ckpt, stored, removed, hook>>
      BY <1>1 DEF Refresh
    <2>2. s \in ScanStates /\ s.pc = "ready" /\ ~s.whole
      BY <1>n DEF ScanStates, NoScan
    <2>3. clone' \in [on : Branches \cup {"HEAD"}, at : Commits]
      BY <2>1, <1>t
    <2>4. removed' \subseteq Known'
      BY <2>1, <1>t DEF Known
    <2>. HIDE DEF s
    <2>5. ScanHolds(s, stored')
      BY <2>2 DEF ScanHolds
    <2>. QED  BY <2>1, <2>2, <2>3, <2>4, <2>5, <1>t, ScanStepKeeps
  <1>2. CASE ScanStale(b)
    <2>. DEFINE t == IF clone.on = "HEAD" THEN Default ELSE clone.on
                s == [NoScan EXCEPT !.pc = "ready", !.label = t]
    <2>1. /\ scan' = [scan EXCEPT ![b] = s]
          /\ UNCHANGED <<remoteVars, queue, clone, pack, ckpt, stored, removed, hook>>
      BY <1>2 DEF ScanStale
    <2>0. t \in Branches
      BY <1>t, CheckpointBounds
    <2>. HIDE DEF t
    <2>2. s \in ScanStates /\ s.pc = "ready" /\ ~s.whole
      BY <1>n, <2>0 DEF ScanStates, NoScan
    <2>4. removed' \subseteq Known'
      BY <2>1, <1>t DEF Known
    <2>. HIDE DEF s
    <2>5. ScanHolds(s, stored')
      BY <2>2 DEF ScanHolds
    <2>. QED  BY <2>1, <2>2, <2>4, <2>5, <1>t, ScanStepKeeps
  <1>3. CASE Plan(b)
    <2>1. PICK full \in BOOLEAN :
            /\ ~full => Usable(ckpt[b], clone.at)
            /\ scan' = [scan EXCEPT ![b] = [@ EXCEPT
                 !.pc = "planned", !.head = clone.at, !.full = full, !.pack = pack,
                 !.base = IF full THEN NoCommit ELSE ckpt[b].at,
                 !.known = IF full THEN 0 ELSE ckpt[b].pack,
                 !.whole = full \/ ckpt[b].whole]]
      BY <1>3 DEF Plan
    <2>2. UNCHANGED <<remoteVars, queue, clone, pack, ckpt, stored, removed, hook>>
      BY <1>3 DEF Plan
    <2>3. PICK base \in Trees, known \in 0..MaxPack, whole \in BOOLEAN :
            /\ base = (IF full THEN NoCommit ELSE ckpt[b].at)
            /\ known = (IF full THEN 0 ELSE ckpt[b].pack)
            /\ whole = (full \/ ckpt[b].whole)
      BY <1>t, CommitsAreTrees, CheckpointBounds
    <2>4. known \in {0, pack} /\ (~full /\ whole =>
              Covered(base, stored) /\ (known # 0 => PackCovered(base, known, stored)))
      BY <2>1, <2>3 DEF Vouched, RowHolds, Usable
    <2>w. pack \in 0..MaxPack
      BY <1>t, CheckpointBounds
    <2>5. PICK s \in ScanStates :
            /\ scan' = [scan EXCEPT ![b] = s] /\ s.pc = "planned" /\ s.head = clone.at
            /\ s.full = full /\ s.pack = pack /\ s.base = base /\ s.known = known
            /\ s.whole = whole
      <3>1. PICK h \in Trees, p \in 0..MaxPack, o \in ScanStates :
               h = clone.at /\ p = pack /\ o = scan[b]
        BY <1>t, <2>w
      <3>2. PICK s : s = [o EXCEPT !.pc = "planned", !.head = h, !.full = full, !.pack = p,
                              !.base = base, !.known = known, !.whole = whole]
        OBVIOUS
      <3>3. s \in ScanStates /\ s.pc = "planned" /\ s.head = h /\ s.full = full
            /\ s.pack = p /\ s.base = base /\ s.known = known /\ s.whole = whole
        BY <3>2 DEF ScanStates
      <3>4. scan' = [scan EXCEPT ![b] = s]
        BY <2>1, <2>3, <3>1, <3>2
      <3>. QED  BY <3>1, <3>3, <3>4
    <2>7. ScanHolds(s, stored')
      BY <2>2, <2>4, <2>5 DEF ScanHolds, Covered, PackCovered
    <2>8. removed' \subseteq Known'
      BY <2>2, <1>t DEF Known
    <2>. QED  BY <2>2, <2>4, <2>5, <2>7, <2>8, <1>t, ScanStepKeeps
  <1>4. CASE Walk(b)
    <2>. DEFINE whole == scan[b].whole /\ (scan[b].full => clone.at = scan[b].head)
                s == [scan[b] EXCEPT !.pc = "stored", !.whole = whole]
    <2>1. /\ scan[b].pc = "planned"
          /\ stored' = stored \cup With(Read(scan[b]), scan[b].pack)
          /\ removed' = Cleared(scan[b].label, Read(scan[b]))
          /\ scan' = [scan EXCEPT ![b] = s]
          /\ UNCHANGED <<remoteVars, queue, clone, pack, ckpt, hook>>
      BY <1>4 DEF Walk
    <2>w. whole \in BOOLEAN /\ (whole => scan[b].whole) /\ (whole /\ scan[b].full => clone.at = scan[b].head)
      OBVIOUS
    <2>. HIDE DEF whole
    <2>2. /\ s \in ScanStates /\ s.pc = "stored" /\ s.head = scan[b].head /\ s.full = scan[b].full
          /\ s.pack = scan[b].pack /\ s.base = scan[b].base /\ s.known = scan[b].known
          /\ s.whole = whole
      BY <1>t, <2>w DEF ScanStates
    <2>. HIDE DEF s
    <2>3. /\ scan[b].pack \in 1..MaxPack /\ scan[b].head \in Commits /\ scan[b].head \in Trees
          /\ scan[b].known \in {0, scan[b].pack} /\ scan[b].base \in Trees
      BY <2>1, <1>t, CommitsAreTrees DEF LocalsOK, ScanStates
    <2>4. Read(scan[b]) \subseteq Files \X (1..MaxVersion)
      BY <2>3, <1>t, FilesRead DEF Read
    <2>5. stored \subseteq stored' /\ stored' \subseteq Files \X (1..MaxVersion) \X (1..MaxPack)
      BY <2>1, <2>3, <2>4, <1>t, WithTyped
    <2>6. removed' \subseteq Known'
      BY <2>1, <2>5, <1>t DEF Cleared, Known, FilesOf
    <2>7. ASSUME whole PROVE /\ Covered(scan[b].head, stored')
                             /\ scan[b].full => PackCovered(scan[b].head, scan[b].pack, stored')
                             /\ ~scan[b].full /\ scan[b].known # 0
                                   => PackCovered(scan[b].head, scan[b].known, stored')
      <3>1. CASE scan[b].full
        <4>1. stored' = stored \cup With(Present(scan[b].head), scan[b].pack)
          BY <2>1, <2>7, <2>w, <3>1 DEF Read
        <4>. QED  BY <3>1, <4>1, <2>3, FullCovers
      <3>2. CASE ~scan[b].full
        <4>1. stored' = stored \cup With(Diff(scan[b].base, scan[b].head), scan[b].pack)
          BY <2>1, <3>2 DEF Read
        <4>2. Covered(scan[b].base, stored) /\ (scan[b].known # 0 => PackCovered(scan[b].base, scan[b].known, stored))
          BY <2>1, <2>7, <2>w, <3>2 DEF Vouched, ScanHolds
        <4>. QED  BY <3>2, <4>1, <4>2, <2>3, DiffCovers
      <3>. QED  BY <3>1, <3>2
    <2>8. ScanHolds(s, stored')
      BY <2>2, <2>7 DEF ScanHolds
    <2>. QED  BY <2>1, <2>2, <2>3, <2>5, <2>6, <2>8, <1>t, ScanStepKeeps
  <1>5. CASE MarkRemoved(b)
    <2>. DEFINE s == [scan[b] EXCEPT !.pc = "marked"]
    <2>1. /\ scan[b].pc = "stored" /\ scan' = [scan EXCEPT ![b] = s]
          /\ removed' = IF scan[b].label = Default THEN removed \cup Gone(scan[b]) ELSE removed
          /\ UNCHANGED <<remoteVars, queue, clone, pack, ckpt, stored, hook>>
      BY <1>5 DEF MarkRemoved
    <2>2. /\ s \in ScanStates /\ s.pc = "marked" /\ s.head = scan[b].head /\ s.full = scan[b].full
          /\ s.pack = scan[b].pack /\ s.base = scan[b].base /\ s.known = scan[b].known
          /\ s.whole = scan[b].whole
      BY <1>t DEF ScanStates
    <2>. HIDE DEF s
    <2>3. /\ scan[b].pack \in 1..MaxPack /\ scan[b].head \in Commits
          /\ scan[b].known \in {0, scan[b].pack}
      BY <2>1 DEF LocalsOK
    <2>4. ScanHolds(scan[b], stored)
      BY DEF Vouched
    <2>5. ScanHolds(s, stored')
      BY <2>1, <2>2, <2>4 DEF ScanHolds, Covered, PackCovered
    <2>6. removed' \subseteq Known'
      BY <2>1, <1>t DEF Known, Gone
    <2>. QED  BY <2>1, <2>2, <2>3, <2>5, <2>6, <1>t, ScanStepKeeps
  <1>6. CASE Abort(b) \/ Stamp(b)
    <2>1. /\ scan' = [scan EXCEPT ![b] = NoScan]
          /\ UNCHANGED <<remoteVars, queue, clone, pack, stored, removed, hook>>
      BY <1>6 DEF Abort, Stamp, Final
    <2>2. ScanHolds(NoScan, stored')
      BY <1>n DEF ScanHolds, NoScan
    <2>3. removed' \subseteq Known'
      BY <2>1, <1>t DEF Known
    <2>4. CASE Abort(b)
      <3>1. ckpt' = ckpt
        BY <2>4 DEF Abort
      <3>. QED  BY <2>1, <2>2, <2>3, <3>1, <1>t, <1>n, ScanStepKeeps
    <2>5. CASE Stamp(b)
      <3>. DEFINE r == [at |-> scan[b].head, whole |-> scan[b].whole,
                        pack |-> IF scan[b].full THEN scan[b].pack ELSE scan[b].known]
      <3>1. scan[b].pc = "marked" /\ ckpt' = [ckpt EXCEPT ![scan[b].label] = r]
        BY <2>5 DEF Stamp, Final, SetWatermark
      <3>2. scan[b].label \in Branches /\ r \in [at : Trees, pack : 0..MaxPack, whole : BOOLEAN]
        BY <1>t DEF ScanStates
      <3>3. RowHolds(r, stored)
        <4>1. ScanHolds(scan[b], stored)
          BY DEF Vouched
        <4>. QED  BY <3>1, <4>1 DEF RowHolds, ScanHolds
      <3>. HIDE DEF r
      <3>4. RowHolds(r, stored')
        BY <3>3, <2>1 DEF RowHolds, Covered, PackCovered
      <3>. QED  BY <2>1, <2>2, <2>3, <3>1, <3>2, <3>4, <1>t, <1>n, ScanStepKeeps
    <2>. QED  BY <1>6, <2>4, <2>5
  <1>. QED  BY <1>1, <1>2, <1>3, <1>4, <1>5, <1>6

\* A webhook scan that starts, ends, or fails with part of its findings stored.
LEMMA WebhookScanKeeps ==
    ASSUME CheckpointIInv,
           (\E m \in queue : StartWebhookScan(m)) \/ FinishWebhookScan \/ FailWebhookScan
    PROVE  CheckpointTypeOK' /\ LocalsOK' /\ Vouched'
  <1>. USE DEF CheckpointIInv
  <1>1. ASSUME NEW m \in queue, StartWebhookScan(m)
        PROVE  CheckpointTypeOK' /\ LocalsOK' /\ Vouched'
    <2>1. /\ m \in [branch : Branches, base : Commits, head : Commits]
          /\ m.branch \in Branches /\ m.base \in Trees /\ m.head \in Commits /\ m.head \in Trees
      BY CommitsAreTrees DEF CheckpointTypeOK
    <2>2. PICK full \in BOOLEAN :
            hook' = [pc |-> "scanning", branch |-> m.branch, head |-> m.head,
                     base |-> IF full THEN NoCommit ELSE m.base, full |-> full, pack |-> pack]
      BY <1>1 DEF StartWebhookScan
    <2>3. /\ queue' = queue \ {m} /\ clone' = [on |-> "HEAD", at |-> m.head]
          /\ UNCHANGED <<tip, pack, ckpt, stored, removed, scan>>
      BY <1>1 DEF StartWebhookScan, remoteVars
    <2>4. hook' \in HookStates /\ hook'.pack \in 1..MaxPack /\ hook'.head \in Commits
      <3>1. PICK base \in Trees : base = (IF full THEN NoCommit ELSE m.base)
        BY <2>1, CommitsAreTrees
      <3>2. pack \in 1..MaxPack /\ pack \in 0..MaxPack
        BY CheckpointBounds DEF LocalsOK
      <3>. QED  BY <2>1, <2>2, <3>1, <3>2 DEF HookStates
    <2>5. CheckpointTypeOK'
      BY <2>1, <2>3 DEF CheckpointTypeOK, Known
    <2>6. LocalsOK'
      BY <2>3, <2>4 DEF LocalsOK
    <2>7. Vouched'
      BY <2>3 DEF Vouched, RowHolds, ScanHolds
    <2>. QED  BY <2>5, <2>6, <2>7
  <1>2. ASSUME FinishWebhookScan \/ FailWebhookScan
        PROVE  CheckpointTypeOK' /\ LocalsOK' /\ Vouched'
    <2>1. PICK F \in SUBSET Read(hook) :
            /\ HookStores(F)
            /\ ckpt' = ckpt \/ (FinishWebhookScan /\ F = Read(hook))
      BY <1>2 DEF FinishWebhookScan, FailWebhookScan
    <2>2. /\ hook.pc = "scanning" /\ hook' = NoHook
          /\ stored' = stored \cup With(F, hook.pack) /\ removed' = Cleared(hook.branch, F)
          /\ UNCHANGED <<tip, queue, clone, pack, scan>>
      BY <2>1 DEF HookStores, remoteVars
    <2>3. /\ hook.pack \in 1..MaxPack /\ hook.head \in Commits /\ hook.head \in Trees
          /\ hook.base \in Trees /\ hook.branch \in Branches /\ clone.at \in Trees
      BY <2>2, CommitsAreTrees DEF LocalsOK, HookStates, CheckpointTypeOK
    <2>4. Read(hook) \subseteq Files \X (1..MaxVersion)
      BY <2>3, FilesRead DEF Read
    <2>5. stored \subseteq stored' /\ stored' \subseteq Files \X (1..MaxVersion) \X (1..MaxPack)
      BY <2>2, <2>3, <2>4, WithTyped DEF CheckpointTypeOK
    <2>6. removed' \subseteq Known'
      BY <2>2, <2>5, CoverGrows DEF Cleared, CheckpointTypeOK
    <2>7. ckpt' = ckpt \/ \E r \in [at : Trees, pack : 0..MaxPack, whole : BOOLEAN] :
                            ckpt' = [ckpt EXCEPT ![hook.branch] = r] /\ RowHolds(r, stored')
      <3>. SUFFICES ASSUME FinishWebhookScan, F = Read(hook)
                    PROVE  \E r \in [at : Trees, pack : 0..MaxPack, whole : BOOLEAN] :
                            ckpt' = [ckpt EXCEPT ![hook.branch] = r] /\ RowHolds(r, stored')
        BY <2>1
      <3>1. PICK whole \in BOOLEAN :
              whole = (IF hook.full THEN clone.at = hook.head
                       ELSE ckpt[hook.branch].whole /\ ckpt[hook.branch].at = hook.base)
        BY <2>3 DEF CheckpointTypeOK
      <3>2. PICK r : r = [at |-> hook.head, pack |-> 0, whole |-> whole]
        OBVIOUS
      <3>3. ckpt' = [ckpt EXCEPT ![hook.branch] = r]
        BY <3>1, <3>2 DEF FinishWebhookScan, SetWatermark
      <3>4. r \in [at : Trees, pack : 0..MaxPack, whole : BOOLEAN]
        BY <2>3, <3>2, CheckpointBounds
      <3>5. ASSUME whole PROVE Covered(hook.head, stored')
        <4>1. CASE hook.full
          <5>1. stored' = stored \cup With(Present(hook.head), hook.pack)
            BY <2>2, <3>1, <3>5, <4>1 DEF Read
          <5>. QED  BY <2>3, <5>1, FullCovers
        <4>2. CASE ~hook.full
          <5>1. stored' = stored \cup With(Diff(hook.base, hook.head), hook.pack)
            BY <2>2, <4>2 DEF Read
          <5>2. Covered(hook.base, stored)
            BY <2>3, <3>1, <3>5, <4>2 DEF Vouched, RowHolds
          <5>. QED  BY <2>3, <5>1, <5>2, DiffCovers
        <4>. QED  BY <4>1, <4>2
      <3>6. RowHolds(r, stored')
        BY <3>2, <3>5 DEF RowHolds
      <3>. QED  BY <3>3, <3>4, <3>6
    <2>8. ckpt' \in [Branches -> [at : Commits \cup {NoCommit}, pack : 0..MaxPack, whole : BOOLEAN]]
      BY <2>3, <2>7, CommitsAreTrees DEF CheckpointTypeOK
    <2>9. CheckpointTypeOK'
      BY <2>2, <2>5, <2>6, <2>8 DEF CheckpointTypeOK
    <2>10. LocalsOK'
      <3>1. NoHook \in HookStates /\ NoHook.pc # "scanning"
        BY CheckpointBounds, CommitsAreTrees DEF NoHook, HookStates
      <3>. QED  BY <2>2, <3>1 DEF LocalsOK
    <2>11. \A o \in Branches : ScanHolds(scan[o], stored')
      BY <2>5, CoverGrows DEF Vouched, ScanHolds
    <2>12. \A o \in Branches : RowHolds(ckpt'[o], stored')
      <3>1. \A o \in Branches : RowHolds(ckpt[o], stored')
        BY <2>5, CoverGrows DEF Vouched, RowHolds
      <3>. QED  BY <2>3, <2>7, <3>1 DEF CheckpointTypeOK
    <2>. QED  BY <2>2, <2>9, <2>10, <2>11, <2>12 DEF Vouched
  <1>. QED  BY <1>1, <1>2

\* Who is alone was not disturbed by the step, or made it.
LEMMA AloneKeeps ==
    ASSUME CheckpointIInv,
           \/ \E b \in Branches :
                 \/ \E t \in Branches : Refresh(b, t)
                 \/ ScanStale(b) \/ Plan(b) \/ Walk(b) \/ MarkRemoved(b) \/ Stamp(b) \/ Abort(b)
           \/ \E m \in queue : StartWebhookScan(m)
           \/ FinishWebhookScan \/ FailWebhookScan
    PROVE  AloneHolds'
  <1>. USE DEF CheckpointIInv
  <1>t. /\ stored \subseteq Files \X (1..MaxVersion) \X (1..MaxPack) /\ removed \subseteq Known
        /\ Known \subseteq Files /\ scan \in [Branches -> ScanStates] /\ clone.at \in Trees
    BY CommitsAreTrees DEF CheckpointTypeOK, LocalsOK, Known, FilesOf
  <1>1. CASE \/ \E b \in Branches : (\E t \in Branches : Refresh(b, t)) \/ ScanStale(b)
             \/ \E m \in queue : StartWebhookScan(m)
             \/ FinishWebhookScan \/ FailWebhookScan
    <2>1. alone' = {}
      BY <1>1 DEF Refresh, ScanStale, StartWebhookScan, FinishWebhookScan, FailWebhookScan,
                  HookStores
    <2>. QED  BY <2>1 DEF AloneHolds
  <1>2. ASSUME NEW b \in Branches, scan[b].pc # "idle" PROVE alone \subseteq {b}
    BY <1>2 DEF AloneHolds
  <1>3. ASSUME NEW b \in Branches, Plan(b) PROVE AloneHolds'
    <2>1. /\ alone' \subseteq {b} /\ hook' = hook /\ clone' = clone
          /\ b \in alone' => hook.pc = "idle" /\ \A o \in Branches \ {b} : scan[o].pc = "idle"
      BY <1>3 DEF Plan
    <2>2. /\ \A o \in Branches \ {b} : scan'[o] = scan[o]
          /\ scan'[b].pc = "planned" /\ scan'[b].head = clone.at
      <3>1. PICK full \in BOOLEAN :
              scan' = [scan EXCEPT ![b] = [@ EXCEPT
                 !.pc = "planned", !.head = clone.at, !.full = full, !.pack = pack,
                 !.base = IF full THEN NoCommit ELSE ckpt[b].at,
                 !.known = IF full THEN 0 ELSE ckpt[b].pack,
                 !.whole = full \/ ckpt[b].whole]]
        BY <1>3 DEF Plan
      <3>2. PICK base, known, whole :
              /\ base = (IF full THEN NoCommit ELSE ckpt[b].at)
              /\ known = (IF full THEN 0 ELSE ckpt[b].pack)
              /\ whole = (full \/ ckpt[b].whole)
        OBVIOUS
      <3>3. PICK s : s = [scan[b] EXCEPT
                 !.pc = "planned", !.head = clone.at, !.full = full, !.pack = pack,
                 !.base = base, !.known = known, !.whole = whole]
        OBVIOUS
      <3>4. s.pc = "planned" /\ s.head = clone.at
        BY <1>t, <3>3 DEF ScanStates
      <3>5. scan' = [scan EXCEPT ![b] = s]
        BY <3>1, <3>2, <3>3
      <3>. QED  BY <1>t, <3>4, <3>5
    <2>. QED  BY <2>1, <2>2 DEF AloneHolds
  <1>4. ASSUME NEW b \in Branches, Walk(b) PROVE AloneHolds'
    <2>1. /\ scan[b].pc = "planned" /\ hook' = hook /\ clone' = clone /\ alone' = alone
          /\ removed' = Cleared(scan[b].label, Read(scan[b]))
      BY <1>4 DEF Walk
    <2>2. /\ \A o \in Branches \ {b} : scan'[o] = scan[o]
          /\ scan'[b].pc = "stored" /\ scan'[b].head = scan[b].head
          /\ scan'[b].full = scan[b].full /\ scan'[b].label = scan[b].label
      BY <1>4, <1>t DEF Walk, ScanStates
    <2>3. ASSUME clone.at = scan[b].head, scan[b].full, scan[b].label = Default
          PROVE  \A f \in removed' : scan[b].head[f] = 0
      <3>1. removed' = removed \ FilesOf(Present(clone.at))
        BY <2>1, <2>3 DEF Cleared, Read
      <3>. QED  BY <1>t, <2>3, <3>1, FilesPresent
    <2>. QED  BY <1>2, <2>1, <2>2, <2>3 DEF AloneHolds
  <1>5. ASSUME NEW b \in Branches, MarkRemoved(b) PROVE AloneHolds'
    <2>1. /\ scan[b].pc = "stored" /\ hook' = hook /\ clone' = clone /\ alone' = alone
          /\ stored' = stored
          /\ removed' = IF scan[b].label = Default THEN removed \cup Gone(scan[b]) ELSE removed
      BY <1>5 DEF MarkRemoved
    <2>2. /\ \A o \in Branches \ {b} : scan'[o] = scan[o]
          /\ scan'[b].pc = "marked" /\ scan'[b].head = scan[b].head
          /\ scan'[b].full = scan[b].full /\ scan'[b].label = scan[b].label
      BY <1>5, <1>t DEF MarkRemoved, ScanStates
    <2>3. ASSUME b \in alone, scan[b].full, scan[b].label = Default
          PROVE  removed' = {f \in Known : scan[b].head[f] = 0}
      <3>1. clone.at = scan[b].head /\ \A f \in removed : scan[b].head[f] = 0
        BY <2>1, <2>3 DEF AloneHolds
      <3>2. removed' = removed \cup {f \in Known : scan[b].head[f] = 0}
        BY <2>1, <2>3, <3>1 DEF Gone
      <3>. QED  BY <1>t, <3>1, <3>2
    <2>. QED  BY <1>2, <2>1, <2>2, <2>3 DEF AloneHolds, Known
  <1>6. ASSUME NEW b \in Branches, Stamp(b) \/ Abort(b) PROVE AloneHolds'
    <2>1. scan[b].pc # "idle" /\ alone' = alone \ {b}
      BY <1>6 DEF Stamp, Final, Abort
    <2>. QED  BY <1>2, <2>1 DEF AloneHolds
  <1>. QED  BY <1>1, <1>3, <1>4, <1>5, <1>6

LEMMA CheckpointNextIInv ==
    CheckpointIInv /\ [CheckpointNext]_checkpointVars => CheckpointIInv'
  <1>. SUFFICES ASSUME CheckpointIInv, [CheckpointNext]_checkpointVars PROVE CheckpointIInv'
    OBVIOUS
  <1>1. CASE UNCHANGED checkpointVars
    <2>1. UNCHANGED <<tip, queue, clone, pack, ckpt, stored, removed, scan, hook, alone>>
      BY <1>1 DEF checkpointVars, remoteVars
    <2>2. CheckpointTypeOK'
      BY <2>1 DEF CheckpointIInv, CheckpointTypeOK, Known
    <2>3. LocalsOK'
      BY <2>1 DEF CheckpointIInv, LocalsOK
    <2>4. Vouched'
      BY <2>1 DEF CheckpointIInv, Vouched
    <2>5. AloneHolds'
      BY <2>1 DEF CheckpointIInv, AloneHolds, Known
    <2>. QED  BY <2>2, <2>3, <2>4, <2>5 DEF CheckpointIInv
  <1>2. CASE \/ \E b \in Branches, f \in Files, v \in Versions : Push(b, f, v)
             \/ \E m \in queue : LoseWebhook(m)
             \/ ChangeRules
    BY <1>2, OutsideKeeps
  <1>3. ASSUME NEW b \in Branches,
               \/ \E t \in Branches : Refresh(b, t)
               \/ ScanStale(b) \/ Plan(b) \/ Walk(b) \/ MarkRemoved(b) \/ Stamp(b) \/ Abort(b)
        PROVE  CheckpointIInv'
    BY <1>3, RequestedScanKeeps, AloneKeeps DEF CheckpointIInv
  <1>4. CASE (\E m \in queue : StartWebhookScan(m)) \/ FinishWebhookScan \/ FailWebhookScan
    BY <1>4, WebhookScanKeeps, AloneKeeps DEF CheckpointIInv
  <1>. QED  BY <1>1, <1>2, <1>3, <1>4 DEF CheckpointNext

LEMMA CheckpointInvariant == CheckpointSpec => []CheckpointIInv
  BY CheckpointInitIInv, CheckpointNextIInv, PTL DEF CheckpointSpec

-----------------------------------------------------------------------------
(* What follows. *)

\* The variables have their types, and an unbroken watermark means that every file
\* of its commit was scanned and stored (the incremental base of scan_repository and
\* the stamp of its final commit), for any number of branches, files, packs, pushes
\* and scans.
THEOREM WatermarksCover == CheckpointSpec => []CheckpointInv
  <1>1. CheckpointIInv => CheckpointInv
    BY DEF CheckpointIInv, CheckpointInv, Vouched, RowHolds, Covered, WatermarkCovers
  <1>. QED  BY <1>1, CheckpointInvariant, PTL

\* A watermark that names a rule pack was earned with that pack, file by file: a
\* webhook scan, which reads only its diff, leaves the pack NULL.
THEOREM PacksAreHonest == CheckpointSpec => []PackIsHonest
  <1>1. CheckpointIInv => PackIsHonest
    BY DEF CheckpointIInv, Vouched, RowHolds, PackCovered, PackIsHonest
  <1>. QED  BY <1>1, CheckpointInvariant, PTL

\* When a full scan of the default branch that ran alone stamps its watermark, the
\* findings marked removed_from_code are exactly those whose file is not in its commit.
THEOREM MarkersAreThoseOfTheCommit == CheckpointSpec => FullScanSetsMarkers
  <1>1. CheckpointIInv /\ [CheckpointNext]_checkpointVars
          => [\A b \in alone : Stamp(b) /\ scan[b].full /\ scan[b].label = Default =>
                 removed' = {f \in Known : scan[b].head[f] = 0}]_checkpointVars
    <2>. SUFFICES ASSUME CheckpointIInv, NEW b \in alone, Stamp(b), scan[b].full,
                         scan[b].label = Default
                  PROVE  removed' = {f \in Known : scan[b].head[f] = 0}
      OBVIOUS
    <2>1. scan[b].pc = "marked" /\ removed' = removed
      BY DEF Stamp, Final
    <2>. QED  BY <2>1 DEF CheckpointIInv, AloneHolds
  <1>. QED  BY <1>1, CheckpointInvariant, PTL DEF CheckpointSpec, FullScanSetsMarkers
=============================================================================
