---------------------- MODULE NotificationRetriesProofs ----------------------
(***************************************************************************)
(* Theorems about the notification retry queue, for any number of rows, of *)
(* overlapping runs of the task, and any retry budget and batch size: what *)
(* it keeps invariant, and that it implements NotificationPromise.         *)
(***************************************************************************)
EXTENDS NotificationRetries, FiniteSetTheorems, TLAPS

\* The rank of a due row is a number.
LEMMA RankIsNat ==
    ASSUME NEW S \in SUBSET Rows
    PROVE  Cardinality(S) \in Nat
  BY RowsFinite, FS_Subset, FS_CardinalityType

\* Withdrawing rows keeps ranks, and makes no row due.
LEMMA WithoutRowsFacts ==
    ASSUME NEW R \in SUBSET Rows
    PROVE  /\ WithoutRows(R) \in [Rows -> Nat]
           /\ \A r \in Rows : WithoutRows(R)[r] > 0 => r \in Due \ R
  <1>1. \A r \in Rows : {q \in Due \ R : place[q] <= place[r]} \in SUBSET Rows
    BY DEF Due
  <1>2. \A r \in Rows : Cardinality({q \in Due \ R : place[q] <= place[r]}) \in Nat
    BY <1>1, RankIsNat
  <1>. QED  BY <1>2 DEF WithoutRows

-----------------------------------------------------------------------------
(* Type correctness. *)

LEMMA InitTypeOK == Init => TypeOK
  BY LimitsNat DEF Init, TypeOK, Statuses, Terminal, Objects, Unloaded

LEMMA NextTypeOK == TypeOK /\ [Next]_vars => TypeOK'
  <1>. SUFFICES ASSUME TypeOK, [Next]_vars
                PROVE  TypeOK'
    OBVIOUS
  <1>u. Unloaded \in Objects
    BY DEF Unloaded, Objects, Statuses, Terminal
  <1>c. ASSUME NEW w \in Retriers, NEW r \in todo[w], NEW s \in Statuses,
               NEW a \in Nat, NEW b \in BOOLEAN, Conclude(w, r, s, a, b)
        PROVE  /\ mem' \in [Retriers -> [Rows -> Objects]]
               /\ todo' \in [Retriers -> SUBSET Rows]
               /\ todo' = [todo EXCEPT ![w] = @ \ {r}]
    <2>. DEFINE m == [mem[w][r] EXCEPT !.status = s, !.attempts = a, !.audit = b]
    <2>1. r \in Rows /\ mem[w] \in [Rows -> Objects] /\ mem[w][r] \in Objects
      BY DEF TypeOK
    <2>2. m \in Objects
      BY <2>1 DEF Objects
    <2>3. mem' = [mem EXCEPT ![w] = [mem[w] EXCEPT ![r] = m]]
      BY <1>c DEF Conclude
    <2>4. mem' \in [Retriers -> [Rows -> Objects]]
      <3>. HIDE DEF m
      <3>. QED  BY <2>1, <2>2, <2>3 DEF TypeOK
    <2>. QED  BY <1>c, <2>4 DEF Conclude, TypeOK
  <1>1. ASSUME NEW r \in Rows, PersistFailure(r) PROVE TypeOK'
    BY <1>1 DEF TypeOK, PersistFailure, runVars, Statuses, Terminal
  <1>2. ASSUME NEW r \in Rows, BecomeDue(r) PROVE TypeOK'
    <2>1. Cardinality(Due) \in Nat
      BY RankIsNat DEF Due
    <2>. QED  BY <1>2, <2>1 DEF TypeOK, BecomeDue, runVars
  <1>3. ASSUME NEW r \in Rows, DeleteConfig(r) PROVE TypeOK'
    BY <1>3 DEF TypeOK, DeleteConfig, runVars
  <1>4. ASSUME NEW w \in Retriers, Select(w) PROVE TypeOK'
    <2>1. mem' \in [Retriers -> [Rows -> Objects]]
      BY <1>4, <1>u DEF TypeOK, Select, Objects, Statuses
    <2>. QED  BY <1>4, <2>1 DEF TypeOK, Select, rowVars
  <1>n. ASSUME NEW w \in Retriers, NEW r \in Rows, IsNext(w, r)
        PROVE  r \in todo[w] /\ mem[w][r].attempts \in Nat
    BY <1>n DEF IsNext, TypeOK, Objects
  <1>5. ASSUME NEW w \in Retriers, NEW r \in Rows, SkipUnbound(w, r) PROVE TypeOK'
    <2>1. r \in todo[w] /\ mem[w][r].attempts \in Nat
      BY <1>5, <1>n DEF SkipUnbound
    <2>2. Conclude(w, r, "dead_lettered", mem[w][r].attempts, FALSE)
      BY <1>5 DEF SkipUnbound
    <2>3. /\ mem' \in [Retriers -> [Rows -> Objects]]
          /\ todo' \in [Retriers -> SUBSET Rows]
          /\ todo' = [todo EXCEPT ![w] = @ \ {r}]
      BY <2>1, <2>2, <1>c DEF Statuses, Terminal
    <2>. QED  BY <1>5, <2>1, <2>3 DEF TypeOK, SkipUnbound, rowVars
  <1>6. ASSUME NEW w \in Retriers, NEW r \in Rows, LookUp(w, r) PROVE TypeOK'
    <2>1. r \in todo[w] /\ mem[w][r].attempts \in Nat
      BY <1>6, <1>n DEF LookUp
    <2>2. CASE ~config[r] \/ r \in Garbled
      <3>1. Conclude(w, r, "dead_lettered", mem[w][r].attempts, FALSE)
        BY <1>6, <2>2 DEF LookUp
      <3>2. /\ mem' \in [Retriers -> [Rows -> Objects]]
            /\ todo' \in [Retriers -> SUBSET Rows]
            /\ todo' = [todo EXCEPT ![w] = @ \ {r}]
        BY <2>1, <3>1, <1>c DEF Statuses, Terminal
      <3>3. /\ held' = [held EXCEPT ![w] = @ \cup dirty[w]]
            /\ dirty' = [dirty EXCEPT ![w] = {r}]
            /\ phase[w] = "loop"
            /\ UNCHANGED <<rowVars, crashes, phase>>
        BY <1>6, <2>2 DEF LookUp
      <3>. QED  BY <2>1, <3>2, <3>3 DEF TypeOK, rowVars
    <2>3. CASE ~(~config[r] \/ r \in Garbled)
      <3>1. /\ held' = [held EXCEPT ![w] = @ \cup dirty[w]]
            /\ dirty' = [dirty EXCEPT ![w] = {}]
            /\ phase' = [phase EXCEPT ![w] = "sending"]
            /\ UNCHANGED <<rowVars, crashes, todo, mem>>
        BY <1>6, <2>3 DEF LookUp
      <3>. QED  BY <3>1 DEF TypeOK, rowVars
    <2>. QED  BY <2>2, <2>3
  <1>7. ASSUME NEW w \in Retriers, NEW r \in Rows, NEW o \in Outcomes, Send(w, r, o)
        PROVE  TypeOK'
    <2>1. PICK s \in Statuses, b \in BOOLEAN : Conclude(w, r, s, mem[w][r].attempts + 1, b)
      BY <1>7 DEF Send, Statuses, Terminal
    <2>2. r \in todo[w] /\ mem[w][r].attempts + 1 \in Nat
      BY <1>7, <1>n DEF Send
    <2>3. /\ mem' \in [Retriers -> [Rows -> Objects]]
          /\ todo' \in [Retriers -> SUBSET Rows]
          /\ todo' = [todo EXCEPT ![w] = @ \ {r}]
      BY <2>1, <2>2, <1>c
    <2>. QED  BY <1>7, <2>2, <2>3 DEF TypeOK, Send, rowVars
  <1>8. ASSUME NEW w \in Retriers, End(w)
        PROVE  /\ phase' \in [Retriers -> {"idle", "loop", "sending"}]
               /\ todo' \in [Retriers -> SUBSET Rows]
               /\ mem' \in [Retriers -> [Rows -> Objects]]
               /\ dirty' \in [Retriers -> SUBSET Rows]
               /\ held' \in [Retriers -> SUBSET Rows]
               /\ \A v \in Retriers :
                    /\ phase'[v] = "idle" => todo'[v] = {} /\ dirty'[v] = {} /\ held'[v] = {}
                    /\ todo'[v] \cap (dirty'[v] \cup held'[v]) = {}
                    /\ dirty'[v] \cap held'[v] = {}
    BY <1>8, <1>u DEF TypeOK, End
  <1>9. ASSUME NEW w \in Retriers, Commit(w) PROVE TypeOK'
    <2>1. dirty[w] \cup held[w] \in SUBSET Rows
      BY DEF TypeOK
    <2>2. place' \in [Rows -> Nat]
      BY <1>9, <2>1, WithoutRowsFacts DEF Commit
    <2>3. /\ status' \in [Rows -> Statuses \cup {"none"}]
          /\ attempts' \in [Rows -> Nat]
          /\ version' \in [Rows -> Nat]
          /\ audited' \subseteq Rows
      BY <1>9, <2>1 DEF Commit, TypeOK, Objects
    <2>. QED  BY <1>9, <1>8, <2>2, <2>3 DEF Commit, TypeOK
  <1>10. ASSUME NEW w \in Retriers, Collide(w) PROVE TypeOK'
    BY <1>10, <1>8 DEF Collide, TypeOK, rowVars
  <1>11. ASSUME NEW w \in Retriers, Crash(w) PROVE TypeOK'
    BY <1>11, <1>8 DEF Crash, TypeOK, rowVars
  <1>12. CASE UNCHANGED vars
    BY <1>12 DEF TypeOK, vars, rowVars, runVars
  <1>. QED
    BY <1>1, <1>2, <1>3, <1>4, <1>5, <1>6, <1>7, <1>9, <1>10, <1>11, <1>12 DEF Next, Treat

\* Type correctness of the retry queue, and: a run has rows and locks only
\* while it is running (_process_notification_retries).
THEOREM RetryTypeCorrect == Spec => []TypeOK
  <1>1. Init => TypeOK
    BY InitTypeOK
  <1>2. TypeOK /\ [Next]_vars => TypeOK'
    BY NextTypeOK
  <1>. QED  BY <1>1, <1>2, PTL DEF Spec

-----------------------------------------------------------------------------
(* The inductive invariant. *)

\* DeadLetterIsEarned belongs to it: a row on disk repeats a verdict that was
\* justified in memory when it was committed.
RetryIInv == RetryInv /\ DeadLetterIsEarned

LEMMA InitRetryIInv == Init => RetryIInv
  BY DEF Init, RetryIInv, RetryInv, LocksExclusive, CurrentIsPending, VerdictsJustified, Changed,
         BudgetKept, DueIsPending, Due, NoneIsFresh, DeadLetterIsEarned

\* A run that ends leaves every part of the invariant to the others.
LEMMA EndKeepsRetryIInv ==
    ASSUME TypeOK, RetryIInv, NEW w \in Retriers, End(w), UNCHANGED rowVars
    PROVE  RetryIInv'
  <1>. USE DEF TypeOK, RetryIInv, RetryInv, rowVars, End
  <1>1. LocksExclusive'  BY DEF LocksExclusive
  <1>2. CurrentIsPending'  BY DEF CurrentIsPending, Changed
  <1>3. VerdictsJustified'  BY DEF VerdictsJustified, Changed, BudgetSpent, Hopeless
  <1>4. /\ BudgetKept' /\ DueIsPending' /\ NoneIsFresh' /\ DeadLetterIsEarned'
    BY DEF BudgetKept, DueIsPending, Due, NoneIsFresh, DeadLetterIsEarned, Hopeless
  <1>. QED  BY <1>1, <1>2, <1>3, <1>4

\* Giving a verdict keeps it, if the verdict is justified and counts at most
\* one attempt.
LEMMA ConcludeKeepsRetryIInv ==
    ASSUME TypeOK, TypeOK', RetryIInv, NEW w \in Retriers, NEW r \in todo[w],
           NEW s \in Statuses, NEW a \in Nat, NEW b \in BOOLEAN,
           Conclude(w, r, s, a, b), UNCHANGED rowVars,
           a \in {mem[w][r].attempts, mem[w][r].attempts + 1},
           s = "dead_lettered" => BudgetSpent(a) \/ Hopeless(r),
           s = "pending_retry" => a \in 1..MaxRetryAttempts,
           \/ held' = held /\ dirty' = [dirty EXCEPT ![w] = @ \cup {r}]
           \/ /\ FlushRuns(w) /\ FlushMatches(w)
              /\ held' = [held EXCEPT ![w] = @ \cup dirty[w]]
              /\ dirty' = [dirty EXCEPT ![w] = {r}]
    PROVE  RetryIInv'
  <1>1. r \in Rows /\ mem[w][r] \in Objects
    BY DEF TypeOK
  <1>2. /\ mem'[w][r].version = mem[w][r].version
        /\ mem'[w][r].bound = mem[w][r].bound
        /\ mem'[w][r].status = s /\ mem'[w][r].attempts = a
        /\ \A v \in Retriers, q \in Rows : v # w \/ q # r => mem'[v][q] = mem[v][q]
    BY <1>1 DEF Conclude, TypeOK, Objects
  <1>3. /\ todo' = [todo EXCEPT ![w] = @ \ {r}]
        /\ Changed(w)' = Changed(w) \cup {r}
        /\ \A v \in Retriers \ {w} : Changed(v)' = Changed(v)
    BY DEF Conclude, TypeOK, Changed
  <1>4. r \notin held[w] /\ r \notin dirty[w]
    BY DEF TypeOK
  <1>5. UNCHANGED <<status, attempts, version, place, config>>
    BY DEF rowVars
  <1>6. LocksExclusive'
    <2>1. CASE held' = held
      <3>1. ASSUME NEW v \in Retriers, NEW q \in held[v]
            PROVE  mem'[v][q].version = mem[v][q].version
        <4>1. q \in Rows /\ (v # w \/ q # r)
          BY <3>1, <1>4 DEF TypeOK
        <4>. QED  BY <4>1, <1>2
      <3>. QED  BY <2>1, <3>1, <1>5 DEF LocksExclusive, RetryIInv, RetryInv
    <2>2. CASE /\ FlushRuns(w) /\ FlushMatches(w)
               /\ held' = [held EXCEPT ![w] = @ \cup dirty[w]]
      BY <2>2, <1>2, <1>4, <1>5
      DEF LocksExclusive, RetryIInv, RetryInv, FlushRuns, FlushMatches, TypeOK
    <2>. QED  BY <2>1, <2>2
  <1>7. CurrentIsPending'
    <2>1. ASSUME NEW v \in Retriers, NEW q \in todo'[v] \cup Changed(v)'
          PROVE  /\ mem'[v][q].version <= version'[q]
                 /\ mem'[v][q].version = version'[q] =>
                      /\ status'[q] = "pending_retry"
                      /\ q \in todo'[v] => mem'[v][q].attempts = attempts'[q]
                      /\ mem'[v][q].attempts \in {attempts'[q], attempts'[q] + 1}
      <3>1. CASE v = w /\ q = r
        BY <3>1, <1>1, <1>2, <1>3, <1>5 DEF CurrentIsPending, RetryIInv, RetryInv, TypeOK
      <3>2. CASE ~(v = w /\ q = r)
        <4>1. q \in Rows /\ q \in todo[v] \cup Changed(v) /\ (q \in todo'[v] => q \in todo[v])
          BY <3>2, <2>1, <1>3 DEF TypeOK, Changed
        <4>. QED  BY <3>2, <4>1, <1>2, <1>5 DEF CurrentIsPending, RetryIInv, RetryInv
      <3>. QED  BY <3>1, <3>2
    <2>. QED  BY <2>1 DEF CurrentIsPending
  <1>8. VerdictsJustified'
    <2>1. ASSUME NEW v \in Retriers, NEW q \in todo'[v] \cup Changed(v)'
          PROVE  /\ ~mem'[v][q].bound => ~config'[q]
                 /\ q \in todo'[v] => mem'[v][q].status = "pending_retry"
                 /\ mem'[v][q].status = "dead_lettered" =>
                      BudgetSpent(mem'[v][q].attempts) \/ Hopeless(q)'
                 /\ mem'[v][q].status = "pending_retry" =>
                      mem'[v][q].attempts \in 1..MaxRetryAttempts
      <3>1. Hopeless(q)' <=> Hopeless(q)
        BY <1>5 DEF Hopeless
      <3>2. CASE v = w /\ q = r
        BY <3>1, <3>2, <1>2, <1>3, <1>5 DEF VerdictsJustified, RetryIInv, RetryInv, TypeOK
      <3>3. CASE ~(v = w /\ q = r)
        <4>1. q \in Rows /\ q \in todo[v] \cup Changed(v) /\ (q \in todo'[v] => q \in todo[v])
          BY <3>3, <2>1, <1>3 DEF TypeOK, Changed
        <4>. QED  BY <3>1, <3>3, <4>1, <1>2, <1>5 DEF VerdictsJustified, RetryIInv, RetryInv
      <3>. QED  BY <3>2, <3>3
    <2>. QED  BY <2>1 DEF VerdictsJustified, BudgetSpent
  <1>9. BudgetKept' /\ DueIsPending' /\ NoneIsFresh' /\ DeadLetterIsEarned'
    BY <1>5 DEF RetryIInv, RetryInv, BudgetKept, DueIsPending, Due, NoneIsFresh,
                DeadLetterIsEarned, Hopeless
  <1>. QED  BY <1>6, <1>7, <1>8, <1>9 DEF RetryIInv, RetryInv

\* A commit writes rows that were current, so that every other run which has
\* loaded one of them is behind from now on.
LEMMA CommitFacts ==
    ASSUME TypeOK, RetryIInv, NEW w \in Retriers, Commit(w)
    PROVE  /\ Changed(w) \in SUBSET Rows
           /\ \A r \in Changed(w) :
                /\ version[r] = mem[w][r].version
                /\ status[r] = "pending_retry"
                /\ attempts[r] \in 1..MaxRetryAttempts
                /\ mem[w][r].attempts \in {attempts[r], attempts[r] + 1}
                /\ \A v \in Retriers \ {w} : r \notin held[v]
           /\ \A r \in Rows :
                /\ r \in Changed(w) => /\ status'[r] = mem[w][r].status
                                       /\ attempts'[r] = mem[w][r].attempts
                                       /\ version'[r] = version[r] + 1
                /\ r \notin Changed(w) => /\ status'[r] = status[r]
                                          /\ attempts'[r] = attempts[r]
                                          /\ version'[r] = version[r]
  <1>1. Changed(w) \in SUBSET Rows
    BY DEF TypeOK, Changed
  <1>2. \A r \in Changed(w) : version[r] = mem[w][r].version /\ \A v \in Retriers \ {w} : r \notin held[v]
    BY DEF Commit, FlushRuns, FlushMatches, Changed, RetryIInv, RetryInv, LocksExclusive
  <1>3. \A r \in Changed(w) : /\ status[r] = "pending_retry"
                              /\ mem[w][r].attempts \in {attempts[r], attempts[r] + 1}
    BY <1>2 DEF RetryIInv, RetryInv, CurrentIsPending
  <1>4. \A r \in Changed(w) : attempts[r] \in 1..MaxRetryAttempts
    BY <1>1, <1>3 DEF RetryIInv, RetryInv, BudgetKept
  <1>5. \A r \in Rows :
          /\ r \in Changed(w) => /\ status'[r] = mem[w][r].status
                                 /\ attempts'[r] = mem[w][r].attempts
                                 /\ version'[r] = version[r] + 1
          /\ r \notin Changed(w) => /\ status'[r] = status[r]
                                    /\ attempts'[r] = attempts[r]
                                    /\ version'[r] = version[r]
    BY DEF Commit, Changed
  <1>. QED  BY <1>1, <1>2, <1>3, <1>4, <1>5

LEMMA CommitKeepsRetryIInv ==
    ASSUME TypeOK, RetryIInv, NEW w \in Retriers, Commit(w)
    PROVE  RetryIInv'
  <1>. DEFINE R == Changed(w)
  <1>1. /\ todo'[w] = {} /\ dirty'[w] = {} /\ held'[w] = {}
        /\ \A v \in Retriers \ {w} : /\ todo'[v] = todo[v] /\ mem'[v] = mem[v]
                                     /\ dirty'[v] = dirty[v] /\ held'[v] = held[v]
        /\ config' = config
    <2>1. End(w) /\ config' = config
      BY DEF Commit
    <2>. QED  BY <2>1 DEF End, TypeOK
  <1>2. LocksExclusive'
    <2>1. ASSUME NEW v \in Retriers, NEW r \in held'[v]
          PROVE  /\ version'[r] = mem'[v][r].version
                 /\ \A u \in Retriers \ {v} : r \notin held'[u]
      <3>1. v # w /\ r \in held[v] /\ r \in Rows
        BY <1>1, <2>1 DEF TypeOK
      <3>2. r \notin R
        BY <3>1, CommitFacts
      <3>3. version[r] = mem[v][r].version /\ \A u \in Retriers \ {v} : r \notin held[u]
        BY <3>1 DEF RetryIInv, RetryInv, LocksExclusive
      <3>. QED  BY <1>1, <3>1, <3>2, <3>3, CommitFacts
    <2>. QED  BY <2>1 DEF LocksExclusive
  <1>3. CurrentIsPending'
    <2>1. ASSUME NEW v \in Retriers, NEW q \in todo'[v] \cup Changed(v)'
          PROVE  /\ mem'[v][q].version <= version'[q]
                 /\ mem'[v][q].version = version'[q] =>
                      /\ status'[q] = "pending_retry"
                      /\ q \in todo'[v] => mem'[v][q].attempts = attempts'[q]
                      /\ mem'[v][q].attempts \in {attempts'[q], attempts'[q] + 1}
      <3>1. v # w /\ q \in todo[v] \cup Changed(v) /\ q \in Rows
        BY <1>1, <2>1 DEF Changed, TypeOK
      <3>2. mem[v][q].version <= version[q] /\ mem[v][q].version \in Nat /\ version[q] \in Nat
        BY <3>1 DEF RetryIInv, RetryInv, CurrentIsPending, TypeOK, Objects
      <3>3. CASE q \in R
        BY <1>1, <3>1, <3>2, <3>3, CommitFacts
      <3>4. CASE q \notin R
        BY <1>1, <3>1, <3>2, <3>4, CommitFacts DEF RetryIInv, RetryInv, CurrentIsPending
      <3>. QED  BY <3>3, <3>4
    <2>. QED  BY <2>1 DEF CurrentIsPending
  <1>4. VerdictsJustified'
    BY <1>1 DEF RetryIInv, RetryInv, VerdictsJustified, Changed, BudgetSpent, Hopeless
  <1>5. BudgetKept'
    BY CommitFacts DEF RetryIInv, RetryInv, BudgetKept, VerdictsJustified
  <1>6. DueIsPending'
    <2>1. \A r \in Due' : r \in Rows /\ r \in Due \ R
      BY CommitFacts, WithoutRowsFacts DEF Commit, Due, Changed
    <2>. QED  BY <2>1, CommitFacts DEF RetryIInv, RetryInv, DueIsPending, Due
  <1>7. DeadLetterIsEarned'
    <2>1. ASSUME NEW r \in Rows, status'[r] = "dead_lettered"
          PROVE  attempts'[r] = MaxRetryAttempts + 1 \/ Hopeless(r)'
      <3>1. Hopeless(r)' <=> Hopeless(r)
        BY <1>1 DEF Hopeless
      <3>2. CASE r \in R
        <4>1. BudgetSpent(mem[w][r].attempts) \/ Hopeless(r)
          BY <2>1, <3>2, CommitFacts DEF RetryIInv, RetryInv, VerdictsJustified
        <4>. QED  BY <3>1, <3>2, <4>1, CommitFacts, LimitsNat DEF BudgetSpent
      <3>3. CASE r \notin R
        BY <2>1, <3>1, <3>3, CommitFacts DEF RetryIInv, DeadLetterIsEarned
      <3>. QED  BY <3>2, <3>3
    <2>. QED  BY <2>1 DEF DeadLetterIsEarned
  <1>8. NoneIsFresh'
    <2>1. \A r \in R : status'[r] # "none"
      <3>1. \A r \in R : mem[w][r].status \in Statuses
        BY CommitFacts DEF TypeOK, Objects
      <3>. QED  BY <3>1, CommitFacts DEF Statuses, Terminal
    <2>. QED  BY <2>1, CommitFacts DEF RetryIInv, RetryInv, NoneIsFresh
  <1>. QED  BY <1>2, <1>3, <1>4, <1>5, <1>6, <1>7, <1>8 DEF RetryIInv, RetryInv

LEMMA NextRetryIInv == TypeOK /\ RetryIInv /\ [Next]_vars => RetryIInv'
  <1>. SUFFICES ASSUME TypeOK, RetryIInv, [Next]_vars
                PROVE  RetryIInv'
    OBVIOUS
  <1>t. TypeOK'
    BY NextTypeOK
  <1>1. ASSUME NEW r \in Rows, PersistFailure(r) PROVE RetryIInv'
    <2>1. status[r] = "none" /\ UNCHANGED <<place, config, runVars>>
      BY <1>1 DEF PersistFailure
    <2>2. /\ \A q \in Rows \ {r} : status'[q] = status[q] /\ attempts'[q] = attempts[q]
                                   /\ version'[q] = version[q]
          /\ status'[r] \in {"pending_retry", "permanent_failure"}
          /\ attempts'[r] = 1 /\ version'[r] = 1
      BY <1>1 DEF PersistFailure, TypeOK
    <2>3. \A w \in Retriers : r \notin todo[w] \cup Changed(w)
      BY <2>1 DEF RetryIInv, RetryInv, CurrentIsPending, NoneIsFresh, TypeOK, Objects, Changed
    <2>u. UNCHANGED <<todo, mem, dirty, held>>
      BY <2>1 DEF runVars
    <2>q. ASSUME NEW w \in Retriers, NEW q \in todo[w] \cup Changed(w)
          PROVE  status'[q] = status[q] /\ attempts'[q] = attempts[q] /\ version'[q] = version[q]
      <3>1. q \in Rows \ {r}
        BY <2>3, <2>q DEF Changed, TypeOK
      <3>. QED  BY <3>1, <2>2
    <2>4. LocksExclusive'
      BY <2>u, <2>q DEF RetryIInv, RetryInv, LocksExclusive, Changed
    <2>5. CurrentIsPending'
      BY <2>u, <2>q DEF RetryIInv, RetryInv, CurrentIsPending, Changed
    <2>6. VerdictsJustified'
      BY <2>1 DEF RetryIInv, RetryInv, VerdictsJustified, Changed, BudgetSpent, Hopeless, runVars
    <2>7. BudgetKept' /\ DueIsPending'
      BY <2>1, <2>2, LimitsNat DEF RetryIInv, RetryInv, BudgetKept, DueIsPending, Due
    <2>8. NoneIsFresh' /\ DeadLetterIsEarned'
      BY <2>1, <2>2 DEF RetryIInv, RetryInv, NoneIsFresh, DeadLetterIsEarned, Hopeless
    <2>. QED  BY <2>4, <2>5, <2>6, <2>7, <2>8 DEF RetryIInv, RetryInv
  <1>2. ASSUME NEW r \in Rows, BecomeDue(r) PROVE RetryIInv'
    <2>1. status[r] = "pending_retry"
          /\ UNCHANGED <<status, attempts, version, config, runVars>>
      BY <1>2 DEF BecomeDue
    <2>2. \A q \in Rows \ {r} : place'[q] = place[q]
      BY <1>2 DEF BecomeDue, TypeOK
    <2>3. DueIsPending'
      BY <2>1, <2>2 DEF DueIsPending, Due, RetryIInv, RetryInv
    <2>. QED
      BY <2>1, <2>3 DEF RetryIInv, RetryInv, LocksExclusive, CurrentIsPending, VerdictsJustified,
         Changed, BudgetKept, NoneIsFresh, DeadLetterIsEarned, Hopeless, BudgetSpent, runVars
  <1>3. ASSUME NEW r \in Rows, DeleteConfig(r) PROVE RetryIInv'
    <2>1. /\ UNCHANGED <<status, attempts, version, place, runVars>>
          /\ \A q \in Rows : config'[q] => config[q]
      BY <1>3 DEF DeleteConfig, TypeOK
    <2>. QED
      BY <2>1 DEF RetryIInv, RetryInv, LocksExclusive, CurrentIsPending, VerdictsJustified,
         Changed, BudgetKept, DueIsPending, Due, NoneIsFresh, DeadLetterIsEarned, Hopeless, BudgetSpent,
         runVars, TypeOK
  <1>4. ASSUME NEW w \in Retriers, Select(w) PROVE RetryIInv'
    <2>1. /\ dirty[w] = {} /\ held[w] = {}
          /\ UNCHANGED <<status, attempts, version, place, config, dirty, held>>
          /\ \A v \in Retriers \ {w} : todo'[v] = todo[v] /\ mem'[v] = mem[v]
      BY <1>4 DEF Select, TypeOK, rowVars
    <2>2. \A q \in todo'[w] :
            /\ q \in Rows /\ q \in Due
            /\ mem'[w][q].version = version[q] /\ mem'[w][q].attempts = attempts[q]
            /\ mem'[w][q].status = "pending_retry" /\ mem'[w][q].bound = config[q]
      <3>1. todo'[w] = {q \in Rows : place[q] \in 1..BatchLimit}
        BY <1>4 DEF Select, TypeOK
      <3>. SUFFICES ASSUME NEW q \in todo'[w]
                    PROVE  /\ q \in Rows /\ q \in Due
                           /\ mem'[w][q].version = version[q] /\ mem'[w][q].attempts = attempts[q]
                           /\ mem'[w][q].status = "pending_retry" /\ mem'[w][q].bound = config[q]
        OBVIOUS
      <3>2. q \in Rows /\ q \in Due
        BY <3>1, LimitsNat DEF Due, TypeOK
      <3>3. mem'[w][q] = [version |-> version[q], attempts |-> attempts[q],
                          status |-> "pending_retry", place |-> place[q],
                          bound |-> config[q], audit |-> FALSE]
        BY <1>4, <3>1, <3>2 DEF Select, TypeOK
      <3>. QED  BY <3>2, <3>3
    <2>3. \A q \in todo'[w] : status[q] = "pending_retry" /\ attempts[q] \in 1..MaxRetryAttempts
      BY <2>2 DEF RetryIInv, RetryInv, DueIsPending, BudgetKept
    <2>4. LocksExclusive'
      BY <2>1 DEF RetryIInv, RetryInv, LocksExclusive
    <2>5. CurrentIsPending'
      <3>1. ASSUME NEW v \in Retriers, NEW q \in todo'[v] \cup Changed(v)'
            PROVE  /\ mem'[v][q].version <= version'[q]
                   /\ mem'[v][q].version = version'[q] =>
                        /\ status'[q] = "pending_retry"
                        /\ q \in todo'[v] => mem'[v][q].attempts = attempts'[q]
                        /\ mem'[v][q].attempts \in {attempts'[q], attempts'[q] + 1}
        <4>1. CASE v = w
          <5>1. q \in todo'[w]
            BY <4>1, <2>1, <3>1 DEF Changed
          <5>2. version[q] \in Nat
            BY <5>1, <2>2 DEF TypeOK
          <5>3. attempts[q] \in Nat
            BY <5>1, <2>2 DEF TypeOK
          <5>4. mem'[v][q].version = version[q] /\ mem'[v][q].attempts = attempts[q]
            BY <4>1, <5>1, <2>2
          <5>5. status[q] = "pending_retry" /\ version'[q] = version[q]
                /\ attempts'[q] = attempts[q] /\ status'[q] = status[q]
            BY <5>1, <2>1, <2>3
          <5>. QED  BY <5>2, <5>3, <5>4, <5>5
        <4>2. CASE v # w
          BY <4>2, <2>1, <3>1 DEF RetryIInv, RetryInv, CurrentIsPending, Changed
        <4>. QED  BY <4>1, <4>2
      <3>. QED  BY <3>1 DEF CurrentIsPending
    <2>6. VerdictsJustified'
      BY <2>1, <2>2, <2>3 DEF RetryIInv, RetryInv, VerdictsJustified, Changed, BudgetSpent, Hopeless
    <2>7. BudgetKept' /\ DueIsPending' /\ NoneIsFresh' /\ DeadLetterIsEarned'
      BY <2>1 DEF RetryIInv, RetryInv, BudgetKept, DueIsPending, Due, NoneIsFresh,
                  DeadLetterIsEarned, Hopeless
    <2>. QED  BY <2>4, <2>5, <2>6, <2>7 DEF RetryIInv, RetryInv
  <1>5. ASSUME NEW w \in Retriers, NEW r \in Rows, SkipUnbound(w, r) PROVE RetryIInv'
    <2>1. r \in todo[w] /\ mem[w][r].attempts \in Nat
      BY <1>5 DEF SkipUnbound, IsNext, TypeOK, Objects
    <2>2. Hopeless(r)
      BY <1>5, <2>1 DEF SkipUnbound, RetryIInv, RetryInv, VerdictsJustified, Hopeless
    <2>. QED
      BY <1>5, <1>t, <2>1, <2>2, ConcludeKeepsRetryIInv DEF SkipUnbound, Statuses, Terminal
  <1>6. ASSUME NEW w \in Retriers, NEW r \in Rows, LookUp(w, r) PROVE RetryIInv'
    <2>1. r \in todo[w] /\ mem[w][r].attempts \in Nat
      BY <1>6 DEF LookUp, IsNext, TypeOK, Objects
    <2>2. CASE Hopeless(r)
      <3>1. /\ Conclude(w, r, "dead_lettered", mem[w][r].attempts, FALSE) /\ UNCHANGED rowVars
            /\ FlushRuns(w) /\ FlushMatches(w)
            /\ held' = [held EXCEPT ![w] = @ \cup dirty[w]]
            /\ dirty' = [dirty EXCEPT ![w] = {r}]
        BY <1>6, <2>2 DEF LookUp, Hopeless
      <3>2. "dead_lettered" \in Statuses /\ FALSE \in BOOLEAN
        BY DEF Statuses, Terminal
      <3>. QED  BY <1>t, <2>1, <2>2, <3>1, <3>2, ConcludeKeepsRetryIInv
    <2>3. CASE ~Hopeless(r)
      <3>1. /\ UNCHANGED rowVars /\ UNCHANGED <<todo, mem>>
            /\ held' = [held EXCEPT ![w] = @ \cup dirty[w]]
            /\ dirty' = [dirty EXCEPT ![w] = {}]
            /\ FlushRuns(w) /\ FlushMatches(w)
        BY <1>6, <2>3 DEF LookUp, Hopeless
      <3>2. \A v \in Retriers : Changed(v)' = Changed(v)
        BY <3>1 DEF Changed, TypeOK
      <3>3. LocksExclusive'
        BY <3>1 DEF RetryIInv, RetryInv, LocksExclusive, FlushRuns, FlushMatches, TypeOK, rowVars
      <3>4. CurrentIsPending' /\ VerdictsJustified'
        BY <3>1, <3>2 DEF RetryIInv, RetryInv, CurrentIsPending, VerdictsJustified, BudgetSpent,
           Hopeless, rowVars
      <3>5. BudgetKept' /\ DueIsPending' /\ NoneIsFresh' /\ DeadLetterIsEarned'
        BY <3>1 DEF RetryIInv, RetryInv, BudgetKept, DueIsPending, Due, NoneIsFresh,
                    DeadLetterIsEarned, Hopeless, rowVars
      <3>. QED  BY <3>3, <3>4, <3>5 DEF RetryIInv, RetryInv
    <2>. QED  BY <2>2, <2>3
  <1>7. ASSUME NEW w \in Retriers, NEW r \in Rows, NEW o \in Outcomes, Send(w, r, o)
        PROVE  RetryIInv'
    <2>1. r \in todo[w] /\ mem[w][r].attempts \in 1..MaxRetryAttempts
      BY <1>7 DEF Send, IsNext, RetryIInv, RetryInv, VerdictsJustified
    <2>. DEFINE a == mem[w][r].attempts + 1
    <2>2. PICK s \in Statuses, b \in BOOLEAN :
            /\ Conclude(w, r, s, a, b)
            /\ s = "dead_lettered" => BudgetSpent(a)
            /\ s = "pending_retry" => ~BudgetSpent(a)
      <3>. HIDE DEF a
      <3>1. \/ Conclude(w, r, "succeeded", a, FALSE)
            \/ Conclude(w, r, "permanent_failure", a, FALSE)
            \/ BudgetSpent(a) /\ Conclude(w, r, "dead_lettered", a, TRUE)
            \/ ~BudgetSpent(a) /\ Conclude(w, r, "pending_retry", a, FALSE)
        BY <1>7 DEF Send, a
      <3>2. {"succeeded", "permanent_failure", "dead_lettered", "pending_retry"} \subseteq Statuses
        BY DEF Statuses, Terminal
      <3>. QED  BY <3>1, <3>2
    <2>3. s = "pending_retry" => a \in 1..MaxRetryAttempts
      BY <2>1, <2>2, LimitsNat DEF BudgetSpent
    <2>4. /\ UNCHANGED rowVars
          /\ held' = held /\ dirty' = [dirty EXCEPT ![w] = @ \cup {r}]
      BY <1>7 DEF Send
    <2>5. a \in Nat
      BY <2>1, LimitsNat
    <2>. QED  BY <1>t, <2>1, <2>2, <2>3, <2>4, <2>5, ConcludeKeepsRetryIInv
  <1>8. ASSUME NEW w \in Retriers, Commit(w) PROVE RetryIInv'
    BY <1>8, CommitKeepsRetryIInv
  <1>9. ASSUME NEW w \in Retriers, Collide(w) PROVE RetryIInv'
    BY <1>9, EndKeepsRetryIInv DEF Collide
  <1>10. ASSUME NEW w \in Retriers, Crash(w) PROVE RetryIInv'
    BY <1>10, EndKeepsRetryIInv DEF Crash
  <1>11. CASE UNCHANGED vars
    BY <1>11 DEF vars, rowVars, runVars, RetryIInv, RetryInv, LocksExclusive, CurrentIsPending,
       VerdictsJustified, Changed, BudgetKept, DueIsPending, Due, NoneIsFresh,
       DeadLetterIsEarned, Hopeless,
       BudgetSpent
  <1>. QED
    BY <1>1, <1>2, <1>3, <1>4, <1>5, <1>6, <1>7, <1>8, <1>9, <1>10, <1>11 DEF Next, Treat

-----------------------------------------------------------------------------
(* Theorems. *)

\* The invariant of the version column and the retry budget holds in every
\* behaviour of the retry queue (version_id_col, MAX_RETRY_ATTEMPTS).
THEOREM RetryInvHolds == Spec => []RetryInv
  <1>1. Init => TypeOK /\ RetryIInv
    BY InitTypeOK, InitRetryIInv
  <1>2. TypeOK /\ RetryIInv /\ [Next]_vars => (TypeOK /\ RetryIInv)'
    BY NextTypeOK, NextRetryIInv
  <1>3. RetryIInv => RetryInv
    BY DEF RetryIInv
  <1>. QED  BY <1>1, <1>2, <1>3, PTL DEF Spec

\* No delivery is given up early, whatever overlaps, collides or crashes.
THEOREM DeadLettersAreEarned == Spec => []DeadLetterIsEarned
  <1>1. Init => TypeOK /\ RetryIInv
    BY InitTypeOK, InitRetryIInv
  <1>2. TypeOK /\ RetryIInv /\ [Next]_vars => (TypeOK /\ RetryIInv)'
    BY NextTypeOK, NextRetryIInv
  <1>3. RetryIInv => DeadLetterIsEarned
    BY DEF RetryIInv
  <1>. QED  BY <1>1, <1>2, <1>3, PTL DEF Spec

\* Overlapping runs of the task never overwrite a settled row, and never
\* lose or repeat the count of an attempt.
THEOREM RowsOnlyMoveForward == Spec => RowsMoveForward
  <1>. DEFINE Forward ==
         \A r \in Rows :
           /\ status[r] \in Terminal => status'[r] = status[r] /\ attempts'[r] = attempts[r]
           /\ attempts'[r] \in {attempts[r], attempts[r] + 1}
  <1>1. Init => TypeOK /\ RetryIInv
    BY InitTypeOK, InitRetryIInv
  <1>2. TypeOK /\ RetryIInv /\ [Next]_vars => (TypeOK /\ RetryIInv)'
    BY NextTypeOK, NextRetryIInv
  <1>3. TypeOK /\ RetryIInv /\ [Next]_vars => [Forward]_vars
    <2>. SUFFICES ASSUME TypeOK, RetryIInv, Next
                  PROVE  Forward
      OBVIOUS
    <2>1. ASSUME UNCHANGED <<status, attempts>> PROVE Forward
      BY <2>1
    <2>2. ASSUME NEW r \in Rows, PersistFailure(r) PROVE Forward
      <3>1. status[r] = "none" /\ attempts[r] = 0 /\ attempts'[r] = 1
        BY <2>2 DEF PersistFailure, RetryIInv, RetryInv, NoneIsFresh, TypeOK
      <3>2. \A q \in Rows \ {r} : status'[q] = status[q] /\ attempts'[q] = attempts[q]
        BY <2>2 DEF PersistFailure, TypeOK
      <3>. QED  BY <3>1, <3>2 DEF Terminal
    <2>3. ASSUME NEW w \in Retriers, Commit(w) PROVE Forward
      BY <2>3, CommitFacts DEF Terminal
    <2>4. CASE \E r \in Rows : BecomeDue(r) \/ DeleteConfig(r)
      BY <2>1, <2>4 DEF BecomeDue, DeleteConfig
    <2>5. CASE \E w \in Retriers : Select(w) \/ Crash(w) \/ Collide(w)
      BY <2>1, <2>5 DEF Select, Crash, Collide, rowVars
    <2>6. CASE \E w \in Retriers, r \in Rows :
                 SkipUnbound(w, r) \/ LookUp(w, r) \/ \E o \in Outcomes : Send(w, r, o)
      <3>1. PICK w \in Retriers, r \in Rows :
              SkipUnbound(w, r) \/ LookUp(w, r) \/ \E o \in Outcomes : Send(w, r, o)
        BY <2>6
      <3>2. CASE SkipUnbound(w, r)
        BY <2>1, <3>2 DEF SkipUnbound, rowVars
      <3>3. CASE LookUp(w, r)
        BY <2>1, <3>3 DEF LookUp, rowVars
      <3>4. CASE \E o \in Outcomes : Send(w, r, o)
        BY <2>1, <3>4 DEF Send, rowVars
      <3>. QED  BY <3>1, <3>2, <3>3, <3>4
    <2>. QED  BY <2>2, <2>3, <2>4, <2>5, <2>6 DEF Next, Treat
  <1>. QED  BY <1>1, <1>2, <1>3, PTL DEF Spec, RowsMoveForward


-----------------------------------------------------------------------------
(* The queue implements its promise. *)


\* What a run means to write of a current row is one attempt more, judged by
\* the budget, or the end of a row that cannot be sent.
AttemptsCounted ==
    \A w \in Retriers : \A r \in Changed(w) :
        mem[w][r].version = version[r] =>
            \/ /\ mem[w][r].attempts = attempts[r] + 1
               /\ mem[w][r].status = "dead_lettered" => BudgetSpent(mem[w][r].attempts)
            \/ /\ mem[w][r].attempts = attempts[r]
               /\ mem[w][r].status = "dead_lettered" /\ Hopeless(r)

LEMMA InitAttemptsCounted == Init => AttemptsCounted
  BY DEF Init, AttemptsCounted, Changed

\* A verdict keeps it, if the verdict counts its attempt.
LEMMA ConcludeKeepsAttemptsCounted ==
    ASSUME TypeOK, RetryIInv, AttemptsCounted, NEW w \in Retriers, NEW r \in todo[w],
           NEW s \in Statuses, NEW a \in Nat, NEW b \in BOOLEAN,
           Conclude(w, r, s, a, b), UNCHANGED rowVars,
           \/ a = mem[w][r].attempts + 1 /\ (s = "dead_lettered" => BudgetSpent(a))
           \/ a = mem[w][r].attempts /\ s = "dead_lettered" /\ Hopeless(r),
           \/ held' = held /\ dirty' = [dirty EXCEPT ![w] = @ \cup {r}]
           \/ /\ held' = [held EXCEPT ![w] = @ \cup dirty[w]]
              /\ dirty' = [dirty EXCEPT ![w] = {r}]
    PROVE  AttemptsCounted'
  <1>1. r \in Rows /\ mem[w][r] \in Objects
    BY DEF TypeOK
  <1>2. /\ mem'[w][r].version = mem[w][r].version
        /\ mem'[w][r].status = s /\ mem'[w][r].attempts = a
        /\ \A v \in Retriers, q \in Rows : v # w \/ q # r => mem'[v][q] = mem[v][q]
    BY <1>1 DEF Conclude, TypeOK, Objects
  <1>3. /\ Changed(w)' = Changed(w) \cup {r}
        /\ \A v \in Retriers \ {w} : Changed(v)' = Changed(v)
    BY DEF TypeOK, Changed
  <1>4. UNCHANGED <<attempts, version, config>>
    BY DEF rowVars
  <1>5. ASSUME NEW v \in Retriers, NEW q \in Changed(v)', mem'[v][q].version = version'[q]
        PROVE  \/ /\ mem'[v][q].attempts = attempts'[q] + 1
                  /\ mem'[v][q].status = "dead_lettered" => BudgetSpent(mem'[v][q].attempts)
               \/ /\ mem'[v][q].attempts = attempts'[q]
                  /\ mem'[v][q].status = "dead_lettered" /\ Hopeless(q)'
    <2>1. CASE v = w /\ q = r
      <3>1. mem[w][r].attempts = attempts[r]
        BY <2>1, <1>2, <1>4, <1>5 DEF RetryIInv, RetryInv, CurrentIsPending
      <3>2. Hopeless(r)' <=> Hopeless(r)
        BY <1>4 DEF Hopeless
      <3>. QED  BY <2>1, <3>1, <3>2, <1>2, <1>4
    <2>2. CASE ~(v = w /\ q = r)
      <3>1. q \in Rows /\ q \in Changed(v)
        BY <2>2, <1>3, <1>5 DEF TypeOK, Changed
      <3>2. mem'[v][q] = mem[v][q]
        BY <2>2, <3>1, <1>2
      <3>3. Hopeless(q)' <=> Hopeless(q)
        BY <1>4 DEF Hopeless
      <3>. QED  BY <3>1, <3>2, <3>3, <1>4, <1>5 DEF AttemptsCounted
    <2>. QED  BY <2>1, <2>2
  <1>. QED  BY <1>5 DEF AttemptsCounted, BudgetSpent

\* A run that ends takes its rows with it.
LEMMA EndKeepsAttemptsCounted ==
    ASSUME TypeOK, AttemptsCounted, NEW w \in Retriers, End(w), UNCHANGED rowVars
    PROVE  AttemptsCounted'
  BY DEF AttemptsCounted, TypeOK, End, Changed, rowVars, Hopeless, BudgetSpent

LEMMA NextAttemptsCounted ==
    TypeOK /\ RetryIInv /\ AttemptsCounted /\ [Next]_vars => AttemptsCounted'
  <1>. SUFFICES ASSUME TypeOK, RetryIInv, AttemptsCounted, [Next]_vars
                PROVE  AttemptsCounted'
    OBVIOUS
  <1>1. ASSUME NEW r \in Rows, PersistFailure(r) PROVE AttemptsCounted'
    <2>1. status[r] = "none" /\ UNCHANGED <<config, runVars>>
      BY <1>1 DEF PersistFailure
    <2>2. \A q \in Rows \ {r} : attempts'[q] = attempts[q] /\ version'[q] = version[q]
      BY <1>1 DEF PersistFailure, TypeOK
    <2>3. version'[r] = 1
      BY <1>1 DEF PersistFailure, TypeOK
    <2>4. \A w \in Retriers : r \notin Changed(w)
      BY <2>1 DEF RetryIInv, RetryInv, CurrentIsPending, NoneIsFresh, TypeOK, Objects, Changed
    <2>5. UNCHANGED <<mem, dirty, held>>
      BY <2>1 DEF runVars
    <2>6. ASSUME NEW w \in Retriers, NEW q \in Changed(w)'
          PROVE  /\ q \in Changed(w) /\ mem'[w][q] = mem[w][q]
                 /\ attempts'[q] = attempts[q] /\ version'[q] = version[q]
                 /\ Hopeless(q)' <=> Hopeless(q)
      <3>1. q \in Changed(w) /\ q \in Rows
        BY <2>5, <2>6 DEF Changed, TypeOK
      <3>2. q # r
        BY <3>1, <2>4
      <3>. QED  BY <3>1, <3>2, <2>1, <2>2, <2>5 DEF Hopeless
    <2>. QED  BY <2>6 DEF AttemptsCounted, BudgetSpent
  <1>2. ASSUME NEW r \in Rows, BecomeDue(r) PROVE AttemptsCounted'
    BY <1>2 DEF BecomeDue, AttemptsCounted, Changed, runVars, Hopeless, BudgetSpent
  <1>3. ASSUME NEW r \in Rows, DeleteConfig(r) PROVE AttemptsCounted'
    <2>1. /\ UNCHANGED <<attempts, version, runVars>>
          /\ \A q \in Rows : config'[q] => config[q]
      BY <1>3 DEF DeleteConfig, TypeOK
    <2>. QED  BY <2>1 DEF AttemptsCounted, Changed, runVars, Hopeless, BudgetSpent, TypeOK
  <1>4. ASSUME NEW w \in Retriers, Select(w) PROVE AttemptsCounted'
    <2>1. /\ Changed(w) = {}
          /\ UNCHANGED <<attempts, version, config, dirty, held>>
          /\ \A v \in Retriers \ {w} : mem'[v] = mem[v]
      BY <1>4 DEF Select, TypeOK, rowVars, Changed
    <2>. QED  BY <2>1 DEF AttemptsCounted, Changed, Hopeless, BudgetSpent
  <1>5. ASSUME NEW w \in Retriers, NEW r \in Rows, SkipUnbound(w, r) PROVE AttemptsCounted'
    <2>1. r \in todo[w] /\ mem[w][r].attempts \in Nat
      BY <1>5 DEF SkipUnbound, IsNext, TypeOK, Objects
    <2>2. Hopeless(r)
      BY <1>5, <2>1 DEF SkipUnbound, RetryIInv, RetryInv, VerdictsJustified, Hopeless
    <2>. QED
      BY <1>5, <2>1, <2>2, ConcludeKeepsAttemptsCounted DEF SkipUnbound, Statuses, Terminal
  <1>6. ASSUME NEW w \in Retriers, NEW r \in Rows, LookUp(w, r) PROVE AttemptsCounted'
    <2>1. r \in todo[w] /\ mem[w][r].attempts \in Nat
      BY <1>6 DEF LookUp, IsNext, TypeOK, Objects
    <2>2. CASE Hopeless(r)
      <3>1. /\ Conclude(w, r, "dead_lettered", mem[w][r].attempts, FALSE) /\ UNCHANGED rowVars
            /\ held' = [held EXCEPT ![w] = @ \cup dirty[w]]
            /\ dirty' = [dirty EXCEPT ![w] = {r}]
        BY <1>6, <2>2 DEF LookUp, Hopeless
      <3>2. "dead_lettered" \in Statuses /\ FALSE \in BOOLEAN
        BY DEF Statuses, Terminal
      <3>. QED  BY <2>1, <2>2, <3>1, <3>2, ConcludeKeepsAttemptsCounted
    <2>3. CASE ~Hopeless(r)
      <3>1. /\ UNCHANGED rowVars /\ UNCHANGED <<todo, mem>>
            /\ held' = [held EXCEPT ![w] = @ \cup dirty[w]]
            /\ dirty' = [dirty EXCEPT ![w] = {}]
        BY <1>6, <2>3 DEF LookUp, Hopeless
      <3>2. \A v \in Retriers : Changed(v)' = Changed(v)
        BY <3>1 DEF Changed, TypeOK
      <3>. QED  BY <3>1, <3>2 DEF AttemptsCounted, Hopeless, BudgetSpent, rowVars
    <2>. QED  BY <2>2, <2>3
  <1>7. ASSUME NEW w \in Retriers, NEW r \in Rows, NEW o \in Outcomes, Send(w, r, o)
        PROVE  AttemptsCounted'
    <2>1. r \in todo[w] /\ mem[w][r].attempts \in Nat
      BY <1>7 DEF Send, IsNext, TypeOK, Objects
    <2>. DEFINE a == mem[w][r].attempts + 1
    <2>2. PICK s \in Statuses, b \in BOOLEAN :
            Conclude(w, r, s, a, b) /\ (s = "dead_lettered" => BudgetSpent(a))
      <3>. HIDE DEF a
      <3>1. \/ Conclude(w, r, "succeeded", a, FALSE)
            \/ Conclude(w, r, "permanent_failure", a, FALSE)
            \/ BudgetSpent(a) /\ Conclude(w, r, "dead_lettered", a, TRUE)
            \/ ~BudgetSpent(a) /\ Conclude(w, r, "pending_retry", a, FALSE)
        BY <1>7 DEF Send, a
      <3>2. {"succeeded", "permanent_failure", "dead_lettered", "pending_retry"} \subseteq Statuses
        BY DEF Statuses, Terminal
      <3>. QED  BY <3>1, <3>2
    <2>3. UNCHANGED rowVars /\ held' = held /\ dirty' = [dirty EXCEPT ![w] = @ \cup {r}]
      BY <1>7 DEF Send
    <2>4. a \in Nat
      BY <2>1
    <2>. QED  BY <2>1, <2>2, <2>3, <2>4, ConcludeKeepsAttemptsCounted
  <1>8. ASSUME NEW w \in Retriers, Commit(w) PROVE AttemptsCounted'
    <2>1. /\ Changed(w)' = {} /\ config' = config
          /\ \A v \in Retriers \ {w} : mem'[v] = mem[v] /\ Changed(v)' = Changed(v)
      BY <1>8 DEF Commit, End, TypeOK, Changed
    <2>2. ASSUME NEW v \in Retriers \ {w}, NEW q \in Changed(v), q \in Changed(w)
          PROVE  mem[v][q].version # version'[q]
      <3>1. q \in Rows /\ version[q] \in Nat /\ mem[v][q].version \in Nat
        BY <2>2 DEF TypeOK, Changed, Objects
      <3>2. version'[q] = version[q] + 1
        BY <1>8, <2>2, <3>1, CommitFacts
      <3>3. mem[v][q].version <= version[q]
        BY <2>2 DEF RetryIInv, RetryInv, CurrentIsPending
      <3>. QED  BY <3>1, <3>2, <3>3
    <2>3. ASSUME NEW v \in Retriers \ {w}, NEW q \in Changed(v), q \notin Changed(w)
          PROVE  version'[q] = version[q] /\ attempts'[q] = attempts[q]
      BY <1>8, <2>3, CommitFacts DEF TypeOK, Changed
    <2>. QED  BY <2>1, <2>2, <2>3 DEF AttemptsCounted, Hopeless, BudgetSpent
  <1>9. ASSUME NEW w \in Retriers, Collide(w) PROVE AttemptsCounted'
    BY <1>9, EndKeepsAttemptsCounted DEF Collide
  <1>10. ASSUME NEW w \in Retriers, Crash(w) PROVE AttemptsCounted'
    BY <1>10, EndKeepsAttemptsCounted DEF Crash
  <1>11. CASE UNCHANGED vars
    BY <1>11 DEF vars, rowVars, runVars, AttemptsCounted, Changed, Hopeless, BudgetSpent
  <1>. QED
    BY <1>1, <1>2, <1>3, <1>4, <1>5, <1>6, <1>7, <1>8, <1>9, <1>10, <1>11 DEF Next, Treat

-----------------------------------------------------------------------------
(* The refinement. *)

LEMMA InitPromised == Init => Promise!PromiseInit
  BY DEF Init, Promise!PromiseInit

LEMMA NextPromised ==
    TypeOK /\ RetryIInv /\ AttemptsCounted /\ [Next]_vars
        => [Promise!PromiseNext]_(Promise!promiseVars)
  <1>. SUFFICES ASSUME TypeOK, RetryIInv, AttemptsCounted, [Next]_vars
                PROVE  Promise!PromiseNext \/ UNCHANGED Promise!promiseVars
    OBVIOUS
  <1>u. ASSUME UNCHANGED <<status, attempts, config>> PROVE UNCHANGED Promise!promiseVars
    BY <1>u DEF Promise!promiseVars, Hopeless
  <1>1. ASSUME NEW r \in Rows, PersistFailure(r) PROVE Promise!Fail(r)
    BY <1>1 DEF PersistFailure, Promise!Fail, Hopeless
  <1>2. ASSUME NEW r \in Rows, DeleteConfig(r) PROVE Promise!LoseHope(r)
    BY <1>2 DEF DeleteConfig, Promise!LoseHope, Hopeless, TypeOK
  <1>3. ASSUME NEW w \in Retriers, Commit(w) PROVE Promise!Record
    <2>1. UNCHANGED {r \in Rows : Hopeless(r)}
      BY <1>3 DEF Commit, Hopeless
    <2>2. status' = [r \in Rows |-> status'[r]] /\ attempts' = [r \in Rows |-> attempts'[r]]
      BY <1>3 DEF Commit
    <2>3. ASSUME NEW r \in Rows, r \notin Changed(w)
          PROVE  status'[r] = status[r] /\ attempts'[r] = attempts[r]
      BY <1>3, <2>3, CommitFacts
    <2>4. ASSUME NEW r \in Rows, r \in Changed(w)
          PROVE  status[r] = "pending_retry" /\ (Promise!Tried(r) \/ Promise!Abandoned(r))
      <3>1. /\ version[r] = mem[w][r].version /\ status[r] = "pending_retry"
            /\ status'[r] = mem[w][r].status /\ attempts'[r] = mem[w][r].attempts
        BY <1>3, <2>4, CommitFacts
      <3>2. mem[w][r].status \in Statuses /\ mem[w][r].attempts \in Nat
        BY DEF TypeOK, Objects
      <3>3. mem[w][r].status = "pending_retry" => mem[w][r].attempts <= MaxRetryAttempts
        <4>1. mem[w][r].status = "pending_retry" => mem[w][r].attempts \in 1..MaxRetryAttempts
          BY <2>4 DEF RetryIInv, RetryInv, VerdictsJustified
        <4>. QED  BY <4>1, LimitsNat
      <3>4. CASE /\ mem[w][r].attempts = attempts[r] + 1
                 /\ mem[w][r].status = "dead_lettered" => BudgetSpent(mem[w][r].attempts)
        BY <3>1, <3>2, <3>3, <3>4 DEF Promise!Tried, BudgetSpent, Statuses, Terminal
      <3>5. CASE /\ mem[w][r].attempts = attempts[r]
                 /\ mem[w][r].status = "dead_lettered" /\ Hopeless(r)
        BY <3>1, <3>5 DEF Promise!Abandoned
      <3>. QED  BY <2>4, <3>1, <3>4, <3>5 DEF AttemptsCounted
    <2>. QED  BY <2>1, <2>2, <2>3, <2>4 DEF Promise!Record
  <1>4. CASE \E r \in Rows : BecomeDue(r)
    BY <1>u, <1>4 DEF BecomeDue
  <1>5. CASE \E w \in Retriers : Select(w) \/ Crash(w) \/ Collide(w)
    BY <1>u, <1>5 DEF Select, Crash, Collide, rowVars
  <1>6. CASE \E w \in Retriers, r \in Rows :
               SkipUnbound(w, r) \/ LookUp(w, r) \/ \E o \in Outcomes : Send(w, r, o)
    <2>1. PICK w \in Retriers, r \in Rows :
            SkipUnbound(w, r) \/ LookUp(w, r) \/ \E o \in Outcomes : Send(w, r, o)
      BY <1>6
    <2>2. CASE SkipUnbound(w, r)
      BY <1>u, <2>2 DEF SkipUnbound, rowVars
    <2>3. CASE LookUp(w, r)
      BY <1>u, <2>3 DEF LookUp, rowVars
    <2>4. CASE \E o \in Outcomes : Send(w, r, o)
      BY <1>u, <2>4 DEF Send, rowVars
    <2>. QED  BY <2>1, <2>2, <2>3, <2>4
  <1>7. CASE UNCHANGED vars
    BY <1>u, <1>7 DEF vars, rowVars
  <1>. QED
    BY <1>1, <1>2, <1>3, <1>4, <1>5, <1>6, <1>7 DEF Next, Treat, Promise!PromiseNext

\* Every behaviour of the retry queue is one of its promise: no interleaving of
\* runs, collision or crash loses, repeats or misjudges an attempt.
THEOREM RetriesImplementPromise == Spec => ImplementsPromise
  <1>1. Init => TypeOK /\ RetryIInv /\ AttemptsCounted
    BY InitTypeOK, InitRetryIInv, InitAttemptsCounted
  <1>2. TypeOK /\ RetryIInv /\ AttemptsCounted /\ [Next]_vars
          => (TypeOK /\ RetryIInv /\ AttemptsCounted)'
    BY NextTypeOK, NextRetryIInv, NextAttemptsCounted
  <1>. QED
    BY <1>1, <1>2, InitPromised, NextPromised, PTL DEF Spec, ImplementsPromise, Promise!PromiseSpec
=============================================================================
