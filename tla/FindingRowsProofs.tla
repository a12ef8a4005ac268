-------------------------- MODULE FindingRowsProofs --------------------------
(***************************************************************************)
(* Rows of findings.  Who may overwrite whose verdict, for every number of *)
(* occurrences, scans, requests and changes of the code; imports, for any  *)
(* number of clients, keys and findings; verification, for any number of   *)
(* findings, passes and scans and any TTL; and the limit verification      *)
(* keeps to, for every rate, capacity and number of workers.               *)
(***************************************************************************)
EXTENDS FindingTriage, FindingsImport, SecretVerification, RateLimiter,
        FiniteSetTheorems, TLAPS

-----------------------------------------------------------------------------
(* Verdicts *)

\* An object a scan may still write is of a row that is open, or that a cascade wrote
\* since it was loaded: whoever else writes it moves its version.
HeldIsOpen ==
    \A s \in Scans : \A f \in loaded[s] \ stale[s] :
        class[f] \in Undecided \/ (author[f] = "cascade" /\ class[f] # "none")

\* What the cache holds is a verdict, and only a person's closes a finding.
CacheJustified ==
    \A f \in Findings : cache[f] # NoDecision =>
        cache[f].class # "none" /\ (cache[f].class \in Closing => cache[f].by = "user")

\* So is what a lookup has found; and a person's decision is still that of the cache,
\* for the code of the row, unless the object is stale.
AnswersJustified ==
    \A s \in Scans, f \in Findings : answer[s][f] # NoDecision =>
        /\ f \in loaded[s] /\ answer[s][f].class # "none"
        /\ answer[s][f].class \in Closing =>
              /\ answer[s][f].by = "user"
              /\ f \notin stale[s] =>
                    /\ cache[f].by = "user" /\ cache[f].class = answer[s][f].class
                    /\ cache[f].code = code[f]

TriageIInv ==
    /\ TriageTypeOK /\ HeldIsOpen /\ CacheJustified /\ AnswersJustified
    /\ ConfirmedNamesActor /\ StatusInStep

-----------------------------------------------------------------------------
(* Writing rows *)

\* A write of the classes new, closing none that is no row, keeps the types, the
\* names of confirmations and the status in step.
LEMMA WriteKeeps ==
    ASSUME TriageTypeOK, ConfirmedNamesActor, StatusInStep,
           NEW W \in SUBSET Findings, NEW new \in [Findings -> Classes],
           NEW who \in [Findings -> {"nobody", "person", "cascade", "replay"}],
           \A f \in W : new[f] # "none",
           Write(W, new, who)
    PROVE  /\ class' \in [Findings -> Classes] /\ closed' \subseteq Rows' /\ named' \subseteq Rows'
           /\ author' \in [Findings -> {"nobody", "person", "cascade", "ai", "replay"}]
           /\ Rows \subseteq Rows'
           /\ ConfirmedNamesActor' /\ StatusInStep'
           /\ \A f \in Findings \ W : class'[f] = class[f] /\ author'[f] = author[f]
           /\ \A f \in W : class'[f] = new[f] /\ author'[f] = who[f]
  <1>. USE DEF TriageTypeOK, Write
  <1>1. /\ class' \in [Findings -> Classes]
        /\ author' \in [Findings -> {"nobody", "person", "cascade", "ai", "replay"}]
        /\ \A f \in Findings \ W : class'[f] = class[f] /\ author'[f] = author[f]
        /\ \A f \in W : class'[f] = new[f] /\ author'[f] = who[f]
    OBVIOUS
  <1>2. Rows \subseteq Rows'
    BY <1>1 DEF Rows
  <1>3. closed' \subseteq Rows' /\ named' \subseteq Rows'
    BY <1>1, <1>2 DEF Rows, Closing
  <1>4. ConfirmedNamesActor'
    BY <1>1 DEF ConfirmedNamesActor
  <1>5. StatusInStep'
    BY <1>1 DEF StatusInStep
  <1>. QED  BY <1>1, <1>2, <1>3, <1>4, <1>5

-----------------------------------------------------------------------------
(* The inductive invariant *)

LEMMA TriageInitIInv == TriageInit => TriageIInv
  BY TriageBounds
  DEF TriageInit, TriageIInv, TriageTypeOK, HeldIsOpen, CacheJustified, AnswersJustified,
      ConfirmedNamesActor, StatusInStep, Classes, Decisions, NoDecision, Unanswered, Closing, Rows

\* A person writes only rows of undecided class and rows whose version moves.
LEMMA PersonKeeps ==
    ASSUME TriageIInv, Person
    PROVE  TriageIInv'
  <1>. USE DEF TriageIInv
  <1>1. ASSUME NEW f \in Findings, NEW c \in Verdicts, TriageFinding(f, c)
        PROVE  TriageIInv'
    <2>. DEFINE W   == {f} \cup Followers
                who == [All("cascade") EXCEPT ![f] = "person"]
    <2>1. /\ W \in SUBSET Findings /\ All(c) \in [Findings -> Classes]
          /\ who \in [Findings -> {"nobody", "person", "cascade", "replay"}]
          /\ \A g \in W : All(c)[g] # "none"
      BY <1>1 DEF TriageFinding, Followers, Rows, All, Verdicts, Closing, Undecided, Classes
    <2>2. Write(W, All(c), who)
      BY <1>1 DEF TriageFinding
    <2>. HIDE DEF W, who
    <2>3. /\ class' \in [Findings -> Classes] /\ closed' \subseteq Rows' /\ named' \subseteq Rows'
          /\ author' \in [Findings -> {"nobody", "person", "cascade", "ai", "replay"}]
          /\ Rows \subseteq Rows' /\ ConfirmedNamesActor' /\ StatusInStep'
          /\ \A g \in Findings \ W : class'[g] = class[g] /\ author'[g] = author[g]
          /\ \A g \in W : class'[g] = All(c)[g] /\ author'[g] = who[g]
      BY <2>1, <2>2, WriteKeeps
    <2>4. TriageTypeOK'
      <3>1. /\ cache' \in [Findings -> Decisions] /\ cache'[f].by = "user"
            /\ \A g \in Findings \ {f} : cache'[g] = cache[g]
        BY <1>1 DEF TriageFinding, TriageTypeOK, Verdicts, Closing, Undecided, Classes, Decisions
      <3>2. c \in Classes
        BY DEF Verdicts, Closing, Undecided, Classes
      <3>3. /\ stale' \in [Scans -> SUBSET Findings] /\ \A s \in Scans : stale'[s] \subseteq loaded[s]
            /\ UNCHANGED <<code, phase, loaded, unasked, answer, scans>>
        BY <1>1 DEF TriageFinding, TriageTypeOK, Bump, lookupVars
      <3>4. requests' \in 0 .. MaxRequests /\ incident' = c
        BY <1>1, TriageBounds DEF TriageFinding, TriageTypeOK, Request
      <3>5. \A g \in Findings : cache'[g].by = "ai" => cache'[g].class \in Undecided
        <4>1. \A g \in Findings : cache[g].by = "ai" => cache[g].class \in Undecided
          BY DEF TriageTypeOK
        <4>. QED  BY ONLY <3>1, <4>1
      <3>6. TriageTypeOK
        OBVIOUS
      <3>. QED  BY ONLY <2>3, <3>1, <3>2, <3>3, <3>4, <3>5, <3>6 DEF TriageTypeOK
    <2>5. HeldIsOpen'
      <3>. SUFFICES ASSUME NEW s \in Scans, NEW g \in loaded'[s] \ stale'[s]
                    PROVE  class'[g] \in Undecided \/ (author'[g] = "cascade" /\ class'[g] # "none")
        BY DEF HeldIsOpen
      <3>1. g \in loaded[s] \ stale[s] /\ g # f /\ g \in Findings
        BY <1>1 DEF TriageFinding, Bump, TriageTypeOK
      <3>2. CASE g \in W
        <4>1. who[g] = "cascade" /\ All(c)[g] # "none"
          BY <2>1, <3>1, <3>2 DEF who, All
        <4>. QED  BY <2>3, <3>1, <3>2, <4>1
      <3>3. CASE g \notin W
        BY <2>3, <3>1, <3>3 DEF HeldIsOpen
      <3>. QED  BY <3>2, <3>3
    <2>6. CacheJustified'
      BY <1>1 DEF TriageFinding, CacheJustified, TriageTypeOK, Verdicts, Closing
    <2>7. AnswersJustified'
      <3>1. /\ UNCHANGED <<code, loaded, answer>>
            /\ \A s \in Scans : f \in loaded[s] => f \in stale'[s]
            /\ \A s \in Scans : stale[s] \subseteq stale'[s]
            /\ \A g \in Findings \ {f} : cache'[g] = cache[g]
        BY <1>1 DEF TriageFinding, lookupVars, Bump, TriageTypeOK
      <3>. QED  BY <3>1 DEF AnswersJustified
    <2>. QED  BY <2>3, <2>4, <2>5, <2>6, <2>7
  <1>2. ASSUME NEW F \in SUBSET Findings, NEW c \in Verdicts, BulkTriage(F, c)
        PROVE  TriageIInv'
    <2>. DEFINE changed == {f \in F : class[f] # c}
                W   == changed \cup Followers
                who == [g \in Findings |-> IF g \in changed THEN "person" ELSE "cascade"]
    <2>1. /\ W \in SUBSET Findings /\ All(c) \in [Findings -> Classes]
          /\ who \in [Findings -> {"nobody", "person", "cascade", "replay"}]
          /\ \A g \in W : All(c)[g] # "none"
      BY DEF Followers, Rows, All, Verdicts, Closing, Undecided, Classes
    <2>2. Write(W, All(c), who) /\ Bump(changed) /\ Request /\ incident' = c
          /\ UNCHANGED <<code, cache, phase, loaded, unasked, answer, scans>>
      BY <1>2 DEF BulkTriage, lookupVars
    <2>3. \A g \in Findings : who[g] = "person" => g \in changed
      OBVIOUS
    <2>3a. \A g \in Findings : who[g] \in {"person", "cascade"}
      OBVIOUS
    <2>4. changed \in SUBSET Findings
      OBVIOUS
    <2>. HIDE DEF W, who, changed
    <2>5. /\ class' \in [Findings -> Classes] /\ closed' \subseteq Rows' /\ named' \subseteq Rows'
          /\ author' \in [Findings -> {"nobody", "person", "cascade", "ai", "replay"}]
          /\ Rows \subseteq Rows' /\ ConfirmedNamesActor' /\ StatusInStep'
          /\ \A g \in Findings \ W : class'[g] = class[g] /\ author'[g] = author[g]
          /\ \A g \in W : class'[g] = All(c)[g] /\ author'[g] = who[g]
      BY <2>1, <2>2, WriteKeeps
    <2>6. TriageTypeOK'
      BY <2>2, <2>4, <2>5, TriageBounds
      DEF TriageTypeOK, Request, Bump, Verdicts, Closing, Undecided, Classes, Decisions
    <2>7. HeldIsOpen'
      <3>. SUFFICES ASSUME NEW s \in Scans, NEW g \in loaded'[s] \ stale'[s]
                    PROVE  class'[g] \in Undecided \/ (author'[g] = "cascade" /\ class'[g] # "none")
        BY DEF HeldIsOpen
      <3>1. g \in loaded[s] \ stale[s] /\ g \notin changed /\ g \in Findings
        BY <2>2 DEF Bump, TriageTypeOK
      <3>. QED  BY <2>1, <2>3, <2>3a, <2>5, <3>1 DEF HeldIsOpen
    <2>8. CacheJustified' /\ AnswersJustified'
      BY <2>2 DEF CacheJustified, AnswersJustified, Bump
    <2>. QED  BY <2>5, <2>6, <2>7, <2>8
  <1>3. ASSUME NEW c \in Verdicts, PatchIncident(c)
        PROVE  TriageIInv'
    <2>1. /\ Followers \in SUBSET Findings /\ All(c) \in [Findings -> Classes]
          /\ All("cascade") \in [Findings -> {"nobody", "person", "cascade", "replay"}]
          /\ \A g \in Followers : All(c)[g] # "none"
      BY DEF Followers, Rows, All, Verdicts, Closing, Undecided, Classes
    <2>2. Write(Followers, All(c), All("cascade")) /\ Request /\ incident' = c
          /\ UNCHANGED <<code, cache, phaseVars, scans>>
      BY <1>3 DEF PatchIncident
    <2>3. /\ class' \in [Findings -> Classes] /\ closed' \subseteq Rows' /\ named' \subseteq Rows'
          /\ author' \in [Findings -> {"nobody", "person", "cascade", "ai", "replay"}]
          /\ Rows \subseteq Rows' /\ ConfirmedNamesActor' /\ StatusInStep'
          /\ \A g \in Findings \ Followers : class'[g] = class[g] /\ author'[g] = author[g]
          /\ \A g \in Followers : class'[g] = All(c)[g] /\ author'[g] = All("cascade")[g]
      BY <2>1, <2>2, WriteKeeps
    <2>4. TriageTypeOK'
      BY <2>2, <2>3, TriageBounds
      DEF TriageTypeOK, Request, phaseVars, Verdicts, Closing, Undecided, Classes, Decisions
    <2>5. HeldIsOpen'
      BY <2>1, <2>2, <2>3 DEF HeldIsOpen, phaseVars, All, TriageTypeOK
    <2>6. CacheJustified' /\ AnswersJustified'
      BY <2>2 DEF CacheJustified, AnswersJustified, phaseVars
    <2>. QED  BY <2>3, <2>4, <2>5, <2>6
  <1>4. ASSUME NEW F \in SUBSET Findings, DeleteRows(F)
        PROVE  TriageIInv'
    <2>1. TriageTypeOK'
      BY <1>4, TriageBounds DEF DeleteRows, TriageTypeOK, Request, Bump, lookupVars, Rows, Classes,
                                Decisions
    <2>2. HeldIsOpen'
      BY <1>4 DEF DeleteRows, HeldIsOpen, TriageTypeOK, Bump
    <2>3. ConfirmedNamesActor' /\ StatusInStep' /\ CacheJustified'
      BY <1>4 DEF DeleteRows, ConfirmedNamesActor, StatusInStep, CacheJustified, TriageTypeOK,
                  Closing, Rows
    <2>4. AnswersJustified'
      BY <1>4 DEF DeleteRows, AnswersJustified, TriageTypeOK, Bump, lookupVars
    <2>. QED  BY <2>1, <2>2, <2>3, <2>4
  <1>. QED  BY <1>1, <1>2, <1>3, <1>4 DEF Person

\* A scan stores only rows that are new, and moves the version of every row it saw.
LEMMA StoreKeeps ==
    ASSUME TriageIInv, NEW s \in Scans, NEW F \in SUBSET Findings, NEW C \in SUBSET F,
           StoreScan(s, F, C)
    PROVE  TriageIInv'
  <1>. USE DEF TriageIInv
  <1>. DEFINE W == F \ Rows
  <1>1. /\ phase[s] = "idle" /\ scans < MaxScans /\ scans' = scans + 1
        /\ \A f \in C : code[f] < MaxCode
        /\ code' = [f \in Findings |-> IF f \in C THEN code[f] + 1 ELSE code[f]]
        /\ incident' \in {incident, "needs_review"}
        /\ \/ phase' = [phase EXCEPT ![s] = "load"] /\ unasked'[s] = {}
           \/ phase' = [phase EXCEPT ![s] = "stored"]
        /\ Bump(F) /\ UNCHANGED <<cache, requests, loaded, answer>>
    BY DEF StoreScan, Goes, TriageTypeOK
  <1>2. /\ unasked' \in [Scans -> SUBSET Findings]
        /\ \A t \in Scans : t # s => unasked'[t] \subseteq unasked[t]
    BY DEF StoreScan, TriageTypeOK
  <1>3. /\ W \in SUBSET Findings /\ All("needs_review") \in [Findings -> Classes]
        /\ All("nobody") \in [Findings -> {"nobody", "person", "cascade", "replay"}]
        /\ \A f \in W : All("needs_review")[f] # "none"
        /\ Write(W, All("needs_review"), All("nobody"))
    BY DEF StoreScan, All, Classes, Undecided
  <1>. HIDE DEF W
  <1>4. /\ class' \in [Findings -> Classes] /\ closed' \subseteq Rows' /\ named' \subseteq Rows'
        /\ author' \in [Findings -> {"nobody", "person", "cascade", "ai", "replay"}]
        /\ Rows \subseteq Rows' /\ ConfirmedNamesActor' /\ StatusInStep'
        /\ \A g \in Findings \ W : class'[g] = class[g] /\ author'[g] = author[g]
        /\ \A g \in W : class'[g] = All("needs_review")[g] /\ author'[g] = All("nobody")[g]
    BY <1>3, WriteKeeps
  <1>5. /\ stale' \in [Scans -> SUBSET Findings]
        /\ \A t \in Scans : stale'[t] \subseteq loaded[t] /\ stale[t] \subseteq stale'[t]
        /\ \A t \in Scans : F \cap loaded[t] \subseteq stale'[t]
    BY <1>1 DEF Bump, TriageTypeOK
  <1>6. code' \in [Findings -> 0 .. MaxCode] /\ incident' \in Classes
        /\ \A g \in Findings \ F : code'[g] = code[g]
    <2>1. code \in [Findings -> 0 .. MaxCode] /\ incident \in Classes /\ C \subseteq Findings
      BY DEF TriageTypeOK
    <2>2. code' \in [Findings -> 0 .. MaxCode]
      BY ONLY <1>1, <2>1, TriageBounds
    <2>3. \A g \in Findings \ F : code'[g] = code[g]
      BY <1>1
    <2>4. incident' \in Classes
      BY ONLY <1>1, <2>1 DEF Classes, Undecided
    <2>. QED  BY <2>2, <2>3, <2>4
  <1>7. TriageTypeOK'
    <2>1. scans' \in 0 .. MaxScans /\ requests' \in 0 .. MaxRequests
      BY <1>1, TriageBounds DEF TriageTypeOK
    <2>2. /\ phase' \in [Scans -> {"idle", "stored", "review", "load", "ai"}]
          /\ \A t \in Scans :
                /\ phase'[t] \notin {"review", "ai"} => loaded[t] = {}
                /\ phase'[t] = "review" => unasked'[t] \subseteq loaded[t]
                /\ phase'[t] \in {"idle", "load", "ai"} => unasked'[t] = {}
                /\ phase'[t] # "review" => answer[t] = Unanswered
      <3>1. phase \in [Scans -> {"idle", "stored", "review", "load", "ai"}]
        BY DEF TriageTypeOK
      <3>2. /\ phase' \in [Scans -> {"idle", "stored", "review", "load", "ai"}]
            /\ \A t \in Scans \ {s} : phase'[t] = phase[t]
            /\ phase'[s] \in {"load", "stored"} /\ (phase'[s] = "load" => unasked'[s] = {})
        BY ONLY <1>1, <3>1
      <3>3. loaded[s] = {} /\ answer[s] = Unanswered
        BY <1>1 DEF TriageTypeOK
      <3>. QED  BY <1>2, <3>2, <3>3 DEF TriageTypeOK
    <2>3. TriageTypeOK
      OBVIOUS
    <2>. QED  BY ONLY <1>1, <1>2, <1>4, <1>5, <1>6, <2>1, <2>2, <2>3 DEF TriageTypeOK
  <1>8. HeldIsOpen'
    BY <1>1, <1>4, <1>5 DEF HeldIsOpen, TriageTypeOK, All, Undecided
  <1>9. CacheJustified' /\ AnswersJustified'
    BY <1>1, <1>5, <1>6 DEF CacheJustified, AnswersJustified
  <1>. QED  BY <1>4, <1>7, <1>8, <1>9

\* Step 4d loads rows that are open, and what it finds for them is justified.
LEMMA LookupKeeps ==
    ASSUME TriageIInv, NEW s \in Scans,
           SelectReview(s) \/ (\E f \in Findings : \E h \in 0 .. code[f] : Lookup(s, f, h))
    PROVE  TriageIInv'
  <1>. USE DEF TriageIInv
  <1>1. CASE SelectReview(s)
    <2>. DEFINE fresh == {f \in unasked[s] : class[f] = "needs_review"}
    <2>1. /\ phase[s] = "stored" /\ phase' = [phase EXCEPT ![s] = "review"]
          /\ loaded' = [loaded EXCEPT ![s] = fresh] /\ unasked' = [unasked EXCEPT ![s] = fresh]
          /\ UNCHANGED <<class, closed, named, author, code, cache, incident, stale, answer, scans,
                         requests>>
      BY <1>1 DEF SelectReview, Goes, rowVars
    <2>2. fresh \in SUBSET Findings /\ \A f \in fresh : class[f] = "needs_review"
      BY DEF TriageTypeOK
    <2>. HIDE DEF fresh
    <2>3. stale[s] = {} /\ answer[s] = Unanswered
      BY <2>1 DEF TriageTypeOK
    <2>4. TriageTypeOK'
      BY <2>1, <2>2, <2>3 DEF TriageTypeOK, Rows
    <2>5. HeldIsOpen'
      BY <2>1, <2>2 DEF HeldIsOpen, TriageTypeOK, Undecided
    <2>6. AnswersJustified'
      BY <2>1, <2>3 DEF AnswersJustified, Unanswered, TriageTypeOK
    <2>. QED
      BY <2>1, <2>4, <2>5, <2>6 DEF CacheJustified, ConfirmedNamesActor, StatusInStep
  <1>2. ASSUME NEW f \in Findings, NEW h \in 0 .. code[f], Lookup(s, f, h)
        PROVE  TriageIInv'
    <2>1. /\ phase[s] = "review" /\ f \in unasked[s] /\ (f \in stale[s] \/ h = code[f])
          /\ unasked' = [unasked EXCEPT ![s] = unasked[s] \ {f}]
          /\ answer' = [answer EXCEPT ![s][f] = IF Hit(f, h) THEN cache[f] ELSE NoDecision]
          /\ UNCHANGED <<class, closed, named, author, code, cache, incident, phase, loaded, stale,
                         scans, requests>>
      BY <1>2 DEF Lookup, rowVars
    <2>2. NoDecision \in Decisions
      BY TriageBounds DEF NoDecision, Decisions, Classes
    <2>3. /\ answer' \in [Scans -> [Findings -> Decisions]]
          /\ answer'[s][f] = IF Hit(f, h) THEN cache[f] ELSE NoDecision
          /\ \A t \in Scans, g \in Findings : t # s \/ g # f => answer'[t][g] = answer[t][g]
          /\ \A t \in Scans : t # s => answer'[t] = answer[t]
      BY <2>1, <2>2 DEF TriageTypeOK
    <2>4. TriageTypeOK'
      BY <2>1, <2>3 DEF TriageTypeOK, Rows
    <2>5. f \in loaded[s]
      BY <2>1 DEF TriageTypeOK
    <2>6. AnswersJustified'
      BY <2>1, <2>3, <2>5 DEF AnswersJustified, CacheJustified, Hit
    <2>. QED
      BY <2>1, <2>4, <2>6 DEF HeldIsOpen, CacheJustified, ConfirmedNamesActor, StatusInStep
  <1>. QED  BY <1>1, <1>2

\* The rows step 4d writes: their classes are verdicts, and those that close a row
\* are a person's, for the code of the row.
LEMMA ReplayWrites ==
    ASSUME TriageIInv, NEW s \in Scans, NEW f \in Hits(s)
    PROVE  /\ Replayed(answer[s][f]) \in Classes \ {"none"}
           /\ Replayed(answer[s][f]) \in Closing => Replayed(answer[s][f]) = answer[s][f].class
  <1>1. f \in Findings /\ answer[s][f] # NoDecision
    BY DEF Hits, TriageIInv, TriageTypeOK
  <1>2. answer[s][f].class \in Classes \ {"none"}
    BY <1>1 DEF TriageIInv, TriageTypeOK, AnswersJustified, Decisions
  <1>. QED  BY <1>2 DEF Replayed, Classes, Undecided, Closing

LEMMA ReplayKeeps ==
    ASSUME TriageIInv, NEW s \in Scans, CommitReplay(s)
    PROVE  TriageIInv'
  <1>. USE DEF TriageIInv
  <1>. DEFINE new == [f \in Findings |-> Replayed(answer[s][f])]
              W   == {f \in Hits(s) : new[f] # "needs_review"}
  <1>1. /\ phase[s] = "review" /\ unasked[s] = {} /\ Hits(s) \cap stale[s] = {}
        /\ class' = [f \in Findings |-> IF f \in W THEN new[f] ELSE class[f]]
        /\ closed' = closed \cup {f \in W : new[f] \in Closing}
        /\ named' = named \cup {f \in W : new[f] = "confirmed"}
        /\ author' = [f \in Findings |-> IF f \in W THEN "replay" ELSE author[f]]
        /\ phase' = [phase EXCEPT ![s] = "load"]
        /\ unasked' = [unasked EXCEPT ![s] = {}] /\ answer' = [answer EXCEPT ![s] = Unanswered]
        /\ loaded' = [loaded EXCEPT ![s] = {}]
        /\ stale' = [t \in Scans |-> IF t = s THEN {} ELSE stale[t] \cup (Hits(s) \cap loaded[t])]
        /\ UNCHANGED <<code, cache, incident, scans, requests>>
    BY DEF CommitReplay, Goes, Forgets
  <1>2. /\ W \subseteq Hits(s) /\ Hits(s) \subseteq Findings
        /\ \A f \in W : new[f] \in Classes \ {"none"}
    <2>1. Hits(s) \subseteq Findings
      BY DEF Hits, TriageTypeOK
    <2>2. \A f \in Hits(s) : Replayed(answer[s][f]) \in Classes \ {"none"}
      BY ReplayWrites
    <2>3. \A f \in Findings : new[f] = Replayed(answer[s][f])
      OBVIOUS
    <2>4. \A f \in W : f \in Hits(s)
      OBVIOUS
    <2>. HIDE DEF new, W
    <2>. QED  BY <2>1, <2>2, <2>3, <2>4
  <1>. HIDE DEF W, new
  <1>3. /\ class' \in [Findings -> Classes] /\ Rows \subseteq Rows'
        /\ closed' \subseteq Rows' /\ named' \subseteq Rows'
        /\ author' \in [Findings -> {"nobody", "person", "cascade", "ai", "replay"}]
    BY <1>1, <1>2 DEF TriageTypeOK, Rows
  <1>4. Unanswered \in [Findings -> Decisions]
    BY TriageBounds DEF Unanswered, NoDecision, Decisions, Classes
  <1>5. TriageTypeOK'
    BY <1>1, <1>2, <1>3, <1>4 DEF TriageTypeOK
  <1>6. HeldIsOpen'
    BY <1>1, <1>2 DEF HeldIsOpen, TriageTypeOK
  <1>7. AnswersJustified'
    BY <1>1 DEF AnswersJustified, Unanswered, TriageTypeOK
  <1>8. ConfirmedNamesActor' /\ StatusInStep'
    BY <1>1, <1>2 DEF ConfirmedNamesActor, StatusInStep, TriageTypeOK
  <1>. QED  BY <1>1, <1>5, <1>6, <1>7, <1>8 DEF CacheJustified

\* The AI writes rows it found undecided and whose version has not moved, their
\* undecided siblings, and cache entries no person wrote.
LEMMA AiKeeps ==
    ASSUME TriageIInv, NEW s \in Scans, NEW L \in SUBSET loaded[s],
           NEW D \in SUBSET loaded[s], NEW N \in SUBSET loaded[s], AiApply(s, L, D, N)
    PROVE  TriageIInv'
  <1>. USE DEF TriageIInv
  <1>. DEFINE new == [f \in Findings |-> AiClass(L, f)]
  <1>1. /\ class' = new
        /\ author' = [f \in Findings |-> IF new[f] # class[f] THEN "ai" ELSE author[f]]
        /\ UNCHANGED <<closed, named, code, scans, requests>>
        /\ phase[s] = "ai" /\ phase' = [phase EXCEPT ![s] = "idle"]
        /\ loaded' = [loaded EXCEPT ![s] = {}] /\ unasked' = [unasked EXCEPT ![s] = {}]
        /\ answer' = [answer EXCEPT ![s] = Unanswered]
        /\ incident' = AiIncident(L)
    BY DEF AiApply, EndScan, Goes, Forgets
  <1>2. \A f \in Findings : new[f] \in {"likely", class[f]}
    BY DEF AiClass
  <1>3. \A f \in Findings : class[f] = "none" => new[f] = "none"
    <2>1. \A f \in L : class[f] # "none"
      BY DEF AiApply, HeldIsOpen, Undecided
    <2>. QED  BY <2>1 DEF AiClass
  <1>4a. new \in [Findings -> Classes]
    BY <1>2 DEF TriageTypeOK, Classes, Undecided
  <1>. HIDE DEF new
  <1>4. /\ class' \in [Findings -> Classes] /\ Rows' = Rows
        /\ author' \in [Findings -> {"nobody", "person", "cascade", "ai", "replay"}]
    BY <1>1, <1>2, <1>3, <1>4a DEF TriageTypeOK, Rows
  <1>5. \A f \in Findings : cache'[f] = cache[f]
                           \/ /\ cache[f].by # "user" /\ cache'[f].by = "ai"
                              /\ cache'[f].class \in Undecided /\ cache'[f] \in Decisions
    BY DEF AiApply, AiDecision, TriageTypeOK, Decisions, Classes, Undecided
  <1>6. cache' \in [Findings -> Decisions] /\ CacheJustified'
    BY <1>5 DEF AiApply, TriageTypeOK, CacheJustified, Undecided, Closing
  <1>7. /\ stale' \in [Scans -> SUBSET Findings] /\ stale'[s] = {}
        /\ \A t \in Scans \ {s} : stale[t] \subseteq stale'[t] /\ stale'[t] \subseteq loaded[t]
        /\ \A t \in Scans \ {s} : L \cap loaded[t] \subseteq stale'[t]
    BY DEF AiApply, TriageTypeOK
  <1>8. Unanswered \in [Findings -> Decisions]
    BY TriageBounds DEF Unanswered, NoDecision, Decisions, Classes
  <1>9. TriageTypeOK'
    <2>1. incident' \in Classes
      BY <1>1 DEF TriageTypeOK, AiIncident, Classes, Undecided
    <2>2. closed' \subseteq Rows' /\ named' \subseteq Rows'
      BY <1>1, <1>4 DEF TriageTypeOK
    <2>3. \A f \in Findings : cache'[f].by = "ai" => cache'[f].class \in Undecided
      BY <1>5 DEF TriageTypeOK
    <2>. QED
      BY <1>1, <1>4, <1>6, <1>7, <1>8, <2>1, <2>2, <2>3 DEF TriageTypeOK
  <1>10. HeldIsOpen' /\ AnswersJustified'
    <2>1. HeldIsOpen'
      <3>. SUFFICES ASSUME NEW t \in Scans, NEW g \in loaded'[t] \ stale'[t]
                    PROVE  class'[g] \in Undecided \/ (author'[g] = "cascade" /\ class'[g] # "none")
        BY DEF HeldIsOpen
      <3>1. t # s /\ g \in loaded[t] \ stale[t] /\ g \in Findings
        BY <1>1, <1>7 DEF TriageTypeOK
      <3>2. class'[g] = "likely" \/ (class'[g] = class[g] /\ author'[g] = author[g])
        BY <1>1, <1>2, <3>1
      <3>3. class[g] \in Undecided \/ (author[g] = "cascade" /\ class[g] # "none")
        BY <3>1 DEF HeldIsOpen
      <3>. QED  BY <3>2, <3>3 DEF Undecided
    <2>2. AnswersJustified'
      <3>1. /\ answer'[s] = Unanswered /\ \A t \in Scans \ {s} : answer'[t] = answer[t]
            /\ \A t \in Scans \ {s} : loaded'[t] = loaded[t]
            /\ code' = code
        BY <1>1 DEF TriageTypeOK
      <3>2. \A f \in Findings : cache[f].by = "user" => cache'[f] = cache[f]
        BY ONLY <1>5
      <3>3. AnswersJustified
        OBVIOUS
      <3>. QED  BY ONLY <1>7, <3>1, <3>2, <3>3 DEF AnswersJustified, Unanswered
    <2>. QED  BY <2>1, <2>2
  <1>11. ConfirmedNamesActor' /\ StatusInStep'
    BY <1>1, <1>2 DEF ConfirmedNamesActor, StatusInStep, Closing
  <1>. QED  BY <1>6, <1>9, <1>10, <1>11

LEMMA OthersKeep ==
    ASSUME TriageIInv, \/ \E s \in Scans : LoseReplay(s) \/ LoadForAi(s) \/ Over(s)
                       \/ \E f \in Findings : Lapse(f)
                       \/ UNCHANGED triageVars
    PROVE  TriageIInv'
  <1>. USE DEF TriageIInv
  <1>. Unanswered \in [Findings -> Decisions]
    BY TriageBounds DEF Unanswered, NoDecision, Decisions, Classes
  <1>1. ASSUME NEW s \in Scans, LoseReplay(s) \/ Over(s)
        PROVE  TriageIInv'
    <2>1. /\ \E to \in {"idle", "load"} : phase' = [phase EXCEPT ![s] = to]
          /\ loaded' = [loaded EXCEPT ![s] = {}] /\ stale' = [stale EXCEPT ![s] = {}]
          /\ unasked' = [unasked EXCEPT ![s] = {}] /\ answer' = [answer EXCEPT ![s] = Unanswered]
          /\ UNCHANGED <<class, closed, named, author, code, cache, incident, scans, requests>>
      BY <1>1 DEF LoseReplay, Over, EndScan, Goes, Forgets, rowVars
    <2>2. TriageTypeOK'
      BY <2>1 DEF TriageTypeOK, Rows
    <2>3. HeldIsOpen' /\ AnswersJustified'
      BY <2>1 DEF HeldIsOpen, AnswersJustified, Unanswered, TriageTypeOK
    <2>. QED  BY <2>1, <2>2, <2>3 DEF CacheJustified, ConfirmedNamesActor, StatusInStep
  <1>1a. ASSUME NEW s \in Scans, LoadForAi(s)
         PROVE  TriageIInv'
    <2>. DEFINE fresh == {f \in Findings : class[f] = "needs_review"}
    <2>1. /\ phase[s] = "load" /\ phase' = [phase EXCEPT ![s] = "ai"]
          /\ loaded' = [loaded EXCEPT ![s] = fresh]
          /\ UNCHANGED <<class, closed, named, author, code, cache, incident, stale, unasked, answer,
                         scans, requests>>
      BY <1>1a DEF LoadForAi, Goes, rowVars, lookupVars
    <2>2. fresh \in SUBSET Findings /\ \A f \in fresh : class[f] = "needs_review"
      OBVIOUS
    <2>. HIDE DEF fresh
    <2>3. stale[s] = {} /\ answer[s] = Unanswered /\ unasked[s] = {}
      BY <2>1 DEF TriageTypeOK
    <2>4. TriageTypeOK'
      BY <2>1, <2>2, <2>3 DEF TriageTypeOK, Rows
    <2>5. HeldIsOpen' /\ AnswersJustified'
      BY <2>1, <2>2, <2>3 DEF HeldIsOpen, AnswersJustified, Unanswered, TriageTypeOK, Undecided
    <2>. QED  BY <2>1, <2>4, <2>5 DEF CacheJustified, ConfirmedNamesActor, StatusInStep
  <1>2. ASSUME NEW f \in Findings, Lapse(f)
        PROVE  TriageIInv'
    <2>1. cache[f].class = "accepted_risk" /\ cache' = [cache EXCEPT ![f].lapsed = TRUE]
          /\ UNCHANGED <<rowVars, code, incident, phaseVars, scans, requests>>
      BY <1>2 DEF Lapse
    <2>2. cache[f] \in Decisions /\ cache[f] # NoDecision
      BY <2>1 DEF TriageTypeOK, NoDecision
    <2>3. /\ cache' \in [Findings -> Decisions]
          /\ cache'[f].class = cache[f].class /\ cache'[f].by = cache[f].by
          /\ \A g \in Findings \ {f} : cache'[g] = cache[g]
      BY <2>1, <2>2 DEF TriageTypeOK, Decisions
    <2>4. TriageTypeOK'
      BY <2>1, <2>3 DEF TriageTypeOK, Rows, rowVars, phaseVars
    <2>4a. \A g \in Findings : cache'[g].class = cache[g].class /\ cache'[g].by = cache[g].by
                              /\ cache'[g].code = cache[g].code
      BY <2>1, <2>2, <2>3 DEF TriageTypeOK, Decisions
    <2>5. CacheJustified' /\ AnswersJustified'
      BY <2>1, <2>2, <2>3, <2>4a DEF CacheJustified, AnswersJustified, phaseVars
    <2>. QED
      BY <2>1, <2>4, <2>5 DEF HeldIsOpen, ConfirmedNamesActor, StatusInStep, rowVars, phaseVars
  <1>3. CASE UNCHANGED triageVars
    BY <1>3 DEF triageVars, rowVars, phaseVars, TriageTypeOK, Rows, HeldIsOpen, CacheJustified,
                AnswersJustified, ConfirmedNamesActor, StatusInStep
  <1>. QED  BY <1>1, <1>1a, <1>2, <1>3

LEMMA NextKeeps == TriageIInv /\ [TriageNext]_triageVars => TriageIInv'
  <1>1. ASSUME TriageIInv, TriageNext
        PROVE  TriageIInv'
    BY <1>1, PersonKeeps, StoreKeeps, LookupKeeps, ReplayKeeps, AiKeeps, OthersKeep
    DEF TriageNext, Machine
  <1>. QED  BY <1>1, OthersKeep

THEOREM TriageIInvHolds == TriageSpec => []TriageIInv
  BY TriageInitIInv, NextKeeps, PTL DEF TriageSpec

\* Type correctness of the finding rows, the cache and the AI's sessions.
THEOREM TriageTypeCorrect == TriageSpec => []TriageTypeOK
  BY TriageIInvHolds, PTL DEF TriageIInv

\* A confirmed finding names an actor, by whatever way it was confirmed.
THEOREM ConfirmationsNameActor == TriageSpec => []ConfirmedNamesActor
  BY TriageIInvHolds, PTL DEF TriageIInv

\* Class and status are in step, except under a verdict of a machine on an object it
\* loaded before a cascade: the AI's, or one replayed from the cache.
THEOREM StatusStaysInStep == TriageSpec => []StatusInStep
  BY TriageIInvHolds, PTL DEF TriageIInv

-----------------------------------------------------------------------------
(* Action properties *)

\* What a cascade writes were rows nobody had ruled on.
LEMMA FollowersAreUndecided ==
    \A f \in Followers : class[f] \notin Closing
  BY DEF Followers, Undecided, Closing

\* No step but a person's own ruling changes a closing verdict a person gave.
LEMMA VerdictKeptByStep ==
    ASSUME TriageIInv, [TriageNext]_triageVars, NEW f \in Findings,
           author[f] = "person", class[f] \in Closing, class'[f] \notin {class[f], "none"}
    PROVE  author'[f] = "person"
  <1>. USE FollowersAreUndecided DEF TriageIInv
  <1>1. CASE \E g \in Findings, c \in Verdicts : TriageFinding(g, c)
    BY <1>1 DEF TriageFinding, Write, All, TriageTypeOK
  <1>2. CASE \E F \in SUBSET Findings, c \in Verdicts : BulkTriage(F, c)
    BY <1>2 DEF BulkTriage, Write, All, TriageTypeOK
  <1>3. CASE \E c \in Verdicts : PatchIncident(c)
    BY <1>3 DEF PatchIncident, Write, All, TriageTypeOK
  <1>4. CASE \E F \in SUBSET Findings : DeleteRows(F)
    BY <1>4 DEF DeleteRows
  <1>5. CASE \E s \in Scans, F \in SUBSET Findings : \E C \in SUBSET F : StoreScan(s, F, C)
    BY <1>5 DEF StoreScan, Write, TriageTypeOK, Rows, Closing
  <1>5a. ASSUME NEW s \in Scans, CommitReplay(s)
         PROVE  FALSE
    <2>1. f \in Hits(s) /\ Hits(s) \cap stale[s] = {}
      BY <1>5a DEF CommitReplay
    <2>2. f \in loaded[s] \ stale[s]
      BY <2>1 DEF Hits
    <2>. QED  BY <2>2 DEF HeldIsOpen, Undecided, Closing
  <1>6. ASSUME NEW s \in Scans, NEW L \in SUBSET loaded[s], NEW D \in SUBSET loaded[s],
               NEW N \in SUBSET loaded[s], AiApply(s, L, D, N)
        PROVE  FALSE
    <2>1. f \in L
      BY <1>6 DEF AiApply, AiClass, Closing
    <2>2. f \in loaded[s] \ stale[s]
      BY <1>6, <2>1 DEF AiApply, TriageTypeOK
    <2>. QED  BY <2>2 DEF HeldIsOpen, Undecided, Closing
  <1>7. CASE \E s \in Scans : SelectReview(s) \/ LoseReplay(s) \/ LoadForAi(s) \/ Over(s)
                             \/ \E g \in Findings : \E h \in 0 .. code[g] : Lookup(s, g, h)
    BY <1>7 DEF SelectReview, LoseReplay, LoadForAi, Over, Lookup, rowVars
  <1>8. CASE \E g \in Findings : Lapse(g)
    BY <1>8 DEF Lapse, rowVars
  <1>9. CASE UNCHANGED triageVars
    BY <1>9 DEF triageVars, rowVars
  <1>. QED
    BY <1>1, <1>2, <1>3, <1>4, <1>5, <1>5a, <1>6, <1>7, <1>8, <1>9 DEF TriageNext, Person, Machine

\* What a person ruled on a finding is changed only by a person ruling on it.
THEOREM PersonalVerdictsStay == TriageSpec => PersonalVerdictKept
  <1>1. TriageIInv /\ [TriageNext]_triageVars
          => [\A f \in Findings :
                author[f] = "person" /\ class[f] \in Closing /\ class'[f] \notin {class[f], "none"}
                   => author'[f] = "person"]_triageVars
    BY VerdictKeptByStep
  <1>. QED  BY <1>1, TriageIInvHolds, PTL DEF TriageSpec, PersonalVerdictKept

\* No scan, replay or AI answer changes a decided incident, or a person's decision
\* in the cache.
THEOREM MachinesOverruleNobody == TriageSpec => MachinesNeverOverrule
  <1>. DEFINE Kept == /\ incident \in Closing => incident' = incident
                      /\ \A f \in Findings : cache[f].by = "user" =>
                            cache'[f].class = cache[f].class /\ cache'[f].by = "user"
  <1>1. ASSUME TriageIInv, [TriageNext]_triageVars, requests' = requests
        PROVE  Kept
    <2>1. CASE Person
      <3>1. requests' = requests + 1
        BY <2>1 DEF Person, TriageFinding, BulkTriage, PatchIncident, DeleteRows, Request
      <3>2. requests \in 0 .. MaxRequests
        BY <1>1 DEF TriageIInv, TriageTypeOK
      <3>. QED  BY <1>1, <3>1, <3>2, TriageBounds
    <2>2. CASE \E s \in Scans, F \in SUBSET Findings : \E C \in SUBSET F : StoreScan(s, F, C)
      BY <2>2 DEF StoreScan, Closing
    <2>3. ASSUME NEW s \in Scans, NEW L \in SUBSET loaded[s], NEW D \in SUBSET loaded[s],
                 NEW N \in SUBSET loaded[s], AiApply(s, L, D, N)
          PROVE  Kept
      BY <2>3 DEF AiApply, AiIncident, AiDecision, Closing
    <2>4. CASE \E s \in Scans :
                  \/ SelectReview(s) \/ CommitReplay(s) \/ LoseReplay(s) \/ LoadForAi(s) \/ Over(s)
                  \/ \E g \in Findings : \E h \in 0 .. code[g] : Lookup(s, g, h)
      BY <2>4 DEF SelectReview, CommitReplay, LoseReplay, LoadForAi, Over, Lookup
    <2>5. ASSUME NEW g \in Findings, Lapse(g)
          PROVE  Kept
      <3>1. /\ cache \in [Findings -> Decisions] /\ incident' = incident
            /\ cache' = [cache EXCEPT ![g].lapsed = TRUE]
        BY <1>1, <2>5 DEF Lapse, TriageIInv, TriageTypeOK
      <3>2. \A f \in Findings : cache'[f].class = cache[f].class /\ cache'[f].by = cache[f].by
        BY <3>1 DEF Decisions
      <3>. QED  BY <3>1, <3>2
    <2>6. CASE UNCHANGED triageVars
      BY <2>6 DEF triageVars
    <2>. QED  BY <1>1, <2>1, <2>2, <2>3, <2>4, <2>5, <2>6 DEF TriageNext, Machine
  <1>2. TriageIInv /\ [TriageNext]_triageVars => [requests' = requests => Kept]_triageVars
    BY <1>1
  <1>. QED  BY <1>2, TriageIInvHolds, PTL DEF TriageSpec, MachinesNeverOverrule

\* What step 4d writes over is open, or a cascade's, and what it closes is as a person
\* decided for the code as it is.
LEMMA ReplayOfCommit ==
    ASSUME TriageIInv, NEW s \in Scans, CommitReplay(s), NEW f \in Findings,
           class'[f] # class[f]
    PROVE  /\ class[f] \in Undecided \/ author[f] = "cascade"
           /\ class'[f] \in Closing =>
                 /\ cache[f].by = "user" /\ cache[f].class = class'[f]
                 /\ cache[f].code = code'[f]
  <1>. USE DEF TriageIInv
  <1>1. /\ f \in Hits(s) /\ Hits(s) \cap stale[s] = {}
        /\ class'[f] = Replayed(answer[s][f]) /\ code' = code
    BY DEF CommitReplay
  <1>2. f \in loaded[s] \ stale[s] /\ answer[s][f] # NoDecision
    BY <1>1 DEF Hits
  <1>3. class'[f] \in Closing => class'[f] = answer[s][f].class
    BY <1>1, ReplayWrites
  <1>. QED  BY <1>1, <1>2, <1>3 DEF HeldIsOpen, AnswersJustified

\* A replay takes away opinions, and what a cascade wrote after the row was selected,
\* and it closes a row only as a person decided for that code.
THEOREM ReplaysAreFaithful == TriageSpec => ReplayIsFaithful
  <1>. DEFINE Faithful(f) ==
                 /\ class[f] \in Undecided \/ author[f] = "cascade"
                 /\ class'[f] \in Closing =>
                       /\ cache[f].by = "user" /\ cache[f].class = class'[f]
                       /\ cache[f].code = code'[f]
  <1>1. ASSUME TriageIInv, [TriageNext]_triageVars, NEW f \in Findings,
               author'[f] = "replay", class'[f] # class[f]
        PROVE  Faithful(f)
    <2>. USE <1>1 DEF TriageIInv
    <2>1. ~ \E g \in Findings, c \in Verdicts : TriageFinding(g, c)
      <3>1. SUFFICES ASSUME NEW g \in Findings, NEW c \in Verdicts, TriageFinding(g, c)
                     PROVE  FALSE
        OBVIOUS
      <3>2. /\ class' = [x \in Findings |-> IF x \in {g} \cup Followers THEN c ELSE class[x]]
            /\ author' = [x \in Findings |-> IF x \in {g} \cup Followers
                                             THEN [All("cascade") EXCEPT ![g] = "person"][x]
                                             ELSE author[x]]
        BY <3>1 DEF TriageFinding, Write, All
      <3>3. [All("cascade") EXCEPT ![g] = "person"][f] # "replay"
        BY DEF All
      <3>. QED  BY <3>2, <3>3
    <2>2. ~ \E F \in SUBSET Findings, c \in Verdicts : BulkTriage(F, c)
      <3>1. SUFFICES ASSUME NEW F \in SUBSET Findings, NEW c \in Verdicts, BulkTriage(F, c)
                     PROVE  FALSE
        OBVIOUS
      <3>2. PICK W \in SUBSET Findings :
                 \E who \in [Findings -> {"person", "cascade"}] : Write(W, All(c), who)
        <4>. DEFINE changed == {g \in F : class[g] # c}
                    who == [g \in Findings |-> IF g \in changed THEN "person" ELSE "cascade"]
        <4>1. who \in [Findings -> {"person", "cascade"}]
          OBVIOUS
        <4>2. Write(changed \cup Followers, All(c), who) /\ changed \cup Followers \in SUBSET Findings
          BY <3>1 DEF BulkTriage, Followers, Rows
        <4>. HIDE DEF who, changed
        <4>. QED  BY <4>1, <4>2
      <3>3. f \in W
        BY <3>2 DEF Write, TriageTypeOK
      <3>. QED  BY <3>2, <3>3 DEF Write
    <2>3. ~ \E c \in Verdicts : PatchIncident(c)
      BY DEF PatchIncident, Write, All, TriageTypeOK
    <2>4. ~ \E F \in SUBSET Findings : DeleteRows(F)
      BY DEF DeleteRows, TriageTypeOK
    <2>5. ~ \E s \in Scans, F \in SUBSET Findings : \E C \in SUBSET F : StoreScan(s, F, C)
      BY DEF StoreScan, Write, All, TriageTypeOK
    <2>5a. ASSUME NEW s \in Scans, CommitReplay(s)
           PROVE  Faithful(f)
      BY <2>5a, ReplayOfCommit
    <2>6. ~ \E s \in Scans : \E L, D, N \in SUBSET loaded[s] : AiApply(s, L, D, N)
      BY DEF AiApply, TriageTypeOK
    <2>7. ~ \E s \in Scans : SelectReview(s) \/ LoseReplay(s) \/ LoadForAi(s) \/ Over(s)
                            \/ \E g \in Findings : \E h \in 0 .. code[g] : Lookup(s, g, h)
      BY DEF SelectReview, LoseReplay, LoadForAi, Over, Lookup, rowVars
    <2>8. ~ \E g \in Findings : Lapse(g)
      BY DEF Lapse, rowVars
    <2>9. ~ UNCHANGED triageVars
      BY DEF triageVars, rowVars
    <2>. QED
      BY <2>1, <2>2, <2>3, <2>4, <2>5, <2>5a, <2>6, <2>7, <2>8, <2>9
      DEF TriageNext, Person, Machine
  <1>2. TriageIInv /\ [TriageNext]_triageVars
          => [\A f \in Findings : author'[f] = "replay" /\ class'[f] # class[f]
                                    => Faithful(f)]_triageVars
    BY <1>1
  <1>. QED  BY <1>2, TriageIInvHolds, PTL DEF TriageSpec, ReplayIsFaithful

-----------------------------------------------------------------------------
(* Imports: a task that stores one has a row that is visible; every item of its *)
(* payload is still to do, was looked up and missed, or is stored; and an item *)
(* that two tasks missed, or one missed and another stored, was raced for. *)


ImportTypeOK ==
    /\ row \in [Imports -> {"none", "asked", "flushed", "pending", "running", "completed",
                            "failed", "cancelled"}]
    /\ key \in [Imports -> Keys] /\ payload \in [Imports -> SUBSET Items]
    /\ msg \subseteq Imports /\ storing \subseteq Imports
    /\ todo \in [Imports -> SUBSET Items] /\ missed \in [Imports -> SUBSET Items]
    /\ at \in [Imports -> Items \cup {NoItem}]
    /\ rows \in [Items -> Nat] /\ raced \subseteq Items

\* A row that is inserted, also one that is not committed yet, has its key alone.
KeyOnce ==
    \A i, j \in Imports :
        i # j /\ row[i] \notin {"none", "asked"} /\ row[j] \notin {"none", "asked"}
            => key[i] # key[j]

StoringIsVisible == \A j \in storing : Visible(j)

\* Nothing of a payload is forgotten on the way.
PayloadCovered ==
    /\ \A j \in storing, f \in Items :
          f \in payload[j] => f \in todo[j] \/ f \in missed[j] \/ rows[f] > 0
    /\ \A j \in storing, f \in Items : at[j] = f => f \in missed[j] \/ rows[f] > 0
    /\ \A j \in Imports \ storing : at[j] = NoItem

RacesRecorded ==
    \A f \in Items, j \in Imports :
        f \in missed[j] =>
            /\ rows[f] > 0 => f \in raced
            /\ \A i \in Imports \ {j} : f \in missed[i] => f \in raced

ImportIInv ==
    /\ ImportTypeOK /\ KeyOnce /\ StoringIsVisible /\ PayloadCovered /\ RacesRecorded
    /\ CompletedMeansStored /\ DuplicateNeedsOverlap

LEMMA ImportInitIInv ==
    ImportInit => ImportIInv
  BY ImportAssumption
  DEF ImportInit, ImportIInv, ImportTypeOK, KeyOnce, StoringIsVisible, PayloadCovered,
      RacesRecorded, CompletedMeansStored, DuplicateNeedsOverlap, Visible

\* The request's actions touch neither a task nor what is stored.
LEMMA RequestKeeps ==
    ASSUME ImportIInv, NEW j \in Imports,
           \/ \E P \in Payloads : Ask(j, P)
           \/ Insert(j) \/ LoseRace(j) \/ CommitRequest(j) \/ AbortRequest(j)
    PROVE  ImportIInv'
  <1>. USE DEF ImportIInv
  <1>1. UNCHANGED <<key, taskVars, rows, raced>>
    BY DEF Ask, Insert, LoseRace, CommitRequest, AbortRequest, requestVars, storeVars
  <1>2. ImportTypeOK'
    BY <1>1, ImportAssumption
    DEF ImportTypeOK, taskVars, Ask, Insert, LoseRace, CommitRequest, AbortRequest, requestVars
  <1>3. /\ \A i \in Imports \ {j} : row'[i] = row[i] /\ payload'[i] = payload[i]
        /\ row[j] \in {"none", "asked", "flushed"} /\ row'[j] # "completed"
    BY DEF ImportTypeOK, Ask, Insert, LoseRace, CommitRequest, AbortRequest, requestVars
  <1>4. j \notin storing
    BY <1>3 DEF StoringIsVisible, Visible
  <1>5. KeyOnce'
    <2>1. CASE row'[j] \in {"none", "asked"}
      BY <1>1, <1>3, <2>1 DEF KeyOnce
    <2>2. CASE Insert(j)
      <3>1. \A i \in Imports : row[i] \notin {"none", "asked"} => key[i] # key[j]
        BY <2>2 DEF Insert, KeyPending, KeyTaken, Visible
      <3>. QED  BY <1>1, <1>3, <3>1 DEF KeyOnce
    <2>3. CASE CommitRequest(j)
      BY <1>1, <1>3, <2>3 DEF KeyOnce, CommitRequest
    <2>. QED
      BY <2>1, <2>2, <2>3 DEF ImportTypeOK, Ask, LoseRace, AbortRequest
  <1>6. StoringIsVisible' /\ PayloadCovered'
    BY <1>1, <1>3, <1>4 DEF StoringIsVisible, PayloadCovered, Visible, taskVars, ImportTypeOK
  <1>7. RacesRecorded' /\ DuplicateNeedsOverlap'
    BY <1>1 DEF RacesRecorded, DuplicateNeedsOverlap, taskVars
  <1>8. CompletedMeansStored'
    BY <1>1, <1>3 DEF CompletedMeansStored
  <1>. QED  BY <1>2, <1>5, <1>6, <1>7, <1>8

\* What only changes rows that have been inserted, and leaves them inserted.
LEMMA KeysStay ==
    ASSUME ImportIInv, NEW j \in Imports, NEW r \in {"running", "completed", "failed", "cancelled"},
           Visible(j), row' = [row EXCEPT ![j] = r] \/ row' = row, UNCHANGED <<requestVars>>
    PROVE  KeyOnce' /\ (\A i \in Imports : Visible(i) => Visible(i)')
           /\ \A i \in Imports \ {j} : row'[i] = row[i]
  BY DEF ImportIInv, ImportTypeOK, KeyOnce, Visible, requestVars

\* Taking a message, looking an item up and its upsert.
LEMMA TreatingKeeps ==
    ASSUME ImportIInv, NEW j \in Imports,
           \/ TakeNothing(j) \/ Take(j) \/ Upsert(j)
           \/ \E f \in Items : LookUp(j, f)
    PROVE  ImportIInv'
  <1>. USE DEF ImportIInv
  <1>1. CASE TakeNothing(j)
    BY <1>1
    DEF TakeNothing, requestVars, taskVars, storeVars, ImportTypeOK, KeyOnce, StoringIsVisible,
        PayloadCovered, RacesRecorded, CompletedMeansStored, DuplicateNeedsOverlap, Visible
  <1>2. CASE Take(j)
    <2>1. /\ Visible(j) /\ row' = [row EXCEPT ![j] = "running"] /\ storing' = storing \cup {j}
          /\ todo' = [todo EXCEPT ![j] = payload[j]] /\ msg' = msg \ {j} /\ j \notin storing
          /\ UNCHANGED <<requestVars, missed, found, at, storeVars, raced>>
      BY <1>2 DEF Take
    <2>2. KeyOnce' /\ \A i \in Imports : Visible(i) => Visible(i)'
      BY <2>1, KeysStay
    <2>3. StoringIsVisible'
      BY <2>1, <2>2 DEF StoringIsVisible, ImportTypeOK
    <2>4. ImportTypeOK'
      BY <2>1 DEF ImportTypeOK, requestVars, storeVars
    <2>5. PayloadCovered'
      <3>1. at[j] = NoItem /\ payload' = payload /\ at' = at /\ missed' = missed /\ rows' = rows
        BY <2>1 DEF PayloadCovered, requestVars, storeVars
      <3>2. \A i \in Imports : todo'[i] = IF i = j THEN payload[j] ELSE todo[i]
        BY <2>1 DEF ImportTypeOK
      <3>3. NoItem \notin Items
        BY ImportAssumption
      <3>. QED  BY <2>1, <3>1, <3>2, <3>3 DEF PayloadCovered
    <2>6. CompletedMeansStored' /\ RacesRecorded' /\ DuplicateNeedsOverlap'
      BY <2>1
      DEF CompletedMeansStored, RacesRecorded, DuplicateNeedsOverlap, ImportTypeOK, requestVars,
          storeVars
    <2>. QED  BY <2>2, <2>3, <2>4, <2>5, <2>6
  <1>3. CASE Upsert(j)
    <2>1. /\ j \in storing /\ at[j] # NoItem
          /\ todo' = [todo EXCEPT ![j] = @ \ {at[j]}] /\ at' = [at EXCEPT ![j] = NoItem]
          /\ UNCHANGED <<row, requestVars, msg, storing, missed, storeVars, raced>>
      BY <1>3 DEF Upsert
    <2>2. ImportTypeOK'
      BY <2>1 DEF ImportTypeOK, requestVars, storeVars
    <2>3. PayloadCovered'
      <3>1. /\ \A i \in Imports : at'[i] = IF i = j THEN NoItem ELSE at[i]
            /\ \A i \in Imports : todo'[i] = IF i = j THEN todo[j] \ {at[j]} ELSE todo[i]
            /\ payload' = payload /\ missed' = missed /\ rows' = rows /\ storing' = storing
        BY <2>1 DEF ImportTypeOK, requestVars, storeVars
      <3>2. NoItem \notin Items
        BY ImportAssumption
      <3>3. ASSUME NEW i \in storing, NEW f \in Items, f \in payload[i]
            PROVE  f \in todo'[i] \/ f \in missed[i] \/ rows[f] > 0
        BY <2>1, <3>1, <3>3 DEF PayloadCovered, ImportTypeOK
      <3>4. \A i \in storing, f \in Items : at'[i] = f => f \in missed[i] \/ rows[f] > 0
        BY <2>1, <3>1, <3>2 DEF PayloadCovered, ImportTypeOK
      <3>5. \A i \in Imports \ storing : at'[i] = NoItem
        BY <2>1, <3>1 DEF PayloadCovered
      <3>. QED  BY <3>1, <3>3, <3>4, <3>5 DEF PayloadCovered
    <2>. QED
      BY <2>1, <2>2, <2>3
      DEF KeyOnce, StoringIsVisible, RacesRecorded, CompletedMeansStored, DuplicateNeedsOverlap,
          Visible, requestVars, storeVars
  <1>4. ASSUME NEW f \in Items, LookUp(j, f)
        PROVE  ImportIInv'
    <2>1. /\ j \in storing /\ f \in todo[j] /\ rows[f] \in Nat
          /\ at' = [at EXCEPT ![j] = f]
          /\ UNCHANGED <<row, requestVars, msg, storing, todo, storeVars>>
          /\ rows[f] = 0 => /\ missed' = [missed EXCEPT ![j] = @ \cup {f}]
                            /\ (\E i \in Imports \ {j} : f \in missed[i]) => f \in raced'
          /\ rows[f] # 0 => missed' = missed
          /\ raced' \in {raced, raced \cup {f}}
      BY <1>4 DEF LookUp, ImportTypeOK
    <2>2. ImportTypeOK'
      BY <2>1 DEF ImportTypeOK, requestVars, storeVars
    <2>3. PayloadCovered'
      BY <2>1 DEF PayloadCovered, ImportTypeOK, requestVars, storeVars
    <2>4. RacesRecorded'
      <3>1. CASE rows[f] = 0
        BY <2>1, <3>1 DEF RacesRecorded, ImportTypeOK, storeVars
      <3>2. CASE rows[f] # 0
        BY <2>1, <3>2 DEF RacesRecorded, storeVars
      <3>. QED  BY <3>1, <3>2
    <2>. QED
      BY <2>1, <2>2, <2>3, <2>4
      DEF KeyOnce, StoringIsVisible, CompletedMeansStored, DuplicateNeedsOverlap, Visible,
          requestVars, storeVars
  <1>. QED  BY <1>1, <1>2, <1>3, <1>4

\* A task that is over leaves nothing behind.
LEMMA EndKeeps ==
    ASSUME ImportIInv, NEW j \in Imports, EndTask(j), UNCHANGED <<raced, rows>>
    PROVE  RacesRecorded' /\ DuplicateNeedsOverlap' /\ (UNCHANGED payload => PayloadCovered')
  BY DEF ImportIInv, ImportTypeOK, EndTask, RacesRecorded, DuplicateNeedsOverlap, PayloadCovered

LEMMA AbandonKeeps ==
    ASSUME ImportIInv, NEW j \in Imports, Abandon(j)
    PROVE  ImportIInv'
  <1>. USE DEF ImportIInv
  <1>1. /\ Visible(j) /\ row' = [row EXCEPT ![j] = "failed"] /\ EndTask(j)
        /\ UNCHANGED <<requestVars, msg, storeVars, raced>>
    BY DEF Abandon, StoringIsVisible
  <1>2. KeyOnce' /\ \A i \in Imports : Visible(i) => Visible(i)'
    BY <1>1, KeysStay
  <1>3. StoringIsVisible'
    BY <1>1, <1>2 DEF EndTask, StoringIsVisible, ImportTypeOK
  <1>4. ImportTypeOK'
    BY <1>1 DEF EndTask, ImportTypeOK, requestVars, storeVars
  <1>5. CompletedMeansStored'
    BY <1>1 DEF CompletedMeansStored, ImportTypeOK, requestVars, storeVars
  <1>6. RacesRecorded' /\ DuplicateNeedsOverlap' /\ PayloadCovered'
    BY <1>1, EndKeeps DEF requestVars, storeVars
  <1>. QED  BY <1>2, <1>3, <1>4, <1>5, <1>6

LEMMA FinishKeeps ==
    ASSUME ImportIInv, NEW j \in Imports, Finish(j)
    PROVE  ImportIInv'
  <1>. USE DEF ImportIInv
  <1>1. /\ Visible(j) /\ j \in storing /\ row' = [row EXCEPT ![j] = "completed"] /\ EndTask(j)
        /\ todo[j] = {} /\ rows' = StoredBy(j)
        /\ UNCHANGED <<requestVars, msg, raced>>
    BY DEF Finish, StoringIsVisible
  <1>2. \A f \in Items : /\ rows[f] \in Nat /\ rows'[f] \in Nat
                         /\ rows'[f] = IF f \in missed[j] THEN rows[f] + 1 ELSE rows[f]
    BY <1>1 DEF StoredBy, ImportTypeOK
  <1>3. KeyOnce' /\ StoringIsVisible'
    BY <1>1, KeysStay DEF EndTask, StoringIsVisible, ImportTypeOK
  <1>4. ImportTypeOK'
    BY <1>1, <1>2 DEF EndTask, ImportTypeOK, requestVars, StoredBy
  <1>5. CompletedMeansStored'
    <2>1. \A f \in payload[j] : rows'[f] > 0
      BY <1>1, <1>2 DEF PayloadCovered, ImportTypeOK
    <2>2. \A i \in Imports \ {j} : row'[i] = row[i]
      BY <1>1 DEF ImportTypeOK
    <2>. QED  BY <1>1, <1>2, <2>1, <2>2 DEF CompletedMeansStored, requestVars, ImportTypeOK
  <1>6. PayloadCovered'
    BY <1>1, <1>2 DEF PayloadCovered, EndTask, requestVars, ImportTypeOK
  <1>7. RacesRecorded' /\ DuplicateNeedsOverlap'
    BY <1>1, <1>2 DEF RacesRecorded, DuplicateNeedsOverlap, EndTask, ImportTypeOK
  <1>. QED  BY <1>3, <1>4, <1>5, <1>6, <1>7

\* A death, the watchdog and a cancel.
LEMMA InterruptKeeps ==
    ASSUME ImportIInv, NEW j \in Imports, Die(j) \/ Watchdog(j) \/ Cancel(j)
    PROVE  ImportIInv'
  <1>. USE DEF ImportIInv
  <1>1. CASE Die(j)
    <2>1. EndTask(j) /\ j \in storing /\ msg' \in {msg, msg \cup {j}}
          /\ UNCHANGED <<row, requestVars, storeVars, raced>>
      BY <1>1 DEF Die
    <2>2. RacesRecorded' /\ DuplicateNeedsOverlap' /\ PayloadCovered'
      BY <2>1, EndKeeps DEF requestVars, storeVars
    <2>. QED
      BY <2>1, <2>2
      DEF EndTask, ImportTypeOK, KeyOnce, StoringIsVisible, CompletedMeansStored, Visible,
          requestVars, storeVars
  <1>2. ASSUME NEW r \in {"failed", "cancelled"}, Visible(j),
               row' = [row EXCEPT ![j] = r], UNCHANGED <<requestVars, storeVars, raced>>,
               (UNCHANGED <<msg, taskVars>>) \/ (msg' = msg \ {j} /\ EndTask(j))
        PROVE  ImportIInv'
    <2>1. KeyOnce' /\ \A i \in Imports : Visible(i) => Visible(i)'
      BY <1>2, KeysStay
    <2>2. ImportTypeOK' /\ StoringIsVisible'
      BY <1>2, <2>1
      DEF EndTask, ImportTypeOK, StoringIsVisible, requestVars, storeVars, taskVars
    <2>3. RacesRecorded' /\ DuplicateNeedsOverlap' /\ PayloadCovered'
      <3>1. CASE UNCHANGED taskVars
        BY <1>2, <3>1
        DEF RacesRecorded, DuplicateNeedsOverlap, PayloadCovered, requestVars, storeVars, taskVars
      <3>2. CASE EndTask(j)
        BY <1>2, <3>2, EndKeeps DEF requestVars, storeVars
      <3>. QED  BY <1>2, <3>1, <3>2
    <2>4. CompletedMeansStored'
      BY <1>2 DEF CompletedMeansStored, ImportTypeOK, requestVars, storeVars
    <2>. QED  BY <2>1, <2>2, <2>3, <2>4
  <1>3. CASE Watchdog(j)
    BY <1>2, <1>3 DEF Watchdog, Visible
  <1>4. CASE Cancel(j)
    BY <1>2, <1>4 DEF Cancel, Visible
  <1>. QED  BY <1>1, <1>3, <1>4

LEMMA ImportNextKeeps ==
    ASSUME ImportIInv, [ImportNext]_importVars
    PROVE  ImportIInv'
  <1>1. CASE UNCHANGED importVars
    BY <1>1
    DEF importVars, requestVars, taskVars, storeVars, ImportIInv, ImportTypeOK, KeyOnce,
        StoringIsVisible, PayloadCovered, RacesRecorded, CompletedMeansStored,
        DuplicateNeedsOverlap, Visible
  <1>2. ASSUME NEW j \in Imports,
               FailStale(j) \/ FailAmbiguous(j) \/ FailDeadlock(j) \/ FailOther(j)
        PROVE  ImportIInv'
    BY <1>2, AbandonKeeps DEF FailStale, FailAmbiguous, FailDeadlock, FailOther
  <1>. QED
    BY <1>1, <1>2, RequestKeeps, TreatingKeeps, FinishKeeps, InterruptKeeps DEF ImportNext

THEOREM ImportIInvHolds == ImportSpec => []ImportIInv
  <1>1. ImportIInv /\ [ImportNext]_importVars => ImportIInv'
    BY ImportNextKeeps
  <1>. QED  BY ImportInitIInv, <1>1, PTL DEF ImportSpec

\* A client that retries, or whose requests race, never gets two jobs for one key.
THEOREM KeysMakeOneJob == ImportSpec => []OneJobPerKey
  <1>1. ImportIInv => OneJobPerKey
    BY DEF ImportIInv, KeyOnce, OneJobPerKey, Visible
  <1>. QED  BY <1>1, ImportIInvHolds, PTL

\* Whatever was redelivered, rolled back or cancelled on the way, an import reported
\* as completed has stored its whole payload.
THEOREM CompletedIsStored == ImportSpec => []CompletedMeansStored
  <1>1. ImportIInv => CompletedMeansStored
    BY DEF ImportIInv
  <1>. QED  BY <1>1, ImportIInvHolds, PTL

\* Only tasks that overlapped between lookup and commit store a finding twice.
THEOREM OnlyRacesDuplicate == ImportSpec => []DuplicateNeedsOverlap
  <1>1. ImportIInv => DuplicateNeedsOverlap
    BY DEF ImportIInv
  <1>. QED  BY <1>1, ImportIInvHolds, PTL

-----------------------------------------------------------------------------
(* The counts of incidents *)

\* What a task stores is of incidents whose rows it has locked, but for the item
\* between its lookup and its upsert; so nobody else counts them meanwhile.
MissedAreHeld ==
    \A j \in Imports, f \in Items :
        f \in missed[j] /\ f # at[j] => holder[SecretOf[f]] = j

CountIInv ==
    /\ holder \in [Secrets -> Imports \cup {Nobody}]
    /\ MissedAreHeld /\ CountsAreExact

LEMMA CountInitIInv ==
    ImportInit => CountIInv
  <1> SUFFICES ASSUME ImportInit PROVE CountIInv
    OBVIOUS
  <1>1. \A s \in Secrets : count[s] = Occurrences(rows, s)
    BY DEF ImportInit
  <1>2. holder \in [Secrets -> Imports \cup {Nobody}] /\ MissedAreHeld
    BY DEF ImportInit, MissedAreHeld
  <1>. QED  BY <1>1, <1>2 DEF CountIInv, CountsAreExact

\* Rows of one incident that stay as they are have the same sum.
LEMMA SameOccurrences ==
    ASSUME NEW s \in Secrets, NEW n, NEW m, \A f \in Items : SecretOf[f] = s => n[f] = m[f]
    PROVE  Occurrences(n, s) = Occurrences(m, s)
  <1>1. OccurrencesOf(n, s) = OccurrencesOf(m, s)
    BY DEF OccurrencesOf
  <1>. QED  BY <1>1 DEF Occurrences

\* A transaction that ends frees its own locks and forgets what it missed.
LEMMA EndKeepsHeld ==
    ASSUME ImportTypeOK, CountIInv, NEW j \in Imports, EndTask(j)
    PROVE  holder' \in [Secrets -> Imports \cup {Nobody}] /\ MissedAreHeld'
  <1>1. holder' \in [Secrets -> Imports \cup {Nobody}]
    BY DEF EndTask, CountIInv
  <1>2. \A i \in Imports, f \in Items :
           f \in missed'[i] /\ f # at'[i] => i # j /\ holder[SecretOf[f]] = i
    BY DEF EndTask, ImportTypeOK, CountIInv, MissedAreHeld
  <1>3. \A s \in Secrets : holder[s] # j => holder'[s] = holder[s]
    BY DEF EndTask
  <1>. QED  BY <1>1, <1>2, <1>3, ImportAssumption DEF MissedAreHeld

LEMMA FinishCounts ==
    ASSUME ImportTypeOK, CountIInv, NEW j \in Imports, Finish(j)
    PROVE  CountIInv'
  <1>1. /\ at[j] = NoItem /\ rows' = StoredBy(j) /\ count' = Counted(j) /\ EndTask(j)
    BY DEF Finish
  <1>2. ASSUME NEW s \in Secrets PROVE count'[s] = Occurrences(rows', s)
    <2>1. CASE holder[s] = j
      BY <1>1, <2>1 DEF Counted
    <2>2. CASE holder[s] # j
      <3>1. \A f \in Items : SecretOf[f] = s => f \notin missed[j]
        BY <1>1, <2>2, ImportAssumption DEF CountIInv, MissedAreHeld
      <3>2. \A f \in Items : SecretOf[f] = s => rows'[f] = rows[f]
        BY <1>1, <3>1 DEF StoredBy
      <3>3. Occurrences(rows', s) = Occurrences(rows, s)
        BY <3>2, SameOccurrences
      <3>. QED  BY <1>1, <2>2, <3>3 DEF Counted, CountIInv, CountsAreExact
    <2>. QED  BY <2>1, <2>2
  <1>. QED  BY <1>1, <1>2, EndKeepsHeld DEF CountIInv, CountsAreExact

\* Whoever locks an incident's row waited until nobody else had it.
LEMMA UpsertKeepsHeld ==
    ASSUME ImportTypeOK, CountIInv, NEW j \in Imports, Upsert(j)
    PROVE  holder' \in [Secrets -> Imports \cup {Nobody}] /\ MissedAreHeld'
  <1>1. /\ at[j] \in Items /\ holder[SecretOf[at[j]]] \in {Nobody, j}
        /\ holder' = [holder EXCEPT ![SecretOf[at[j]]] = j]
        /\ at' = [at EXCEPT ![j] = NoItem] /\ missed' = missed
    BY DEF Upsert, ImportTypeOK
  <1>2. ASSUME NEW i \in Imports, NEW f \in Items, f \in missed'[i], f # at'[i]
        PROVE  holder'[SecretOf[f]] = i
    <2>1. CASE i = j /\ f = at[j]
      BY <1>1, <2>1, ImportAssumption DEF CountIInv
    <2>2. CASE ~(i = j /\ f = at[j])
      <3>1. holder[SecretOf[f]] = i
        BY <1>1, <1>2, <2>2 DEF CountIInv, MissedAreHeld, ImportTypeOK
      <3>. QED  BY <1>1, <3>1, ImportAssumption DEF CountIInv
    <2>. QED  BY <2>1, <2>2
  <1>. QED  BY <1>1, <1>2, ImportAssumption DEF CountIInv, MissedAreHeld

LEMMA CountNextKeeps ==
    ASSUME ImportTypeOK, CountIInv, [ImportNext]_importVars
    PROVE  CountIInv'
  <1>1. ASSUME UNCHANGED <<holder, missed, at, rows, count>>
        PROVE  CountIInv'
    BY <1>1 DEF CountIInv, MissedAreHeld, CountsAreExact, Occurrences, OccurrencesOf
  <1>2. ASSUME NEW j \in Imports, EndTask(j), UNCHANGED <<rows, count>>
        PROVE  CountIInv'
    BY <1>2, EndKeepsHeld DEF CountIInv, CountsAreExact, Occurrences, OccurrencesOf
  <1>3. ASSUME NEW j \in Imports, NEW f \in Items, LookUp(j, f)
        PROVE  CountIInv'
    <2>1. /\ at[j] = NoItem /\ at' = [at EXCEPT ![j] = f]
          /\ missed' \in {missed, [missed EXCEPT ![j] = @ \cup {f}]}
          /\ UNCHANGED <<holder, rows, count>>
      BY <1>3 DEF LookUp, storeVars
    <2>2. MissedAreHeld'
      BY <2>1, ImportAssumption DEF CountIInv, MissedAreHeld, ImportTypeOK
    <2>. QED  BY <2>1, <2>2 DEF CountIInv, CountsAreExact, Occurrences, OccurrencesOf
  <1>4. ASSUME NEW j \in Imports, Upsert(j)
        PROVE  CountIInv'
    <2>1. UNCHANGED <<rows, count>>
      BY <1>4 DEF Upsert, storeVars
    <2>. QED
      BY <1>4, <2>1, UpsertKeepsHeld DEF CountIInv, CountsAreExact, Occurrences, OccurrencesOf
  <1>5. ASSUME NEW j \in Imports,
               \/ \E P \in Payloads : Ask(j, P)
               \/ Insert(j) \/ LoseRace(j) \/ CommitRequest(j) \/ AbortRequest(j)
               \/ TakeNothing(j) \/ Take(j) \/ Watchdog(j)
        PROVE  UNCHANGED <<holder, missed, at, rows, count>>
    BY <1>5
    DEF Ask, Insert, LoseRace, CommitRequest, AbortRequest, TakeNothing, Take, Watchdog,
        taskVars, storeVars
  <1>6. ASSUME NEW j \in Imports,
               \/ FailStale(j) \/ FailAmbiguous(j) \/ FailDeadlock(j) \/ FailOther(j) \/ Die(j)
        PROVE  EndTask(j) /\ UNCHANGED <<rows, count>>
    BY <1>6
    DEF FailStale, FailAmbiguous, FailDeadlock, FailOther, Abandon, Die, storeVars
  <1>7. ASSUME NEW j \in Imports, Cancel(j)
        PROVE  CountIInv'
    <2>1. /\ UNCHANGED <<rows, count>>
          /\ EndTask(j) \/ UNCHANGED <<holder, missed, at>>
      BY <1>7 DEF Cancel, storeVars, taskVars
    <2>. QED  BY <1>1, <1>2, <2>1
  <1>8. UNCHANGED importVars => UNCHANGED <<holder, missed, at, rows, count>>
    BY DEF importVars, taskVars, storeVars
  <1>. QED
    BY <1>1, <1>2, <1>3, <1>4, <1>5, <1>6, <1>7, <1>8, FinishCounts DEF ImportNext

\* An incident's count is the number of rows of its secret, also after imports that
\* ran side by side, stored a finding twice, or were rolled back: the lock the upsert
\* takes keeps other tasks' rows of the incident out until the count is committed.
THEOREM CountsStayExact == ImportSpec => []CountsAreExact
  <1>1. CountIInv /\ ImportIInv /\ [ImportNext]_importVars => CountIInv'
    BY CountNextKeeps DEF ImportIInv
  <1>2. CountIInv => CountsAreExact
    BY DEF CountIInv
  <1>. QED  BY CountInitIInv, ImportIInvHolds, <1>1, <1>2, PTL DEF ImportSpec

-----------------------------------------------------------------------------
(* Verification.  No verdict that is younger than the rotation says "active",  *)
(* and once there is a younger one the cache says "inactive".  A pass's copy of *)
(* a row that no other session has moved is the row.                            *)


VerdictTypes == [status : Answers \cup {"none", "failed"}, at : Nat]

PassStates == [on : BOOLEAN, todo : SUBSET Sites, copy : [Sites -> VerdictTypes],
               dirty : SUBSET Sites, turned : SUBSET Sites, stale : SUBSET Sites]

PassTypeOK == pass \in [Passes -> PassStates]

VerifyTypeOK ==
    /\ live \in BOOLEAN /\ clock \in 1..MaxClock /\ rotatedAt \in 0..clock
    /\ verdict \in [Sites -> [status : Answers \cup {"none", "failed"}, at : 0..clock]]
    /\ entry \in [status : Answers \cup {"none"}, at : 0..clock]
    /\ events \in [Sites -> Nat]
    /\ inline \in [Sites -> Answers \cup {"none", "failed"}]
    /\ PassTypeOK
    /\ live <=> rotatedAt = 0
    /\ entry.at # 0 => entry.status \in Answers

\* What a pass has in memory: rows still to visit as they are, unless another
\* session moved them; answers of its own; and the turns among those.
InStep(p) ==
    /\ ~pass[p].on => pass[p] = NoPass
    /\ IsFiniteSet(pass[p].dirty) /\ Cardinality(pass[p].dirty) <= CommitEvery
    /\ pass[p].turned \subseteq pass[p].dirty /\ pass[p].dirty \cap pass[p].todo = {}
    /\ \A f \in Sites \ pass[p].stale :
          /\ f \in pass[p].todo => pass[p].copy[f] = verdict[f]
          /\ f \in pass[p].dirty =>
                (f \in pass[p].turned
                   <=> verdict[f].status = "active" /\ pass[p].copy[f].status = "inactive")
    /\ \A f \in pass[p].dirty :
          pass[p].copy[f].status \in Answers /\ pass[p].copy[f].at <= clock

PassesInStep == \A p \in Passes : InStep(p)

\* An answer that says "active" was given before the rotation, and if any was
\* given after it, so was the secret's cache entry, which says "inactive".
Sound(v) == /\ v.status = "active" => v.at <= rotatedAt
            /\ v.at > rotatedAt => entry.status = "inactive" /\ entry.at > rotatedAt

AnswersSound ==
    rotatedAt # 0 =>
        /\ Sound(entry)
        /\ \A f \in Sites : Sound(verdict[f])
        /\ \A p \in Passes : \A f \in pass[p].dirty : Sound(pass[p].copy[f])

\* A scan that has answers in hand left them in the cache.
InlineIsCached ==
    \A f \in Sites : inline[f] \in Answers => Cached /\ entry.status = inline[f]

VerifyIInv == VerifyTypeOK /\ PassesInStep /\ AnswersSound /\ InlineIsCached

-----------------------------------------------------------------------------
LEMMA NoPassFacts ==
    /\ NoPass \in PassStates
    /\ IsFiniteSet(NoPass.dirty) /\ Cardinality(NoPass.dirty) = 0
    /\ ~NoPass.on /\ NoPass.todo = {} /\ NoPass.dirty = {} /\ NoPass.turned = {}
  <1>1. NoVerdict \in VerdictTypes
    BY DEF NoVerdict, VerdictTypes
  <1>. QED  BY <1>1, FS_EmptySet DEF NoPass, PassStates

\* A session that is told of moved rows keeps all but its stale rows.
LEMMA MovedType ==
    ASSUME PassTypeOK, NEW F \in SUBSET Sites
    PROVE  Moved(pass, F) \in [Passes -> PassStates]
  BY DEF PassTypeOK, PassStates, Moved

LEMMA MovedFacts ==
    ASSUME PassTypeOK, NEW F \in SUBSET Sites, NEW p \in Passes
    PROVE  /\ Moved(pass, F)[p].on = pass[p].on /\ Moved(pass, F)[p].todo = pass[p].todo
           /\ Moved(pass, F)[p].copy = pass[p].copy
           /\ Moved(pass, F)[p].dirty = pass[p].dirty
           /\ Moved(pass, F)[p].turned = pass[p].turned
           /\ pass[p].on => Moved(pass, F)[p].stale = pass[p].stale \cup F
           /\ ~pass[p].on => Moved(pass, F)[p] = pass[p]
  BY DEF PassTypeOK, PassStates, Moved

\* A pass that does nothing stays in step while others write rows of F.
LEMMA BystandersInStep ==
    ASSUME VerifyTypeOK, NEW p \in Passes, InStep(p), NEW F \in SUBSET Sites,
           \A f \in Sites \ F : verdict'[f] = verdict[f],
           clock' = clock, pass'[p] = Moved(pass, F)[p]
    PROVE  InStep(p)'
  <1>1. PassTypeOK
    BY DEF VerifyTypeOK
  <1>2. CASE pass[p].on
    <2>1. /\ pass'[p].on = pass[p].on /\ pass'[p].todo = pass[p].todo
          /\ pass'[p].copy = pass[p].copy /\ pass'[p].dirty = pass[p].dirty
          /\ pass'[p].turned = pass[p].turned /\ pass'[p].stale = pass[p].stale \cup F
      <3>1. pass'[p] = [pass[p] EXCEPT !.stale = pass[p].stale \cup F]
        BY <1>2 DEF Moved
      <3>2. pass[p] \in PassStates
        BY <1>1 DEF PassTypeOK
      <3>. QED  BY <3>1, <3>2 DEF PassStates
    <2>. QED  BY <1>2, <2>1 DEF InStep
  <1>3. CASE ~pass[p].on
    <2>1. pass'[p] = NoPass
      BY <1>1, <1>3, MovedFacts DEF InStep
    <2>. QED  BY <2>1, NoPassFacts, VerificationBounds DEF InStep
  <1>. QED  BY <1>2, <1>3

LEMMA IdleInStep ==
    ASSUME NEW p \in Passes, pass'[p] = NoPass
    PROVE  InStep(p)'
  BY NoPassFacts, VerificationBounds DEF InStep

LEMMA VerifyInitIInv == VerificationInit => VerifyIInv
  <1>. SUFFICES ASSUME VerificationInit PROVE VerifyIInv
    OBVIOUS
  <1>1. \A p \in Passes : InStep(p)
    BY NoPassFacts, VerificationBounds DEF VerificationInit, InStep
  <1>2. VerifyTypeOK
    BY NoPassFacts, VerificationBounds
    DEF VerificationInit, VerifyTypeOK, PassTypeOK, PassStates, NoVerdict, Nothing
  <1>. QED
    BY <1>1, <1>2 DEF VerificationInit, VerifyIInv, PassesInStep, AnswersSound, InlineIsCached,
                      Nothing, Answers

-----------------------------------------------------------------------------
LEMMA TickKeeps ==
    ASSUME VerifyIInv, Tick
    PROVE  VerifyIInv'
  <1>. USE DEF VerifyIInv
  <1>1. clock' = clock + 1 /\ clock' \in 1..MaxClock /\ inline' = Nothing
        /\ UNCHANGED <<live, rotatedAt, verdict, entry, events, pass>>
    BY VerificationBounds DEF Tick, VerifyTypeOK
  <1>2. VerifyTypeOK'
    BY <1>1 DEF VerifyTypeOK, PassTypeOK, PassStates, Nothing
  <1>3. PassesInStep'
    <2>1. ASSUME NEW p \in Passes PROVE InStep(p)'
      <3>1. \A f \in pass[p].dirty : pass[p].copy[f].at \in Nat
        BY DEF VerifyTypeOK, PassTypeOK, PassStates, VerdictTypes
      <3>. QED  BY <1>1, <3>1 DEF PassesInStep, InStep, VerifyTypeOK
    <2>. QED  BY <2>1 DEF PassesInStep
  <1>4. AnswersSound'
    BY <1>1 DEF AnswersSound, Sound
  <1>5. InlineIsCached'
    BY <1>1 DEF InlineIsCached, Nothing, Answers
  <1>. QED  BY <1>2, <1>3, <1>4, <1>5

\* Whatever was said before the rotation was said before it.
LEMMA RotateKeeps ==
    ASSUME VerifyIInv, Rotate
    PROVE  VerifyIInv'
  <1>. USE DEF VerifyIInv
  <1>1. live /\ live' = FALSE /\ rotatedAt' = clock /\ clock \in 1..MaxClock
        /\ UNCHANGED <<clock, verdict, entry, events, pass, inline>>
    BY DEF Rotate, VerifyTypeOK
  <1>2. VerifyTypeOK'
    <2>1. live' \in BOOLEAN /\ (live' <=> rotatedAt' = 0)
      <3>1. clock # 0
        BY <1>1, VerificationBounds
      <3>2. rotatedAt' # 0
        BY <1>1, <3>1, Zenon
      <3>3. live' = FALSE
        BY <1>1, Zenon
      <3>. QED  BY <3>2, <3>3, Zenon
    <2>2. /\ rotatedAt' \in 0..clock' /\ PassTypeOK'
          /\ clock' \in 1..MaxClock
          /\ verdict' \in [Sites -> [status : Answers \cup {"none", "failed"}, at : 0..clock']]
          /\ entry' \in [status : Answers \cup {"none"}, at : 0..clock']
          /\ events' \in [Sites -> Nat]
          /\ inline' \in [Sites -> Answers \cup {"none", "failed"}]
          /\ entry'.at # 0 => entry'.status \in Answers
      BY <1>1 DEF VerifyTypeOK, PassTypeOK, PassStates
    <2>. QED  BY <2>1, <2>2 DEF VerifyTypeOK
  <1>3. PassesInStep'
    BY <1>1 DEF PassesInStep, InStep
  <1>4. AnswersSound'
    <2>1. \A f \in Sites : verdict[f].at <= clock /\ verdict[f].at \in Nat
      BY <1>1 DEF VerifyTypeOK
    <2>2. entry.at <= clock /\ entry.at \in Nat
      BY <1>1 DEF VerifyTypeOK
    <2>3. \A p \in Passes : \A f \in pass[p].dirty :
             pass[p].copy[f].at <= clock /\ pass[p].copy[f].at \in Nat
      BY DEF PassesInStep, InStep, VerifyTypeOK, PassTypeOK, PassStates, VerdictTypes
    <2>. QED  BY <1>1, <2>1, <2>2, <2>3 DEF AnswersSound, Sound
  <1>5. InlineIsCached'
    BY <1>1 DEF InlineIsCached, Cached, Fresh
  <1>. QED  BY <1>2, <1>3, <1>4, <1>5

-----------------------------------------------------------------------------
\* What only touches one pass, which stays in step and brings no unsound answer.
LEMMA OnePassKeeps ==
    ASSUME VerifyIInv, NEW p \in Passes, InStep(p)',
           UNCHANGED <<providerVars, verdict, events, inline>>,
           VerifyTypeOK', InlineIsCached',
           \A q \in Passes \ {p} : pass'[q] = pass[q],
           rotatedAt # 0 =>
               /\ Sound(entry)'
               /\ \A v \in VerdictTypes : v.at <= clock /\ Sound(v) => Sound(v)'
               /\ \A f \in pass'[p].dirty : Sound(pass[p].copy[f])'
    PROVE  VerifyIInv'
  <1>. USE DEF VerifyIInv
  <1>0. UNCHANGED <<clock, rotatedAt>>
    BY DEF providerVars
  <1>1. PassesInStep'
    BY <1>0 DEF PassesInStep, InStep
  <1>2. AnswersSound'
    <2>. SUFFICES ASSUME rotatedAt # 0
                  PROVE  /\ \A f \in Sites : Sound(verdict[f])'
                         /\ \A q \in Passes : \A f \in pass'[q].dirty : Sound(pass[q].copy[f])'
      BY <1>0 DEF AnswersSound
    <2>1. ASSUME NEW f \in Sites PROVE Sound(verdict[f])'
      <3>1. verdict[f] \in VerdictTypes /\ verdict[f].at <= clock
        BY VerificationBounds DEF VerifyTypeOK, VerdictTypes
      <3>2. Sound(verdict[f])
        BY DEF AnswersSound
      <3>. QED  BY <3>1, <3>2 DEF Sound
    <2>2. ASSUME NEW q \in Passes, NEW f \in pass'[q].dirty, q # p
          PROVE  Sound(pass[q].copy[f])'
      <3>1. f \in pass[q].dirty /\ pass'[q] = pass[q]
        BY <2>2
      <3>2. pass[q].copy[f] \in VerdictTypes /\ pass[q].copy[f].at <= clock
        BY <3>1 DEF VerifyTypeOK, PassTypeOK, PassStates, PassesInStep, InStep
      <3>3. Sound(pass[q].copy[f])
        BY <3>1 DEF AnswersSound
      <3>. QED  BY <3>1, <3>2, <3>3 DEF Sound
    <2>. QED  BY <2>1, <2>2
  <1>. QED  BY <1>1, <1>2

\* A pass that starts, ends, or leaves a row as it is.
LEMMA MemoryKeeps ==
    ASSUME VerifyIInv, NEW p \in Passes,
           \/ StartPass(p) \/ KillPass(p)
           \/ \E f \in Sites : Skip(p, f) \/ NoAnswer(p, f)
    PROVE  VerifyIInv'
  <1>. USE DEF VerifyIInv
  <1>1. UNCHANGED <<providerVars, verdict, entry, events, inline>>
    BY DEF StartPass, KillPass, Skip, NoAnswer
  <1>2. \E x \in PassStates : pass' = [pass EXCEPT ![p] = x]
    <2>1. CASE StartPass(p)
      <3>1. verdict \in [Sites -> VerdictTypes]
        BY VerificationBounds DEF VerifyTypeOK, VerdictTypes
      <3>. DEFINE x == [NoPass EXCEPT !.on = TRUE, !.todo = Sites, !.copy = verdict]
      <3>2. x \in PassStates
        BY <3>1, NoPassFacts DEF PassStates
      <3>. QED  BY <2>1, <3>2 DEF StartPass
    <2>2. CASE KillPass(p)
      BY <2>2, NoPassFacts DEF KillPass
    <2>3. CASE \E f \in Sites : Skip(p, f) \/ NoAnswer(p, f)
      <3>1. PICK f \in Sites : pass' = [pass EXCEPT ![p].todo = @ \ {f}]
        BY <2>3 DEF Skip, NoAnswer
      <3>. DEFINE x == [pass[p] EXCEPT !.todo = @ \ {f}]
      <3>2. x \in PassStates
        BY DEF VerifyTypeOK, PassTypeOK, PassStates
      <3>. QED  BY <3>1, <3>2
    <2>. QED  BY <2>1, <2>2, <2>3
  <1>s. (\A q \in Passes \ {p} : pass'[q] = pass[q]) /\ PassTypeOK'
    BY <1>2 DEF VerifyTypeOK, PassTypeOK, PassStates
  <1>3. InStep(p)' /\ (pass'[p].dirty = {} \/ /\ pass'[p].dirty = pass[p].dirty
                                              /\ pass'[p].copy = pass[p].copy)
    <2>1. CASE StartPass(p)
      <3>1. pass'[p] = [NoPass EXCEPT !.on = TRUE, !.todo = Sites, !.copy = verdict]
        BY <2>1 DEF StartPass, VerifyTypeOK, PassTypeOK, PassStates
      <3>2. /\ pass'[p].on /\ pass'[p].copy = verdict
            /\ pass'[p].dirty = {} /\ pass'[p].turned = {}
        BY <3>1 DEF NoPass
      <3>. QED  BY <3>2, <1>1, FS_EmptySet, VerificationBounds DEF InStep, providerVars
    <2>2. CASE KillPass(p)
      <3>1. pass'[p] = NoPass
        BY <2>2 DEF KillPass, VerifyTypeOK, PassTypeOK, PassStates
      <3>. QED  BY <3>1, IdleInStep, NoPassFacts
    <2>3. ASSUME NEW f \in Sites, Skip(p, f) \/ NoAnswer(p, f)
          PROVE  InStep(p)' /\ pass'[p].dirty = pass[p].dirty /\ pass'[p].copy = pass[p].copy
      <3>1. pass[p].on /\ pass' = [pass EXCEPT ![p].todo = @ \ {f}]
        BY <2>3 DEF Skip, NoAnswer, Visiting
      <3>2. /\ pass'[p].on = pass[p].on /\ pass'[p].todo = pass[p].todo \ {f}
            /\ pass'[p].copy = pass[p].copy /\ pass'[p].dirty = pass[p].dirty
            /\ pass'[p].turned = pass[p].turned /\ pass'[p].stale = pass[p].stale
        BY <3>1 DEF VerifyTypeOK, PassTypeOK, PassStates
      <3>. QED  BY <3>1, <3>2, <1>1 DEF PassesInStep, InStep, providerVars
    <2>. QED  BY <2>1, <2>2, <2>3
  <1>4. VerifyTypeOK' /\ InlineIsCached'
    BY <1>1, <1>s DEF VerifyTypeOK, InlineIsCached, Cached, Fresh, providerVars
  <1>5. rotatedAt # 0 =>
          \A f \in pass'[p].dirty : Sound(pass[p].copy[f])'
    BY <1>1, <1>3 DEF AnswersSound, Sound, providerVars
  <1>6. \A v : Sound(v) => Sound(v)'
    BY <1>1 DEF Sound, providerVars
  <1>7. rotatedAt # 0 => Sound(entry)'
    BY <1>1 DEF AnswersSound, Sound, providerVars
  <1>. QED  BY <1>1, <1>s, <1>3, <1>4, <1>5, <1>6, <1>7, OnePassKeeps

\* An answer is the cache's, which is sound, or the provider's of now.
LEMMA AnswerKeeps ==
    ASSUME VerifyIInv, NEW p \in Passes, NEW f \in Sites,
           FromCache(p, f) \/ AskProvider(p, f)
    PROVE  VerifyIInv'
  <1>. USE DEF VerifyIInv
  <1>t. clock \in Nat \ {0} /\ rotatedAt \in 0..clock
    BY VerificationBounds DEF VerifyTypeOK
  <1>1. /\ UNCHANGED <<providerVars, verdict, events, inline>>
        /\ pass[p].on /\ f \in pass[p].todo /\ Cardinality(pass[p].dirty) < CommitEvery
    BY DEF FromCache, AskProvider, Visiting
  <1>2. PICK s \in Answers, a \in 0..clock :
          /\ Answered(p, f, s, a)
          /\ entry' = [status |-> s, at |-> a]
          /\ entry' = entry \/ (~Cached /\ a = clock /\ s = Truth)
    <2>1. CASE FromCache(p, f)
      <3>1. entry.at # 0 /\ entry.status \in Answers /\ entry.at \in 0..clock
        BY <2>1 DEF FromCache, Cached, Fresh, VerifyTypeOK
      <3>2. entry = [status |-> entry.status, at |-> entry.at]
        BY DEF VerifyTypeOK
      <3>3. Answered(p, f, entry.status, entry.at) /\ entry' = entry
        BY <2>1 DEF FromCache
      <3>. QED  BY <3>1, <3>2, <3>3
    <2>2. CASE AskProvider(p, f)
      BY <2>2, <1>t DEF AskProvider, Truth, Answers
    <2>. QED  BY <2>1, <2>2
  <1>3. /\ pass'[p].on /\ pass'[p].todo = pass[p].todo \ {f}
        /\ pass'[p].dirty = pass[p].dirty \cup {f}
        /\ pass'[p].copy[f] = [status |-> s, at |-> a]
        /\ \A g \in Sites \ {f} : pass'[p].copy[g] = pass[p].copy[g]
        /\ pass'[p].turned \in {pass[p].turned, pass[p].turned \cup {f}}
        /\ f \in pass'[p].turned
              <=> f \in pass[p].turned \/ (pass[p].copy[f].status = "active" /\ s = "inactive")
        /\ pass'[p].stale = pass[p].stale
        /\ \A q \in Passes \ {p} : pass'[q] = pass[q]
        /\ PassTypeOK'
    <2>. DEFINE x == [pass[p] EXCEPT
                         !.todo = @ \ {f}, !.dirty = @ \cup {f},
                         !.copy[f] = [status |-> s, at |-> a],
                         !.turned = IF pass[p].copy[f].status = "active" /\ s = "inactive"
                                      THEN @ \cup {f} ELSE @]
    <2>0. pass' = [pass EXCEPT ![p] = x]
      BY <1>2 DEF Answered
    <2>1. pass[p] \in PassStates /\ pass' = [pass EXCEPT ![p] = x]
      BY <2>0 DEF VerifyTypeOK, PassTypeOK
    <2>2. pass'[p] = x /\ \A q \in Passes \ {p} : pass'[q] = pass[q]
      BY <2>1 DEF VerifyTypeOK, PassTypeOK, PassStates
    <2>3. /\ x.on = pass[p].on /\ x.todo = pass[p].todo \ {f}
          /\ x.dirty = pass[p].dirty \cup {f} /\ x.stale = pass[p].stale
          /\ x.copy = [pass[p].copy EXCEPT ![f] = [status |-> s, at |-> a]]
          /\ x.turned = IF pass[p].copy[f].status = "active" /\ s = "inactive"
                          THEN pass[p].turned \cup {f} ELSE pass[p].turned
      BY <2>1 DEF PassStates
    <2>4. [status |-> s, at |-> a] \in VerdictTypes
      BY <1>t DEF VerdictTypes
    <2>5. x \in PassStates
      BY <2>1, <2>4 DEF PassStates
    <2>6. PassTypeOK'
      BY <2>1, <2>5 DEF VerifyTypeOK, PassTypeOK, PassStates
    <2>7. pass[p].copy \in [Sites -> VerdictTypes]
      BY <2>1 DEF PassStates
    <2>. HIDE DEF x
    <2>. QED  BY <1>1, <2>2, <2>3, <2>6, <2>7
  <1>5. InStep(p)'
    <2>1. f \notin pass[p].dirty /\ pass[p].turned \subseteq pass[p].dirty
      BY <1>1 DEF PassesInStep, InStep
    <2>2. IsFiniteSet(pass'[p].dirty) /\ Cardinality(pass'[p].dirty) <= CommitEvery
      <3>1. IsFiniteSet(pass[p].dirty)
        BY DEF PassesInStep, InStep
      <3>2. Cardinality(pass[p].dirty \cup {f}) = Cardinality(pass[p].dirty) + 1
            /\ IsFiniteSet(pass[p].dirty \cup {f})
        BY <2>1, <3>1, FS_AddElement
      <3>3. Cardinality(pass[p].dirty) \in Nat
        BY <3>1, FS_CardinalityType
      <3>. QED  BY <3>2, <3>3, <1>1, <1>3, VerificationBounds
    <2>3. /\ pass'[p].turned \subseteq pass'[p].dirty
          /\ pass'[p].dirty \cap pass'[p].todo = {}
      BY <2>1, <1>3 DEF PassesInStep, InStep
    <2>4. ASSUME NEW g \in Sites \ pass'[p].stale
          PROVE  /\ g \in pass'[p].todo => pass'[p].copy[g] = verdict'[g]
                 /\ g \in pass'[p].dirty =>
                       (g \in pass'[p].turned
                          <=> verdict'[g].status = "active" /\ pass'[p].copy[g].status = "inactive")
      <3>1. CASE g = f
        <4>1. pass[p].copy[f] = verdict[f]
          BY <3>1, <2>4, <1>1, <1>3 DEF PassesInStep, InStep
        <4>2. g \notin pass[p].turned /\ g \notin pass'[p].todo
          BY <3>1, <2>1, <1>3
        <4>3. g \in pass'[p].turned
                <=> pass[p].copy[f].status = "active" /\ pass'[p].copy[f].status = "inactive"
          BY ONLY <3>1, <4>2, <1>3
        <4>. QED  BY ONLY <3>1, <4>1, <4>2, <4>3, <1>1
      <3>2. CASE g # f
        BY <3>2, <2>4, <1>1, <1>3 DEF PassesInStep, InStep
      <3>. QED  BY <3>1, <3>2
    <2>5. ASSUME NEW g \in pass'[p].dirty
          PROVE  pass'[p].copy[g].status \in Answers /\ pass'[p].copy[g].at <= clock'
      <3>1. CASE g = f
        BY <3>1, <1>t, <1>1, <1>3 DEF providerVars
      <3>2. CASE g # f
        <4>1. g \in pass[p].dirty /\ g \in Sites
          BY <3>2, <1>3 DEF VerifyTypeOK, PassTypeOK, PassStates
        <4>. QED  BY <3>2, <4>1, <1>1, <1>3 DEF PassesInStep, InStep, providerVars
      <3>. QED  BY <3>1, <3>2
    <2>. QED  BY <1>3, <2>2, <2>3, <2>4, <2>5 DEF InStep
  <1>6. VerifyTypeOK'
    BY <1>1, <1>2, <1>3 DEF VerifyTypeOK, providerVars, Answers
  <1>7. InlineIsCached'
    <2>1. CASE entry' = entry
      BY <2>1, <1>1 DEF InlineIsCached, Cached, Fresh, providerVars
    <2>2. CASE ~Cached
      BY <2>2, <1>1 DEF InlineIsCached
    <2>. QED  BY <1>2, <2>1, <2>2
  <1>8. ASSUME rotatedAt # 0
        PROVE  /\ Sound(entry)'
               /\ \A v \in VerdictTypes : v.at <= clock /\ Sound(v) => Sound(v)'
               /\ \A g \in pass'[p].dirty : Sound(pass[p].copy[g])'
    <2>0. rotatedAt' = rotatedAt
      BY <1>1 DEF providerVars
    <2>1. Sound(entry)' /\ \A v \in VerdictTypes : v.at <= clock /\ Sound(v) => Sound(v)'
      <3>1. CASE entry' = entry
        BY <1>8, <3>1, <2>0 DEF AnswersSound, Sound
      <3>2. CASE a = clock /\ s = Truth
        <4>1. s = "inactive" /\ entry'.status = "inactive" /\ entry'.at = clock
          BY <1>8, <3>2, <1>2 DEF Truth, VerifyTypeOK
        <4>. QED  BY <1>t, <4>1, <2>0 DEF Sound, VerdictTypes
      <3>. QED  BY <1>2, <3>1, <3>2
    <2>2. ASSUME NEW g \in pass'[p].dirty PROVE Sound(pass[p].copy[g])'
      <3>1. CASE g = f
        <4>1. pass'[p].copy[g] = entry'
          BY <3>1, <1>2, <1>3
        <4>. QED  BY <4>1, <2>1 DEF Sound
      <3>2. CASE g # f
        <4>1. g \in pass[p].dirty /\ pass[p].copy[g] \in VerdictTypes
          BY <3>2, <1>3 DEF VerifyTypeOK, PassTypeOK, PassStates
        <4>2. Sound(pass[p].copy[g]) /\ pass[p].copy[g].at <= clock
          BY <4>1, <1>8 DEF AnswersSound, PassesInStep, InStep
        <4>3. pass'[p].copy[g] = pass[p].copy[g]
          BY <3>2, <4>1, <1>3 DEF VerifyTypeOK, PassTypeOK, PassStates
        <4>. QED  BY <2>1, <4>1, <4>2, <4>3 DEF Sound
      <3>. QED  BY <3>1, <3>2
    <2>. QED  BY <2>1, <2>2
  <1>. QED  BY <1>1, <1>3, <1>5, <1>6, <1>7, <1>8, OnePassKeeps

-----------------------------------------------------------------------------
\* Rows of F are written, with sound verdicts, and every session is told.
LEMMA VerdictWriteKeeps ==
    ASSUME VerifyIInv, NEW F \in SUBSET Sites, UNCHANGED <<providerVars, entry>>,
           verdict' \in [Sites -> [status : Answers \cup {"none", "failed"}, at : 0..clock]],
           \A f \in Sites \ F : verdict'[f] = verdict[f],
           rotatedAt # 0 => \A f \in Sites : Sound(verdict[f])',
           events' \in [Sites -> Nat], inline' \in {inline, Nothing},
           NEW p \in Passes, PassTypeOK', InStep(p)',
           pass'[p] = Moved(pass, F)[p] \/ pass'[p].dirty = {},
           \A q \in Passes \ {p} : pass'[q] = Moved(pass, F)[q]
    PROVE  VerifyIInv'
  <1>. USE DEF VerifyIInv
  <1>0. UNCHANGED <<live, clock, rotatedAt>>
    BY DEF providerVars
  <1>1. VerifyTypeOK'
    BY <1>0 DEF VerifyTypeOK, Nothing
  <1>2. PassesInStep'
    BY <1>0, BystandersInStep DEF PassesInStep
  <1>3. ASSUME rotatedAt # 0, NEW q \in Passes, NEW f \in pass'[q].dirty
        PROVE  Sound(pass[q].copy[f])'
    <2>1. pass'[q] = Moved(pass, F)[q]
      BY <1>3
    <2>2. f \in pass[q].dirty /\ pass'[q].copy = pass[q].copy
      BY <2>1, <1>3 DEF Moved, VerifyTypeOK, PassTypeOK, PassStates
    <2>3. Sound(pass[q].copy[f])
      BY <1>3, <2>2 DEF AnswersSound
    <2>. QED  BY <2>2, <2>3, <1>0 DEF Sound
  <1>4. AnswersSound'
    BY <1>0, <1>3 DEF AnswersSound, Sound
  <1>5. InlineIsCached'
    BY <1>0 DEF InlineIsCached, Cached, Fresh, Nothing, Answers
  <1>. QED  BY <1>1, <1>2, <1>4, <1>5

\* A pass writes its answers, or loses them to a row that has moved.
LEMMA CommitKeeps ==
    ASSUME VerifyIInv, NEW p \in Passes, pass[p].on, NEW next \in PassStates,
           next = NoPass \/ next = [pass[p] EXCEPT !.dirty = {}, !.turned = {}],
           Commit(p, next), UNCHANGED <<providerVars, entry, inline>>
    PROVE  VerifyIInv'
  <1>. USE DEF VerifyIInv
  <1>t. PassTypeOK /\ pass[p] \in PassStates
    BY DEF VerifyTypeOK, PassTypeOK
  <1>d. pass[p].dirty \in SUBSET Sites
    BY <1>t DEF PassStates
  <1>0. UNCHANGED <<live, clock, rotatedAt>>
    BY DEF providerVars
  <1>1. CASE pass[p].dirty \cap pass[p].stale # {}
    <2>1. pass' = [pass EXCEPT ![p] = NoPass] /\ UNCHANGED <<verdict, events>>
      BY <1>1 DEF Commit
    <2>2. /\ PassTypeOK' /\ pass'[p] = NoPass
          /\ \A q \in Passes \ {p} : pass'[q] = pass[q]
      BY <2>1, <1>t, NoPassFacts DEF PassTypeOK
    <2>3. InStep(p)' /\ pass'[p].dirty = {}
      BY <2>2, IdleInStep, NoPassFacts
    <2>4. VerifyTypeOK' /\ InlineIsCached'
      BY <2>1, <2>2, <1>0 DEF VerifyTypeOK, InlineIsCached, Cached, Fresh
    <2>5. /\ rotatedAt # 0 => Sound(entry)'
          /\ \A v : Sound(v) => Sound(v)'
      BY <1>0 DEF AnswersSound, Sound
    <2>. QED  BY <2>1, <2>2, <2>3, <2>4, <2>5, OnePassKeeps
  <1>2. CASE pass[p].dirty \cap pass[p].stale = {}
    <2>. DEFINE F == pass[p].dirty
    <2>1. /\ verdict' = [f \in Sites |-> IF f \in F THEN pass[p].copy[f] ELSE verdict[f]]
          /\ events' = [f \in Sites |-> IF f \in pass[p].turned THEN events[f] + 1 ELSE events[f]]
          /\ pass' = [Moved(pass, F) EXCEPT ![p] = next]
      BY <1>2 DEF Commit
    <2>2. /\ PassTypeOK' /\ pass'[p] = next
          /\ \A q \in Passes \ {p} : pass'[q] = Moved(pass, F)[q]
      <3>1. Moved(pass, F) \in [Passes -> PassStates]
        BY <1>t, <1>d, MovedType
      <3>. HIDE DEF F
      <3>. QED  BY <2>1, <3>1 DEF PassTypeOK
    <2>3. events' \in [Sites -> Nat]
      BY <2>1 DEF VerifyTypeOK
    <2>4. verdict' \in [Sites -> [status : Answers \cup {"none", "failed"}, at : 0..clock]]
      <3>1. ASSUME NEW f \in F
            PROVE  pass[p].copy[f] \in [status : Answers \cup {"none", "failed"}, at : 0..clock]
        <4>1. pass[p].copy[f] \in VerdictTypes
          BY <1>t, <1>d DEF PassStates
        <4>2. pass[p].copy[f].at \in 0..clock
          BY <4>1, VerificationBounds DEF PassesInStep, InStep, VerdictTypes, VerifyTypeOK
        <4>. QED  BY <4>1, <4>2 DEF VerdictTypes
      <3>. HIDE DEF F
      <3>. QED  BY <2>1, <3>1 DEF VerifyTypeOK
    <2>5. ASSUME rotatedAt # 0, NEW f \in Sites PROVE Sound(verdict[f])'
      <3>1. verdict'[f] = verdict[f] \/ (f \in F /\ verdict'[f] = pass[p].copy[f])
        BY <2>1
      <3>. QED  BY <3>1, <2>5, <1>0 DEF AnswersSound, Sound
    <2>6. InStep(p)' /\ pass'[p].dirty = {}
      <3>1. CASE next = NoPass
        BY <3>1, <2>2, IdleInStep, NoPassFacts
      <3>2. CASE next = [pass[p] EXCEPT !.dirty = {}, !.turned = {}]
        <4>1. /\ pass'[p].on /\ pass'[p].dirty = {} /\ pass'[p].turned = {}
              /\ pass'[p].todo = pass[p].todo /\ pass'[p].copy = pass[p].copy
              /\ pass'[p].stale = pass[p].stale
          BY <3>2, <2>2, <1>t DEF PassStates
        <4>2. \A f \in pass[p].todo : f \notin F
          BY DEF PassesInStep, InStep
        <4>3. \A f \in Sites \ pass[p].stale :
                 f \in pass[p].todo => pass[p].copy[f] = verdict'[f]
          BY <2>1, <4>2 DEF PassesInStep, InStep
        <4>. QED  BY <4>1, <4>3, FS_EmptySet, VerificationBounds DEF InStep
      <3>. QED  BY <3>1, <3>2
    <2>7. \A f \in Sites \ F : verdict'[f] = verdict[f]
      BY <2>1
    <2>. QED  BY <1>d, <2>2, <2>3, <2>4, <2>5, <2>6, <2>7, VerdictWriteKeeps
  <1>. QED  BY <1>1, <1>2

\* A scan asks, stores or dies; an incident is asked about again.
LEMMA ScansKeep ==
    ASSUME VerifyIInv, VerifyInline \/ StoreInline \/ ScanDies \/ Reverify
    PROVE  VerifyIInv'
  <1>. USE DEF VerifyIInv
  <1>t. clock \in Nat \ {0} /\ rotatedAt \in 0..clock /\ PassTypeOK
    BY VerificationBounds DEF VerifyTypeOK
  <1>0. UNCHANGED <<live, clock, rotatedAt>>
    BY DEF VerifyInline, StoreInline, ScanDies, Reverify, providerVars
  <1>1. CASE VerifyInline
    <2>1. UNCHANGED <<verdict, events, pass>>
      BY <1>1 DEF VerifyInline
    <2>2. /\ entry' = entry \/ (~Cached /\ entry' = [status |-> Truth, at |-> clock])
          /\ \A f \in Sites : inline'[f] \in Answers =>
                Cached' /\ entry'.status = inline'[f]
          /\ inline' \in [Sites -> Answers \cup {"none", "failed"}]
      <3>1. Truth \in Answers /\ (Cached => entry.status \in Answers)
        BY DEF Truth, Answers, Cached, Fresh, VerifyTypeOK
      <3>2. CASE Cached
        <4>1. entry' = entry /\ inline' \in [Sites -> {"none", "failed", entry.status}]
          BY <1>1, <3>2 DEF VerifyInline
        <4>2. Cached'
          BY <3>2, <4>1, <1>0 DEF Cached, Fresh
        <4>. QED  BY <3>1, <3>2, <4>1, <4>2 DEF Answers
      <3>3. CASE ~Cached
        <4>1. /\ inline' \in [Sites -> {"none", "failed", Truth}]
              /\ entry' = IF \E f \in Sites : inline'[f] \in Answers
                          THEN [status |-> Truth, at |-> clock] ELSE entry
          <5>1. inline' \in [Sites -> {"none", "failed", Truth}]
            BY <1>1, <3>3 DEF VerifyInline
          <5>2. entry' = IF \E f \in Sites : inline'[f] \in Answers
                          THEN [status |-> Truth, at |-> clock] ELSE entry
            BY <1>1, <3>3 DEF VerifyInline
          <5>. QED  BY <5>1, <5>2
        <4>2. ASSUME entry' = [status |-> Truth, at |-> clock]
              PROVE  Cached' /\ entry'.status = Truth
          BY <4>2, <1>t, <1>0, VerificationBounds DEF Cached, Fresh
        <4>3. \A f \in Sites : inline'[f] \in Answers => inline'[f] = Truth
          BY <4>1 DEF Answers
        <4>. QED  BY <3>1, <3>3, <4>1, <4>2, <4>3
      <3>. QED  BY <3>2, <3>3
    <2>3. VerifyTypeOK'
      <3>1. /\ entry' \in [status : Answers \cup {"none"}, at : 0..clock]
            /\ entry'.at # 0 => entry'.status \in Answers
        BY <2>2, <1>t DEF VerifyTypeOK, Truth, Answers
      <3>. QED  BY <1>0, <2>1, <2>2, <3>1 DEF VerifyTypeOK, PassTypeOK
    <2>4. PassesInStep'
      BY <1>0, <2>1 DEF PassesInStep, InStep
    <2>5. AnswersSound'
      <3>. SUFFICES ASSUME rotatedAt # 0 PROVE AnswersSound'
        BY <1>0 DEF AnswersSound
      <3>1. CASE entry' = entry
        BY <1>0, <2>1, <3>1 DEF AnswersSound, Sound
      <3>2. CASE entry' = [status |-> Truth, at |-> clock]
        <4>1. entry'.status = "inactive" /\ entry'.at = clock
          BY <3>2 DEF Truth, VerifyTypeOK
        <4>2. ASSUME NEW v \in VerdictTypes, v.at <= clock, Sound(v) PROVE Sound(v)'
          BY <4>1, <4>2, <1>t, <1>0 DEF Sound, VerdictTypes
        <4>3. \A f \in Sites : verdict[f] \in VerdictTypes /\ verdict[f].at <= clock
          BY <1>t DEF VerifyTypeOK, VerdictTypes
        <4>4. \A p \in Passes : \A f \in pass[p].dirty :
                 pass[p].copy[f] \in VerdictTypes /\ pass[p].copy[f].at <= clock
          BY <1>t DEF PassTypeOK, PassStates, PassesInStep, InStep
        <4>5. Sound(entry)'
          BY <4>1, <1>t, <1>0 DEF Sound
        <4>6. \A f \in Sites : Sound(verdict[f])'
          BY <4>2, <4>3, <2>1 DEF AnswersSound
        <4>7. \A p \in Passes : \A f \in pass'[p].dirty : Sound(pass[p].copy[f])'
          BY <4>2, <4>4, <2>1 DEF AnswersSound
        <4>. QED  BY <4>5, <4>6, <4>7 DEF AnswersSound
      <3>. QED  BY <2>2, <3>1, <3>2
    <2>6. InlineIsCached'
      BY <2>2 DEF InlineIsCached
    <2>. QED  BY <2>3, <2>4, <2>5, <2>6
  <1>2. CASE StoreInline \/ Reverify
    <2>1. PICK G \in SUBSET Sites :
            /\ pass' = Moved(pass, G)
            /\ \A f \in Sites \ G : verdict'[f] = verdict[f]
            /\ \A f \in G : \E s \in {inline[f], "failed"} :
                  verdict'[f] = [verdict[f] EXCEPT !.status = s]
            /\ verdict' = [f \in Sites |-> verdict'[f]]
            /\ inline' \in {inline, Nothing}
      <3>1. CASE StoreInline
        <4>. DEFINE G == {f \in Sites : inline[f] # "none"}
        <4>1. /\ pass' = Moved(pass, G) /\ inline' = Nothing
              /\ verdict' = [f \in Sites |-> IF inline[f] = "none" THEN verdict[f]
                                  ELSE [verdict[f] EXCEPT !.status = inline[f]]]
          BY <3>1 DEF StoreInline
        <4>2. /\ \A f \in Sites \ G : verdict'[f] = verdict[f]
              /\ \A f \in G : verdict'[f] = [verdict[f] EXCEPT !.status = inline[f]]
              /\ verdict' = [f \in Sites |-> verdict'[f]]
          BY <4>1
        <4>3. G \in SUBSET Sites
          OBVIOUS
        <4>. HIDE DEF G
        <4>. QED  BY <4>1, <4>2, <4>3
      <3>2. CASE Reverify
        BY <3>2 DEF Reverify
      <3>. QED  BY <1>2, <3>1, <3>2
    <2>2. UNCHANGED <<providerVars, entry, events>>
      BY <1>2 DEF StoreInline, Reverify
    <2>3. ASSUME NEW f \in Sites
          PROVE  /\ verdict'[f] \in [status : Answers \cup {"none", "failed"}, at : 0..clock]
                 /\ rotatedAt # 0 => Sound(verdict[f])'
      <3>1. CASE f \notin G
        BY <2>1, <2>2, <3>1, <1>0 DEF VerifyTypeOK, AnswersSound, Sound
      <3>2. CASE f \in G
        <4>1. PICK s \in {inline[f], "failed"} : verdict'[f] = [verdict[f] EXCEPT !.status = s]
          BY <2>1, <3>2
        <4>2. s \in Answers \cup {"none", "failed"}
          BY DEF VerifyTypeOK
        <4>3. verdict'[f].at = verdict[f].at /\ verdict'[f].status = s
          BY <4>1 DEF VerifyTypeOK
        <4>4. verdict'[f] \in [status : Answers \cup {"none", "failed"}, at : 0..clock]
          BY <4>1, <4>2 DEF VerifyTypeOK
        <4>5. s = "active" => entry.status = "active"
          BY DEF InlineIsCached, Answers
        <4>6. rotatedAt # 0 /\ verdict[f].at > rotatedAt =>
                 entry.status = "inactive" /\ entry.at > rotatedAt
          BY DEF AnswersSound, Sound
        <4>7. verdict[f].at \in Nat
          BY DEF VerifyTypeOK
        <4>. QED  BY <4>3, <4>4, <4>5, <4>6, <4>7, <2>2, <1>0, <1>t DEF Sound
      <3>. QED  BY <3>1, <3>2
    <2>4. verdict' \in [Sites -> [status : Answers \cup {"none", "failed"}, at : 0..clock]]
      BY <2>1, <2>3
    <2>5. CASE Passes # {}
      <3>1. PICK p \in Passes : TRUE
        BY <2>5
      <3>2. InStep(p)' /\ PassTypeOK'
        BY <2>1, <1>0, <1>t, BystandersInStep, MovedType DEF PassesInStep, PassTypeOK
      <3>. QED
        BY <2>1, <2>2, <2>3, <2>4, <3>1, <3>2, VerdictWriteKeeps DEF VerifyTypeOK
    <2>6. CASE Passes = {}
      <3>1. PassTypeOK' /\ PassesInStep'
        BY <2>1, <2>6, <1>t, MovedType DEF PassTypeOK, PassesInStep
      <3>2. VerifyTypeOK'
        BY <1>0, <2>1, <2>2, <2>4, <3>1 DEF VerifyTypeOK, Nothing
      <3>3. AnswersSound' /\ InlineIsCached'
        BY <1>0, <2>1, <2>2, <2>3, <2>6
        DEF AnswersSound, Sound, InlineIsCached, Cached, Fresh, Nothing, Answers
      <3>. QED  BY <3>1, <3>2, <3>3
    <2>. QED  BY <2>5, <2>6
  <1>3. CASE ScanDies
    <2>1. inline' = Nothing /\ UNCHANGED <<verdict, entry, events, pass>>
      BY <1>3 DEF ScanDies
    <2>2. VerifyTypeOK'
      BY <1>0, <2>1 DEF VerifyTypeOK, PassTypeOK, Nothing
    <2>. QED
      BY <1>0, <2>1, <2>2
      DEF PassesInStep, InStep, AnswersSound, Sound, InlineIsCached, Nothing, Answers
  <1>. QED  BY <1>1, <1>2, <1>3

-----------------------------------------------------------------------------
LEMMA VerifyNextIInv == VerifyIInv /\ [VerificationNext]_verifyVars => VerifyIInv'
  <1>. SUFFICES ASSUME VerifyIInv, [VerificationNext]_verifyVars PROVE VerifyIInv'
    OBVIOUS
  <1>1. ASSUME NEW p \in Passes, CommitSome(p) \/ FinishPass(p) PROVE VerifyIInv'
    <2>1. pass[p] \in PassStates
      BY DEF VerifyIInv, VerifyTypeOK, PassTypeOK
    <2>2. CASE CommitSome(p)
      <3>. DEFINE next == [pass[p] EXCEPT !.dirty = {}, !.turned = {}]
      <3>1. next \in PassStates
        BY <2>1 DEF PassStates
      <3>2. pass[p].on /\ Commit(p, next) /\ UNCHANGED <<providerVars, entry, inline>>
        BY <2>2 DEF CommitSome
      <3>. HIDE DEF next
      <3>3. next = [pass[p] EXCEPT !.dirty = {}, !.turned = {}]
        BY DEF next
      <3>. QED  BY <3>1, <3>2, <3>3, CommitKeeps
    <2>3. CASE FinishPass(p)
      BY <2>3, NoPassFacts, CommitKeeps DEF FinishPass
    <2>. QED  BY <1>1, <2>2, <2>3
  <1>2. CASE UNCHANGED verifyVars
    BY <1>2 DEF verifyVars, providerVars, VerifyIInv, VerifyTypeOK, PassTypeOK, PassesInStep,
                InStep, AnswersSound, Sound, InlineIsCached, Cached, Fresh
  <1>. QED
    BY <1>1, <1>2, TickKeeps, RotateKeeps, MemoryKeeps, AnswerKeeps, ScansKeep
    DEF VerificationNext

LEMMA VerifyIInvHolds == VerificationSpec => []VerifyIInv
  BY VerifyInitIInv, VerifyNextIInv, PTL DEF VerificationSpec

\* The age of verdicts: after the rotation nothing that says "active" is counted
\* as fresh for longer than a TTL, by whichever way it reached its row.
THEOREM ActiveVerdictsGoStale == VerificationSpec => []VerificationInv
  <1>1. VerifyIInv => VerificationInv
    <2>. SUFFICES ASSUME VerifyIInv PROVE VerificationInv
      OBVIOUS
    <2>. USE DEF VerifyIInv
    <2>1. VerificationTypeOK
      <3>1. 0..clock \subseteq 0..MaxClock
        BY VerificationBounds DEF VerifyTypeOK
      <3>. QED
        BY <3>1 DEF VerificationTypeOK, VerifyTypeOK, PassesInStep, InStep
    <2>2. ASSUME NEW f \in Sites, verdict[f].status = "active", rotatedAt # 0,
                 clock - rotatedAt >= TTL
          PROVE  ~Fresh(verdict[f].at)
      <3>1. verdict[f].at <= rotatedAt
        BY <2>2 DEF AnswersSound, Sound
      <3>2. clock \in Nat /\ rotatedAt \in Nat /\ verdict[f].at \in Nat /\ TTL \in Nat
        BY VerificationBounds DEF VerifyTypeOK
      <3>. QED  BY <2>2, <3>1, <3>2 DEF Fresh
    <2>. QED  BY <2>1, <2>2 DEF VerificationInv, ActiveGoesStale
  <1>. QED  BY <1>1, VerifyIInvHolds, PTL

\* A rotation event is recorded only when its row turns, and one whenever a step other
\* than a scan's store turns it, whichever passes and scans write the row at the time.
THEOREM EventsOnTheTurn == VerificationSpec => EventOnTheTurn
  <1>. DEFINE Turns(f) == verdict[f].status = "active" /\ verdict'[f].status = "inactive"
              OnTheTurn == \A f \in Sites :
                  /\ events'[f] # events[f] => Turns(f) /\ events'[f] = events[f] + 1
                  /\ Turns(f) /\ inline' = inline => events'[f] = events[f] + 1
  <1>1. VerifyIInv /\ [VerificationNext]_verifyVars => OnTheTurn
    <2>. SUFFICES ASSUME VerifyIInv, [VerificationNext]_verifyVars PROVE OnTheTurn
      OBVIOUS
    <2>1. CASE events' = events /\ verdict' = verdict
      BY <2>1
    <2>2. ASSUME NEW p \in Passes, NEW next, Commit(p, next) PROVE OnTheTurn
      <3>1. CASE pass[p].dirty \cap pass[p].stale # {}
        BY <2>1, <2>2, <3>1 DEF Commit
      <3>2. CASE pass[p].dirty \cap pass[p].stale = {}
        <4>1. ASSUME NEW f \in Sites
              PROVE  /\ events'[f] # events[f] => Turns(f) /\ events'[f] = events[f] + 1
                     /\ Turns(f) => events'[f] = events[f] + 1
          <5>1. /\ events'[f] = IF f \in pass[p].turned THEN events[f] + 1 ELSE events[f]
                /\ verdict'[f] = IF f \in pass[p].dirty THEN pass[p].copy[f] ELSE verdict[f]
            BY <2>2, <3>2 DEF Commit
          <5>2. CASE f \in pass[p].dirty
            <6>1. f \in pass[p].turned
                    <=> verdict[f].status = "active" /\ pass[p].copy[f].status = "inactive"
              BY <3>2, <5>2 DEF VerifyIInv, PassesInStep, InStep
            <6>. QED  BY <5>1, <5>2, <6>1
          <5>3. CASE f \notin pass[p].dirty
            <6>1. f \notin pass[p].turned
              BY <5>3 DEF VerifyIInv, PassesInStep, InStep
            <6>. QED  BY <5>1, <5>3, <6>1
          <5>. QED  BY <5>2, <5>3
        <4>. QED  BY <4>1
      <3>. QED  BY <3>1, <3>2
    <2>3. CASE StoreInline
      BY <2>3 DEF StoreInline
    <2>4. CASE Reverify
      <3>1. /\ events' = events
            /\ verdict' = [f \in Sites |-> [verdict[f] EXCEPT !.status = "failed"]]
        BY <2>4 DEF Reverify
      <3>2. \A f \in Sites : verdict'[f].status = "failed"
        BY <3>1 DEF VerifyIInv, VerifyTypeOK
      <3>. QED  BY <3>1, <3>2
    <2>. QED
      BY <2>1, <2>2, <2>3, <2>4
      DEF VerificationNext, verifyVars, providerVars, Tick, Rotate, StartPass, CommitSome,
          FinishPass, KillPass, Skip, FromCache, AskProvider, NoAnswer, VerifyInline, ScanDies
  <1>. QED  BY <1>1, VerifyIInvHolds, PTL DEF VerificationSpec, EventOnTheTurn

-----------------------------------------------------------------------------
(* The rate limiter.  While the key is there, what was granted and what is left *)
(* are paid for by the capacity and the time up to last_refill; once it is       *)
(* forgotten, what was granted is paid for by time alone, so that a new full     *)
(* bucket may begin.  That needs the key to live as long as a bucket takes to    *)
(* fill.                                                                         *)


Paid ==
    /\ bucket.there =>
          Unit * granted + bucket.tokens <= Capacity + Rate * (bucket.last + back)
    /\ ~bucket.there => granted = 0 \/ Unit * granted <= Rate * (time - MaxDelay + back)

Phases == [pc : {"idle", "sent", "asleep"}, now : Nat, began : Nat, retry : BOOLEAN]

BucketTypeOK ==
    /\ time \in Nat /\ granted \in Nat /\ back \in Nat
    /\ bucket \in [there : BOOLEAN, tokens : 0 .. Capacity, last : Nat]
    /\ caller \in [Callers -> Phases]

\* Clocks of callers are not ahead, and a script is not older than MaxDelay.
ClocksOK ==
    /\ bucket.last <= time
    /\ \A c \in Callers : caller[c].pc = "sent"
                             => caller[c].now <= time /\ time <= caller[c].now + MaxDelay

BucketIInv == BucketTypeOK /\ ClocksOK /\ Paid

LEMMA RateIsAdditive ==
    \A a, b \in Int : Rate * (a + b) = Rate * a + Rate * b /\ (a <= b => Rate * a <= Rate * b)
  BY BucketAssumption

LEMMA BucketInitIInv ==
    BucketInit => BucketIInv
  BY BucketAssumption DEF BucketInit, BucketIInv, BucketTypeOK, ClocksOK, Paid, Idle, Phases

\* A script that leaves as many tokens as it found, or takes one of them, is paid for.
LEMMA StorePays ==
    ASSUME BucketIInv, NEW now \in Nat, now <= time, time <= now + MaxDelay,
           NEW n \in Nat, NEW left \in 0 .. Capacity,
           Unit * n + left <= Unit * granted + Refilled(now),
           Store(now, left), granted' = n, time' = time
    PROVE  Paid' /\ bucket'.last = now /\ back' \in Nat
           /\ bucket' \in [there : BOOLEAN, tokens : 0 .. Capacity, last : Nat]
  <1>. USE BucketAssumption DEF BucketIInv, BucketTypeOK
  <1>. DEFINE G == Unit * granted
              N == Unit * n
              R(x) == Rate * x
  <1>0. G \in Nat /\ N \in Nat /\ \A x \in Int : R(x) \in Int
    OBVIOUS
  <1>1. /\ bucket' = [there |-> TRUE, tokens |-> left, last |-> now] /\ granted' = n
        /\ back' = IF bucket.there /\ now < bucket.last THEN back + (bucket.last - now) ELSE back
    BY DEF Store
  <1>2. back' \in Nat /\ back <= back'
    BY <1>1
  <1>3. Refilled(now) \in 0 .. Capacity
    BY DEF Refilled, Least
  <1>4. G + Refilled(now) <= Capacity + R(now + back')
    <2>1. CASE bucket.there /\ now <= bucket.last
      <3>1. now + back' = bucket.last + back
        BY <1>1, <2>1
      <3>2. Refilled(now) <= bucket.tokens
        BY <2>1 DEF Refilled, Least
      <3>3. G + bucket.tokens <= Capacity + R(bucket.last + back)
        BY <2>1 DEF Paid
      <3>. HIDE DEF G, R
      <3>. QED  BY <1>0, <1>2, <1>3, <3>1, <3>2, <3>3
    <2>2. CASE bucket.there /\ now > bucket.last
      <3>1. back' = back
        BY <1>1, <2>2
      <3>2. Refilled(now) <= bucket.tokens + R(now - bucket.last)
        BY <2>2 DEF Refilled, Least
      <3>3. G + bucket.tokens <= Capacity + R(bucket.last + back)
        BY <2>2 DEF Paid
      <3>4. /\ bucket.last + back \in Int /\ now - bucket.last \in Int
            /\ (bucket.last + back) + (now - bucket.last) = now + back
        OBVIOUS
      <3>5. R(now + back) = R(bucket.last + back) + R(now - bucket.last)
        BY <3>4, RateIsAdditive
      <3>6. R(bucket.last + back) \in Int /\ R(now - bucket.last) \in Int
        BY <3>4, <1>0
      <3>. HIDE DEF G, R
      <3>. QED  BY <1>0, <1>3, <3>1, <3>2, <3>3, <3>5, <3>6
    <2>3. CASE ~bucket.there
      <3>1. back' = back /\ Refilled(now) = Capacity
        BY <1>1, <2>3 DEF Refilled
      <3>2. CASE granted = 0
        <4>1. G = 0 /\ R(now + back) >= 0
          BY <3>2
        <4>. HIDE DEF G, R
        <4>. QED  BY <4>1, <3>1, <1>0
      <3>3. CASE G <= R(time - MaxDelay + back)
        <4>1. time - MaxDelay + back \in Int /\ now + back \in Int
              /\ time - MaxDelay + back <= now + back
          BY DEF ClocksOK
        <4>2. R(time - MaxDelay + back) <= R(now + back)
          BY <4>1, RateIsAdditive
        <4>3. R(time - MaxDelay + back) \in Int /\ R(now + back) \in Int
          BY <4>1, <1>0
        <4>. HIDE DEF G, R
        <4>. QED  BY <3>1, <3>3, <4>2, <4>3, <1>0
      <3>. QED  BY <2>3, <3>2, <3>3 DEF Paid
    <2>. QED  BY <2>1, <2>2, <2>3
  <1>5. N + left <= Capacity + R(now + back')
    <2>1. N + left <= G + Refilled(now) /\ R(now + back') \in Int
      BY <1>0, <1>2
    <2>. HIDE DEF G, N, R
    <2>. QED  BY <2>1, <1>0, <1>3, <1>4
  <1>. QED  BY <1>1, <1>2, <1>5 DEF Paid

LEMMA BucketNextKeeps ==
    ASSUME BucketIInv, [BucketNext]_bucketVars
    PROVE  BucketIInv'
  <1>. USE BucketAssumption
  <1>1. CASE TimePasses
    <2>1. /\ time' = time + 1 /\ UNCHANGED <<bucket, caller, granted, back>>
          /\ \A c \in Callers : caller[c].pc = "sent" => time - caller[c].now < MaxDelay
      BY <1>1 DEF TimePasses
    <2>2. BucketTypeOK' /\ ClocksOK'
      BY <2>1 DEF BucketIInv, BucketTypeOK, ClocksOK, Phases
    <2>3. Paid'
      <3>. DEFINE R(x) == Rate * x
                  G == Unit * granted
      <3>1. /\ time - MaxDelay + back \in Int /\ time' - MaxDelay + back' \in Int
            /\ time - MaxDelay + back <= time' - MaxDelay + back'
        BY <2>1 DEF BucketIInv, BucketTypeOK
      <3>2. R(time - MaxDelay + back) <= R(time' - MaxDelay + back')
        BY <3>1, RateIsAdditive
      <3>3. G \in Int /\ R(time - MaxDelay + back) \in Int /\ R(time' - MaxDelay + back') \in Int
        BY <3>1 DEF BucketIInv, BucketTypeOK
      <3>4. ~bucket.there => granted = 0 \/ G <= R(time - MaxDelay + back)
        BY DEF BucketIInv, Paid
      <3>5. ~bucket.there => granted = 0 \/ G <= R(time' - MaxDelay + back')
        <4>. HIDE DEF R, G
        <4>. QED  BY <3>2, <3>3, <3>4
      <3>. QED  BY <2>1, <3>5 DEF Paid, BucketIInv
    <2>. QED  BY <2>2, <2>3 DEF BucketIInv
  <1>2. CASE Forget
    <2>1. /\ bucket' = [bucket EXCEPT !.there = FALSE]
          /\ bucket.there /\ bucket.last + KeyTTL <= time
          /\ UNCHANGED <<time, caller, granted, back>>
      BY <1>2 DEF Forget, BucketIInv, BucketTypeOK
    <2>2. BucketTypeOK' /\ ClocksOK' /\ ~bucket'.there
      BY <2>1 DEF BucketIInv, BucketTypeOK, ClocksOK
    <2>3. Unit * granted <= Rate * (time - MaxDelay + back)
      <3>. DEFINE R(x) == Rate * x
                  G == Unit * granted
                  a == bucket.last + back
                  b == KeyTTL - MaxDelay
      <3>1. /\ a \in Int /\ b \in Int /\ time - MaxDelay + back \in Int
            /\ a + b <= time - MaxDelay + back /\ a + b \in Int
        BY <2>1 DEF BucketIInv, BucketTypeOK
      <3>2. R(a + b) = R(a) + R(b) /\ R(a + b) <= R(time - MaxDelay + back)
        BY <3>1, RateIsAdditive
      <3>3. /\ G \in Int /\ R(a) \in Int /\ R(b) \in Int /\ R(time - MaxDelay + back) \in Int
            /\ bucket.tokens \in Nat
        BY <3>1 DEF BucketIInv, BucketTypeOK
      <3>4. G + bucket.tokens <= Capacity + R(a) /\ Capacity <= R(b)
        BY <2>1 DEF BucketIInv, Paid
      <3>. HIDE DEF R, G, a, b
      <3>5. G <= R(time - MaxDelay + back)
        BY <3>2, <3>3, <3>4
      <3>. QED  BY <3>5 DEF R, G
    <2>. QED  BY <2>1, <2>2, <2>3 DEF BucketIInv, Paid
  <1>3. ASSUME NEW c \in Callers, Acquire(c) \/ Wake(c) \/ FailOpen(c)
        PROVE  BucketIInv'
    <2>1. UNCHANGED <<time, bucket, granted, back>>
      BY <1>3 DEF Acquire, Wake, FailOpen
    <2>. USE DEF Idle, BucketIInv, BucketTypeOK, ClocksOK
    <2>2. CASE Acquire(c)
      <3>1. BucketTypeOK' /\ ClocksOK'
        BY <2>1, <2>2 DEF Acquire, Phases
      <3>. QED  BY <2>1, <3>1 DEF Paid
    <2>3. CASE Wake(c)
      <3>1. caller' = [caller EXCEPT ![c] = [@ EXCEPT !.pc = "sent", !.now = time,
                                                      !.retry = TRUE]]
        BY <2>3 DEF Wake
      <3>2. PICK r \in Phases : r.now = time /\ caller' = [caller EXCEPT ![c] = r]
        <4>. DEFINE r == [caller[c] EXCEPT !.pc = "sent", !.now = time, !.retry = TRUE]
        <4>1. r \in Phases /\ r.now = time /\ caller' = [caller EXCEPT ![c] = r]
          BY <3>1 DEF Phases
        <4>. QED  BY <4>1
      <3>3. BucketTypeOK' /\ ClocksOK'
        BY <2>1, <3>2 DEF Phases
      <3>. QED  BY <2>1, <3>3 DEF Paid
    <2>4. CASE FailOpen(c)
      <3>1. BucketTypeOK' /\ ClocksOK'
        BY <2>1, <2>4 DEF FailOpen, Phases
      <3>. QED  BY <2>1, <3>1 DEF Paid
    <2>. QED  BY <1>3, <2>2, <2>3, <2>4
  <1>4. ASSUME NEW c \in Callers, TakeToken(c)
        PROVE  BucketIInv'
    <2>. DEFINE now == caller[c].now
                left == Refilled(now) - Unit
    <2>1. now \in Nat /\ now <= time /\ time <= now + MaxDelay
      BY <1>4 DEF TakeToken, BucketIInv, BucketTypeOK, ClocksOK, Phases
    <2>2. Refilled(now) \in 0 .. Capacity /\ left \in 0 .. Capacity
      BY <1>4, <2>1 DEF TakeToken, BucketIInv, BucketTypeOK, Refilled, Least
    <2>3. Store(now, left) /\ granted' = granted + 1 /\ time' = time
          /\ caller' = [caller EXCEPT ![c] = Idle]
      BY <1>4 DEF TakeToken
    <2>4. granted + 1 \in Nat /\ Unit * (granted + 1) = Unit * granted + Unit
          /\ Unit * granted \in Nat
      BY DEF BucketIInv, BucketTypeOK
    <2>5. Unit * (granted + 1) + left <= Unit * granted + Refilled(now)
      BY <2>2, <2>4
    <2>. HIDE DEF now, left
    <2>6. Paid' /\ bucket'.last = now /\ back' \in Nat
          /\ bucket' \in [there : BOOLEAN, tokens : 0 .. Capacity, last : Nat]
      BY <2>1, <2>2, <2>3, <2>4, <2>5, StorePays
    <2>7. BucketTypeOK' /\ ClocksOK'
      BY <2>1, <2>3, <2>4, <2>6 DEF BucketIInv, BucketTypeOK, ClocksOK, Idle, Phases
    <2>. QED  BY <2>6, <2>7 DEF BucketIInv
  <1>5. ASSUME NEW c \in Callers, FindEmpty(c)
        PROVE  BucketIInv'
    <2>. DEFINE now == caller[c].now
                left == Refilled(now)
                wait == WaitFor(left)
    <2>1. now \in Nat /\ now <= time /\ time <= now + MaxDelay
      BY <1>5 DEF FindEmpty, BucketIInv, BucketTypeOK, ClocksOK, Phases
    <2>2. left \in 0 .. Capacity /\ left < Unit
      BY <1>5, <2>1 DEF FindEmpty, BucketIInv, BucketTypeOK, Refilled, Least
    <2>3. Store(now, left) /\ granted' = granted /\ time' = time
      BY <1>5 DEF FindEmpty
    <2>4. wait \in Nat
      <3>1. Unit - left + Rate - 1 \in Nat
        BY <2>2
      <3>. QED  BY <3>1 DEF WaitFor
    <2>5. \/ caller' = [caller EXCEPT ![c] = [@ EXCEPT !.pc = "asleep", !.now = time + wait]]
          \/ caller' = [caller EXCEPT ![c] = Idle]
      BY <1>5 DEF FindEmpty
    <2>. HIDE DEF now, left, wait
    <2>6. granted \in Nat /\ Unit * granted + left <= Unit * granted + Refilled(now)
      BY <2>2 DEF BucketIInv, BucketTypeOK, left
    <2>7. Paid' /\ bucket'.last = now /\ back' \in Nat
          /\ bucket' \in [there : BOOLEAN, tokens : 0 .. Capacity, last : Nat]
      BY <2>1, <2>2, <2>3, <2>6, StorePays
    <2>8. /\ time \in Nat /\ time + wait \in Nat /\ time' = time /\ granted' \in Nat
          /\ back' \in Nat
      BY <2>3, <2>4, <2>6, <2>7 DEF BucketIInv, BucketTypeOK
    <2>9. caller' \in [Callers -> Phases]
      <3>1. PICK r \in Phases : caller' = [caller EXCEPT ![c] = r]
        <4>. DEFINE r == [caller[c] EXCEPT !.pc = "asleep", !.now = time + wait]
        <4>1. r \in Phases /\ Idle \in Phases
          BY <2>8 DEF BucketIInv, BucketTypeOK, Phases, Idle
        <4>. QED  BY <2>5, <4>1
      <3>. QED  BY <3>1 DEF BucketIInv, BucketTypeOK
    <2>10. \A d \in Callers : caller'[d].pc = "sent" => caller'[d] = caller[d]
      <3>1. CASE caller' = [caller EXCEPT ![c] = Idle]
        BY <3>1 DEF BucketIInv, BucketTypeOK, Idle
      <3>2. CASE caller' = [caller EXCEPT ![c] = [@ EXCEPT !.pc = "asleep", !.now = time + wait]]
        BY <3>2 DEF BucketIInv, BucketTypeOK
      <3>. QED  BY <2>5, <3>1, <3>2
    <2>11. BucketTypeOK' /\ ClocksOK'
      BY <2>1, <2>7, <2>8, <2>9, <2>10 DEF BucketIInv, BucketTypeOK, ClocksOK
    <2>. QED  BY <2>7, <2>11 DEF BucketIInv
  <1>6. CASE UNCHANGED bucketVars
    BY <1>6 DEF bucketVars, BucketIInv, BucketTypeOK, ClocksOK, Paid
  <1>. QED  BY <1>1, <1>2, <1>3, <1>4, <1>5, <1>6 DEF BucketNext

LEMMA PaidBounds ==
    BucketIInv => GrantsBounded
  <1>. SUFFICES ASSUME BucketIInv  PROVE GrantsBounded
    OBVIOUS
  <1>. USE BucketAssumption
  <1>. DEFINE R(x) == Rate * x
              G == Unit * granted
  <1>1. /\ bucket.last + back \in Int /\ time - MaxDelay + back \in Int /\ time + back \in Int
        /\ bucket.last + back <= time + back /\ time - MaxDelay + back <= time + back
    BY DEF BucketIInv, BucketTypeOK, ClocksOK
  <1>2. R(bucket.last + back) <= R(time + back) /\ R(time - MaxDelay + back) <= R(time + back)
    BY <1>1, RateIsAdditive
  <1>3. /\ R(bucket.last + back) \in Int /\ R(time + back) \in Int /\ R(time - MaxDelay + back) \in Int
        /\ 0 <= R(time + back) /\ G \in Int /\ bucket.tokens \in Nat /\ (granted = 0 => G = 0)
    BY <1>1 DEF BucketIInv, BucketTypeOK
  <1>4. \/ G + bucket.tokens <= Capacity + R(bucket.last + back)
        \/ granted = 0 \/ G <= R(time - MaxDelay + back)
    BY DEF BucketIInv, BucketTypeOK, Paid
  <1>5. G <= Capacity + R(time + back)
    <2>. HIDE DEF G, R
    <2>. QED  BY <1>2, <1>3, <1>4
  <1>. QED  BY <1>5 DEF GrantsBounded

\* However many workers share the bucket, and whenever it is forgotten, the tokens
\* taken are within the capacity and the rate, but for clocks that moved it back.
THEOREM GrantsStayBounded == BucketSpec => []GrantsBounded
  <1>1. BucketIInv /\ [BucketNext]_bucketVars => BucketIInv'
    BY BucketNextKeeps
  <1>. QED  BY BucketInitIInv, <1>1, PaidBounds, PTL DEF BucketSpec
==============================================================================
