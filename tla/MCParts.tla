-------------------------------- MODULE MCParts --------------------------------
(* Parts of the system that share no state, each too small for a run of its     *)
(* own: the initial state says which of them moves, and the others stay as they  *)
(* begin.                                                                        *)
EXTENDS FindingTriage, SecretVerification, RateLimiter, FindingsImport, ScanCpuSlots, TLC

CONSTANTS a, b, i1, i2, i3, k1, k2, k3

\* Each item is of a secret of its own; clients send both or one.
MCSecretOf == [f \in Items |-> f]
MCPayloads == {{a, b}, {b}}

\* Two requests with one key, or three with one each.
MCKeyings == {[j \in Imports |-> IF j = i3 THEN k2 ELSE k1],
              [j \in Imports |-> IF j = i1 THEN k1 ELSE IF j = i2 THEN k2 ELSE k3]}

VARIABLE part

partsVars == <<triageVars, verifyVars, bucketVars, importVars, slotVars, part>>

PartsInit ==
    /\ TriageInit /\ VerificationInit /\ BucketInit /\ ImportInit /\ SlotInit
    /\ part \in {"triage", "verification", "bucket", "import", "slots"}
    /\ key \in IF part = "import" THEN MCKeyings ELSE {[j \in Imports |-> k1]}

PartsNext ==
    /\ UNCHANGED part
    /\ \/ part = "triage" /\ TriageNext
          /\ UNCHANGED <<verifyVars, bucketVars, importVars, slotVars>>
       \/ part = "verification" /\ VerificationNext
          /\ UNCHANGED <<triageVars, bucketVars, importVars, slotVars>>
       \/ part = "bucket" /\ BucketNext
          /\ UNCHANGED <<triageVars, verifyVars, importVars, slotVars>>
       \/ part = "import" /\ ImportNext
          /\ UNCHANGED <<triageVars, verifyVars, bucketVars, slotVars>>
       \/ part = "slots" /\ SlotNext
          /\ UNCHANGED <<triageVars, verifyVars, bucketVars, importVars>>

PartsSpec == PartsInit /\ [][PartsNext]_partsVars

\* Occurrences are alike, and scans.
PartsSymmetry == Permutations(Findings) \cup Permutations(Scans)
=============================================================================
