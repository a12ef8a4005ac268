----------------------------- MODULE ScanCpuSlots -----------------------------
(***************************************************************************)
(* The processes a scan may use for its file walk: a Redis gauge counts    *)
(* the walks under way, and each takes its share of the cores when it      *)
(* begins and keeps it.  Beat sets the gauge to the number of active rows, *)
(* counted in the database a moment before.                                *)
(*                                                                         *)
(* A walk that could not raise the gauge runs with one process, but lowers *)
(* the gauge when it ends.  A worker that dies lowers nothing.             *)
(***************************************************************************)
EXTENDS Naturals, FiniteSets

CONSTANTS
    Walks,       \* scans that may walk at a time
    Budget,      \* _scan_cpu_budget
    MaxGauge     \* bound: the gauge, and the active rows beat counts

ASSUME SlotAssumption ==
    IsFiniteSet(Walks) /\ Budget \in Nat \ {0} /\ MaxGauge \in Nat

VARIABLES
    gauge,       \* vooda:scan:active_count; 0 is also no key
    counted,     \* walks that raised it
    uncounted,   \* walks that could not
    share,       \* granted processes
    counting,    \* the number beat has read and not yet written, if any
    short,       \* history: the gauge was set below the walks, and still is
    unsure       \* history: walks that began while it was

walkVars == <<counted, uncounted, share, unsure>>
slotVars == <<gauge, walkVars, counting, short>>

Larger(a, b) == IF a > b THEN a ELSE b

\* The share of one among n.
Share(n) == Larger(1, Budget \div Larger(1, n))

SlotInit ==
    /\ gauge = 0 /\ counted = {} /\ uncounted = {}
    /\ share = [w \in Walks |-> 0]
    /\ counting = {} /\ short = FALSE /\ unsure = {}

\* A gauge below the walks stays so until it covers them again.
Shortfall(lapsed) == short' = ((short \/ lapsed) /\ gauge' < Cardinality(counted'))

\* Mutant: the share is computed from the gauge as it was.
TakeSlotBefore(w) ==
    /\ w \notin counted \cup uncounted /\ gauge < MaxGauge
    /\ gauge' = gauge + 1 /\ counted' = counted \cup {w}
    /\ share' = [share EXCEPT ![w] = Share(gauge)]
    /\ unsure' = IF short THEN unsure \cup {w} ELSE unsure
    /\ Shortfall(FALSE)
    /\ UNCHANGED <<uncounted, counting>>

\* INCR, and the share of the value it returns.
TakeSlot(w) ==
    /\ w \notin counted \cup uncounted /\ gauge < MaxGauge
    /\ gauge' = gauge + 1 /\ counted' = counted \cup {w}
    /\ share' = [share EXCEPT ![w] = Share(gauge')]
    /\ unsure' = IF short THEN unsure \cup {w} ELSE unsure
    /\ Shortfall(FALSE)
    /\ UNCHANGED <<uncounted, counting>>

\* Redis does not answer.
TakeSlotUncounted(w) ==
    /\ w \notin counted \cup uncounted
    /\ uncounted' = uncounted \cup {w} /\ share' = [share EXCEPT ![w] = 1]
    /\ UNCHANGED <<gauge, counted, counting, short, unsure>>

LeaveSlot(w) ==
    /\ counted' = counted \ {w} /\ uncounted' = uncounted \ {w}
    /\ share' = [share EXCEPT ![w] = 0]
    /\ unsure' = unsure \ {w}

\* Mutant: the handler of the scan gives the slot back too.
GiveBackTwice(w) ==
    /\ w \in counted \cup uncounted /\ LeaveSlot(w)
    /\ gauge' = IF gauge > 1 THEN gauge - 2 ELSE 0
    /\ Shortfall(w \in uncounted)
    /\ UNCHANGED counting

\* DECR, not below zero.
GiveBack(w) ==
    /\ w \in counted \cup uncounted /\ LeaveSlot(w)
    /\ gauge' = IF gauge > 0 THEN gauge - 1 ELSE 0
    /\ Shortfall(w \in uncounted)
    /\ UNCHANGED counting

\* The worker dies, or the DECR fails.
Leak(w) ==
    /\ w \in counted \cup uncounted /\ LeaveSlot(w)
    /\ UNCHANGED <<gauge, counting>>
    /\ Shortfall(FALSE)

\* Beat counts rows that are pending, running or analyzing, walk or not; the
\* row of a walk may have been reaped or cancelled.
CountRows(n) ==
    /\ counting = {} /\ counting' = {n}
    /\ UNCHANGED <<gauge, walkVars, short>>

\* And sets the gauge, whatever was raised or lowered in between.
Reconcile ==
    /\ gauge' \in counting /\ counting' = {}
    /\ UNCHANGED walkVars
    /\ Shortfall(TRUE)

\* The key runs out when nothing touched it for its TTL.
Expire ==
    /\ gauge' = 0 /\ UNCHANGED walkVars
    /\ Shortfall(TRUE)
    /\ UNCHANGED counting

SlotNext ==
    \/ \E w \in Walks : TakeSlot(w) \/ TakeSlotUncounted(w) \/ GiveBack(w) \/ Leak(w)
    \/ \E n \in 0 .. MaxGauge : CountRows(n)
    \/ Reconcile \/ Expire

SlotSpec == SlotInit /\ [][SlotNext]_slotVars

-----------------------------------------------------------------------------
(* Properties *)

\* The gauge is never below the walks that raised it, through deaths and floors,
\* except where beat overwrote it with an older or smaller count, its key ran out,
\* or a walk lowered it that had not raised it.
GaugeCovers == ~short => gauge >= Cardinality(counted)

\* Walks with more processes than one among n gets.
MoreThanOneOf(n) == {w \in counted \ unsure : share[w] > Share(n)}

\* The pools together: the n-th largest is no more than an n-th of the cores, so the
\* first may have the whole budget and the n-th adds its n-th part to it.  That is more
\* than the budget, but no more than that.
PoolsBounded == \A n \in 1 .. Cardinality(Walks) : Cardinality(MoreThanOneOf(n)) < n

\* What the gauge covers and what the pools may take.
SlotsInv == GaugeCovers /\ PoolsBounded
=============================================================================
