-------------------------------- MODULE MCRows ---------------------------------
(* Two parts of the system that write rows of findings, each in columns of its    *)
(* own: what hides rows, and which tickets they have.  The initial state says      *)
(* which part moves.                                                              *)
EXTENDS Suppressions, TicketFanout, TLC

VARIABLE part

ASSUME RowsBounds == TicketBounds

rowsVars == <<suppressionVars, ticketVars, part>>

RowsInit ==
    /\ SuppressionInit /\ TicketInit
    /\ part \in {"rules", "tickets"}

RowsNext ==
    /\ UNCHANGED part
    /\ \/ part = "rules" /\ SuppressionNext /\ UNCHANGED ticketVars
       \/ part = "tickets" /\ TicketNext /\ UNCHANGED suppressionVars

RowsSpec == RowsInit /\ [][RowsNext]_rowsVars

\* Both values of a set change places.
Swap(S) == [x \in S |-> CHOOSE y \in S : y # x]

\* Findings are alike.  No state has values of two parts, so theirs may change places
\* together.
RowsSymmetry ==
    Permutations(Findings)
        \cup {Swap(Rules) @@ Swap(Boards),
              Swap(Admins) @@ Swap(TicketScans)}
================================================================================
