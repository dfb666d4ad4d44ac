------------------------------ MODULE CubeCells ------------------------------
(***************************************************************************)
(* CubeEngine (cube_engine/cube-engine.ts): the flat engine, one CubeCell  *)
(* of bounded size per coordinate and an index of where each project is.   *)
(* Its operations have no await inside: each is one action.                *)
(***************************************************************************)
EXTENDS Naturals, FiniteSets

CONSTANTS Project, Cell,
          MaxPerCell,
          NoCell

VARIABLES cells,        \* CubeCell.projectIds
          projectIndex  \* project -> coordinate

vars == <<cells, projectIndex>>

Init ==
    /\ cells = [c \in Cell |-> {}]
    /\ projectIndex = [p \in Project |-> NoCell]

Full(held, c) == Cardinality(held[c]) >= MaxPerCell

Without(p) == [c \in Cell |-> cells[c] \ {p}]

\* Mutant: the old cell keeps the project.
IndexKeepsOld(p, c) ==
    /\ ~Full(cells, c)
    /\ cells' = [cells EXCEPT ![c] = @ \cup {p}]
    /\ projectIndex' = [projectIndex EXCEPT ![p] = c]

\* index(): refused when the cell is full, even if the project is in it; else
\* the project leaves the cell the index names and enters this one.
Index(p, c) ==
    LET old == projectIndex[p] IN
    /\ ~Full(cells, c)
    /\ cells' = [d \in Cell |-> IF d = c THEN cells[d] \cup {p}
                                ELSE IF d = old THEN cells[d] \ {p} ELSE cells[d]]
    /\ projectIndex' = [projectIndex EXCEPT ![p] = c]

\* remove(): the index forgets the project only if the cell held it.
Remove(p) ==
    LET c == projectIndex[p] IN
    /\ c # NoCell
    /\ p \in cells[c]
    /\ cells' = [cells EXCEPT ![c] = @ \ {p}]
    /\ projectIndex' = [projectIndex EXCEPT ![p] = NoCell]

\* Mutant: the project is not put back.
MoveRefusedLoses(p, c) ==
    /\ projectIndex[p] # NoCell
    /\ Full(Without(p), c)
    /\ cells' = Without(p)
    /\ UNCHANGED projectIndex

\* move() into a full cell: the project is taken out first, and put back.
MoveRefused(p, c) ==
    /\ projectIndex[p] # NoCell
    /\ Full(Without(p), c)
    /\ UNCHANGED vars

\* Mutant: the room is looked for after the project is in.
MoveCrowds(p, c) ==
    /\ projectIndex[p] # NoCell
    /\ Cardinality(cells[c]) <= MaxPerCell
    /\ cells' = [Without(p) EXCEPT ![c] = @ \cup {p}]
    /\ projectIndex' = [projectIndex EXCEPT ![p] = c]

\* move(): room is looked for once the project has left its cell, so that it
\* can be moved onto its own, full, cell.
Move(p, c) ==
    LET old == projectIndex[p]
        left == [cells EXCEPT ![old] = @ \ {p}]
    IN  /\ old # NoCell
        /\ ~Full(left, c)
        /\ cells' = [left EXCEPT ![c] = @ \cup {p}]
        /\ projectIndex' = [projectIndex EXCEPT ![p] = c]

Next ==
    \E p \in Project :
        \/ Remove(p)
        \/ \E c \in Cell : Index(p, c) \/ Move(p, c) \/ MoveRefused(p, c)

Spec == Init /\ [][Next]_vars

-----------------------------------------------------------------------------
TypeOK ==
    /\ cells \in [Cell -> SUBSET Project]
    /\ projectIndex \in [Project -> Cell \cup {NoCell}]

\* The cells and the index say the same: a project is in the one cell the
\* index names and in no other, also after a move that was refused.
CellsMatchIndex ==
    \A p \in Project, c \in Cell : p \in cells[c] <=> projectIndex[p] = c

\* No sequence of calls brings a cell above its capacity.
WithinCapacity == \A c \in Cell : Cardinality(cells[c]) <= MaxPerCell

\* What every index, remove and move keeps.
CellsSound == TypeOK /\ CellsMatchIndex /\ WithinCapacity
=============================================================================
