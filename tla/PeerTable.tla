----------------------------- MODULE PeerTable -----------------------------
(***************************************************************************)
(* The operations of PeerTable (distributed/discovery/peer-table.ts) on a  *)
(* peer table as a value.  A table maps every identity to its record or to *)
(* Absent.                                                                 *)
(*                                                                         *)
(* Time.  The code stores lastSeen and compares it with Date.now() or with *)
(* another lastSeen; a record here carries the age now - lastSeen instead, *)
(* counted in ticks of 30 s (the age below which a health round skips a    *)
(* peer) and cut off at DeadAge (180 s, when a peer no longer counts as    *)
(* alive).  The clocks of the nodes are taken to agree.                    *)
(*                                                                         *)
(* term and source are left out: main.ts passes a constant term and        *)
(* nothing branches on source.                                             *)
(***************************************************************************)
EXTENDS Naturals, FiniteSets

CONSTANTS Node,         \* node identities
          Addr,         \* endpoints
          Absent,       \* no record
          DeadAge,      \* DEAD_THRESHOLD_MS, in ticks
          RepMax,       \* the ceiling of reputation (100)
          RepNew,       \* reputation of a new record (50)
          RepHearsay,   \* reputation given to a peer learned from others (40)
          SeenBonus,    \* markSeen (+5)
          DeadPenalty   \* markDead (-20)

ASSUME PeerTableAssumption ==
    /\ DeadAge \in Nat \ {0}
    /\ RepMax \in Nat /\ RepNew \in 0..RepMax /\ RepHearsay \in 0..RepMax
    /\ SeenBonus \in Nat /\ DeadPenalty \in Nat

Record == [addr : Addr, age : 0..DeadAge, rep : 0..RepMax]

\* Absent is no record (and no sighting, see Discovery) and no reputation.
ASSUME AbsentAssumption ==
    /\ Absent \notin Record
    /\ Absent \notin [addr : Addr, age : 0..DeadAge]
    /\ Absent \notin 0..RepMax

Table == [Node -> Record \cup {Absent}]

NoPeers == [p \in Node |-> Absent]

Smaller(a, b) == IF a < b THEN a ELSE b

\* One tick later.
Older(age) == Smaller(age + 1, DeadAge)

Listed(T) == {p \in Node : T[p] # Absent}

\* alive()
AliveIn(T) == {p \in Listed(T) : T[p].age < DeadAge}

\* upsert(): what becomes of the record `old` when it is offered an endpoint,
\* an age and a reputation (Absent where the caller gives none).  A change of
\* endpoint with less reputation than the record has only refreshes its age.
Updated(old, addr, age, rep) ==
    IF old = Absent
    THEN [addr |-> addr, age |-> age, rep |-> IF rep = Absent THEN RepNew ELSE rep]
    ELSE LET offered == IF rep = Absent THEN RepNew ELSE rep
             fresher == Smaller(age, old.age)
         IN  IF old.addr # addr /\ offered < old.rep
             THEN [old EXCEPT !.age = fresher]
             ELSE [addr |-> addr, age |-> fresher,
                   rep |-> IF rep = Absent THEN old.rep ELSE rep]

Upsert(T, p, addr, age, rep) == [T EXCEPT ![p] = Updated(T[p], addr, age, rep)]

\* Mutant: no ceiling on the reputation.
MarkSeenUnbounded(T, p) ==
    IF T[p] = Absent THEN T
    ELSE [T EXCEPT ![p].age = 0, ![p].rep = T[p].rep + SeenBonus]

\* markSeen() and markDead() change a record that is there, and nothing else.
MarkSeen(T, p) ==
    IF T[p] = Absent THEN T
    ELSE [T EXCEPT ![p].age = 0, ![p].rep = Smaller(RepMax, T[p].rep + SeenBonus)]

MarkDead(T, p) ==
    IF T[p] = Absent THEN T
    ELSE [T EXCEPT ![p].rep = IF T[p].rep > DeadPenalty THEN T[p].rep - DeadPenalty ELSE 0]

Remove(T, p) == [T EXCEPT ![p] = Absent]

\* merge(): take over what others have seen, except about oneself, where it is
\* news: a peer not listed here, or seen more recently than here.  `heard`
\* maps an identity to a sighting [addr, age] or to Absent.
Merge(T, self, heard, rep) ==
    [p \in Node |->
        IF p # self /\ heard[p] # Absent /\ (T[p] = Absent \/ heard[p].age < T[p].age)
        THEN Updated(T[p], heard[p].addr, heard[p].age, rep)
        ELSE T[p]]

\* A tick makes every record older.
Aged(T) == [p \in Node |->
    IF T[p] = Absent THEN Absent ELSE [T[p] EXCEPT !.age = Older(T[p].age)]]
=============================================================================
