----------------------------- MODULE NodeProofs -----------------------------
(***************************************************************************)
(* Theorems about the components of a node whose calls wait for the        *)
(* network, for one another or for foreign code: NodeSync here, Database,  *)
(* PluginRegistry, PluginRuntime and PeerHealth below, under the names Db, *)
(* Registry, Runtime and Health.                                           *)
(***************************************************************************)
EXTENDS NodeSync, FiniteSetTheorems, WellFoundedInduction, TLAPS

CONSTANTS Tx, Runner, Migration, Memory, MaxConns, MaxFaults  \* of Database
VARIABLES rows, call, ran, faults
Db == INSTANCE Database

CONSTANTS Plugin, Manifest, Platform, Adapter, Faulty, MaxPlugins,
          MaxCalls                                            \* of PluginRegistry
VARIABLES status, graph, memory, inits, stops, calls, overlapped
Registry == INSTANCE PluginRegistry

CONSTANTS Loaded, Deps, Threshold, Caller, Hangs, MaxInvokes, MaxGen, MaxMoves,
          Nobody                                              \* of PluginRuntime
VARIABLES state, gen, errors, old, visited, waitsFor, invokes, swap, quiet, moves
Runtime == INSTANCE PluginRuntime WITH
    Plugin <- Loaded, MaxChanges <- MaxMoves, changes <- moves

CONSTANTS Peer, Foreign, BanAt, MaxMissed, MaxPings, MaxChanges,
          NoPeer                                              \* of PeerHealth
VARIABLES running, registered, peers, pings, health, sent, changes
Health == INSTANCE PeerHealth WITH inbox <- pings

-----------------------------------------------------------------------------
(* Database.                                                               *)

\* What the proofs ask of the constants: a call of run() is none of runAll(), and
\* migrations have different names.
DbAssumption ==
    /\ IsFiniteSet(Tx \cup Runner) /\ Tx \cap Runner = {}
    /\ \E Name : Migration \in Seq(Name)
    /\ Db!IsInjective(Migration)
    /\ Memory \in BOOLEAN /\ MaxConns \in Nat

Names == {Migration[i] : i \in 1 .. Len(Migration)}
Row == ({"table", "ran"} \X Names) \cup ({"row"} \X Tx)

Inside == {"begin", "work", "record", "commit", "rollback"}
Stage == Inside \cup {"ensure", "check", "connect", "end"}

CallState ==
    [at : Stage, m : 1 .. Len(Migration) + 1, active : BOOLEAN, holds : BOOLEAN,
     wrote : SUBSET Row, leaked : BOOLEAN, unsure : BOOLEAN, ended : {"no", "ok", "failed"}]

\* The rows that the transaction of a call writes, first and last.
Tabled(r) == <<"table", Migration[r.m]>>
Logged(r) == <<"ran", Migration[r.m]>>
Own(c, r) == IF c \in Tx THEN {<<"row", c>>} ELSE {Tabled(r), Logged(r)}

\* What a call may look like while it waits for a query.
Stands(c, r) ==
    /\ r \in CallState
    /\ r.holds <=> r.at \in Inside \/ r.leaked
    /\ r.leaked => r.at = "end"
    /\ r.ended = "no" <=> r.at # "end"
    /\ r.at \in {"work", "record", "commit"} \/ (r.at = "rollback" /\ c \in Tx) => r.active
    /\ r.unsure => r.at \in {"rollback", "end"}
    /\ c \in Tx => r.at \notin {"ensure", "check", "record"}
    /\ c \in Runner /\ r.at \in Inside \cup {"connect"} => r.m <= Len(Migration)
    /\ r.at \notin {"record", "commit", "rollback"} \/ Memory => r.wrote = {}
    /\ r.at = "record" /\ ~Memory => r.wrote = {Tabled(r)}
    /\ r.at = "commit" /\ ~Memory => r.wrote = Own(c, r)
    /\ r.at = "rollback" => r.wrote \subseteq Own(c, r)

CallsStand ==
    /\ rows \subseteq Row
    /\ call = [c \in Db!Call |-> call[c]] /\ \A c \in Db!Call : Stands(c, call[c])
    /\ ran \in [Runner -> Seq(Names)]

LEMMA MigrationNames ==
    ASSUME DbAssumption
    PROVE  /\ Len(Migration) \in Nat
           /\ \A i \in 1 .. Len(Migration) : Migration[i] \in Names
           /\ \A i, j \in 1 .. Len(Migration) : Migration[i] = Migration[j] => i = j
<1>1. PICK Name : Migration \in Seq(Name)
    BY DEF DbAssumption
<1>2. Len(Migration) \in Nat /\ DOMAIN Migration = 1 .. Len(Migration)
    BY <1>1
<1>. QED BY <1>2 DEF Names, DbAssumption, Db!IsInjective

LEMMA DbTypes ==
    ASSUME CallsStand PROVE Db!TypeOK
BY DEF CallsStand, Stands, CallState, Row, Db!TypeOK

LEMMA DbStarts ==
    ASSUME DbAssumption, Db!Init PROVE CallsStand
<1>1. Len(Migration) \in Nat
    BY MigrationNames
<1>2. ASSUME NEW c \in Db!Call PROVE Stands(c, call[c])
  <2>1. call[c] = [at |-> IF c \in Tx THEN "connect" ELSE "ensure", m |-> 1,
                   active |-> FALSE, holds |-> FALSE, wrote |-> {},
                   leaked |-> FALSE, unsure |-> FALSE, ended |-> "no"]
    BY DEF Db!Init
  <2>. QED BY <1>1, <2>1 DEF Stands, CallState, Inside, Stage, DbAssumption
<1>. QED BY <1>2 DEF CallsStand, Db!Init

\* What the rows say on a server: a migration's table and its entry in the history
\* come together, in order and after those before; only one transaction writes an
\* entry, and only its runner reports it; a run()'s row is there once it committed.
History ==
    /\ \A x \in Names : <<"table", x>> \in rows <=> <<"ran", x>> \in rows
    /\ \A i \in 1 .. Len(Migration) :
         <<"ran", Migration[i]>> \in rows =>
             \A j \in 1 .. i : <<"ran", Migration[j]>> \in rows
    /\ \A r \in Runner : \A j \in 1 .. Len(Migration) :
         j < call[r].m => <<"ran", Migration[j]>> \in rows

Exclusive ==
    \A c \in Db!Call, x \in Names :
        <<"ran", x>> \in call[c].wrote =>
            /\ <<"ran", x>> \notin rows
            /\ \A d \in Db!Call \ {c} : <<"ran", x>> \notin call[d].wrote

Reported ==
    /\ \A r \in Runner : \A i \in DOMAIN ran[r] : <<"ran", ran[r][i]>> \in rows
    /\ \A r, q \in Runner : r # q =>
         \A i \in DOMAIN ran[r], j \in DOMAIN ran[q] : ran[r][i] # ran[q][j]

OwnRows ==
    \A c \in Tx :
        /\ <<"row", c>> \in rows => call[c].ended = "ok" \/ call[c].unsure
        /\ call[c].ended = "ok" => <<"row", c>> \in rows

Ledger == ~Memory => History /\ Exclusive /\ Reported /\ OwnRows

\* What a step may do on a server: nothing to the rows, though a migration that is
\* recorded may be skipped; record a migration; commit.
Idles(c) ==
    /\ rows' = rows /\ ran' = ran
    /\ \A x \in Names : <<"ran", x>> \in call'[c].wrote => <<"ran", x>> \in call[c].wrote
    /\ \/ call'[c].m = call[c].m
       \/ /\ call'[c].m = call[c].m + 1 /\ call[c].m <= Len(Migration)
          /\ <<"ran", Migration[call[c].m]>> \in rows
    /\ c \in Tx => /\ call'[c].ended = "ok" <=> call[c].ended = "ok"
                   /\ call'[c].unsure = call[c].unsure

Records(c) ==
    /\ rows' = rows /\ ran' = ran /\ c \in Runner
    /\ call[c].m <= Len(Migration) /\ call'[c].m = call[c].m
    /\ Logged(call[c]) \notin rows
    /\ \A d \in Db!Call : Logged(call[c]) \notin call[d].wrote
    /\ call'[c].wrote = {Tabled(call[c]), Logged(call[c])}

Commits(c) ==
    /\ rows' = rows \cup Own(c, call[c]) /\ call[c].wrote = Own(c, call[c])
    /\ call'[c].wrote = {}
    /\ \/ /\ c \in Tx /\ ran' = ran /\ call'[c].m = call[c].m
          /\ call'[c].ended = "ok" \/ call'[c].unsure
       \/ /\ c \in Runner /\ call[c].m <= Len(Migration)
          /\ \/ ran' = ran /\ call'[c].m = call[c].m
             \/ /\ ran' = [ran EXCEPT ![c] = Append(@, Migration[call[c].m])]
                /\ call'[c].m = call[c].m + 1

\* As far as the rows are concerned, nothing happened to a call.
Stays(r, s) ==
    /\ s.m = r.m /\ s.wrote = r.wrote /\ s.unsure = r.unsure
    /\ s.ended = "ok" <=> r.ended = "ok"

\* One call takes a step, and stands well after it.
Turns(c) ==
    /\ rows' \subseteq Row
    /\ call' = [call EXCEPT ![c] = call'[c]] /\ Stands(c, call'[c])
    /\ ran' \in [Runner -> Seq(Names)]
    /\ ~Memory => Idles(c) \/ Records(c) \/ Commits(c)

LEMMA TurnsKeep ==
    ASSUME CallsStand, NEW c \in Db!Call, Turns(c)
    PROVE  CallsStand'
<1>1. call' = [d \in Db!Call |-> call'[d]] /\ \A d \in Db!Call \ {c} : call'[d] = call[d]
    BY DEF CallsStand, Turns
<1>2. ASSUME NEW d \in Db!Call PROVE Stands(d, call'[d])
    BY <1>1 DEF CallsStand, Turns
<1>. QED BY <1>1, <1>2 DEF CallsStand, Turns

LEMMA Rewritten ==
    ASSUME CallsStand, NEW c \in Db!Call, NEW r, Db!Becomes(c, r)
    PROVE  call'[c] = r /\ call' = [call EXCEPT ![c] = call'[c]]
BY DEF CallsStand, Db!Becomes


\* What updates of its fields make of a record, as far as calls need it.
LEMMA AtUpdated ==
    ASSUME NEW r \in CallState, NEW x \in Stage
    PROVE  [r EXCEPT !.at = x] \in CallState
BY Zenon DEF CallState

LEMMA Stages ==
    {"begin", "work", "record", "commit", "rollback", "ensure", "check", "connect", "end"} = Stage
BY DEF Stage, Inside

LEMMA EndUpdated ==
    ASSUME NEW r \in CallState, NEW x \in {"no", "ok", "failed"}
    PROVE  [r EXCEPT !.ended = x] \in CallState
BY Zenon DEF CallState

LEMMA EndedState ==
    ASSUME NEW r \in CallState, NEW x \in {"no", "ok", "failed"}
    PROVE  [r EXCEPT !.at = "end", !.ended = x] \in CallState
<1>1. "end" \in Stage
    BY DEF Stage
<1> DEFINE q == [r EXCEPT !.at = "end"]
<1>2. q \in CallState
    BY <1>1, AtUpdated
<1>3. [q EXCEPT !.ended = x] \in CallState
  <2>. HIDE DEF q
  <2>. QED BY <1>2, EndUpdated
<1>. QED BY <1>3

LEMMA WroteUpdated ==
    ASSUME NEW r \in CallState, NEW x \in SUBSET Row
    PROVE  [r EXCEPT !.wrote = x] \in CallState
BY Zenon DEF CallState

LEMMA FlagsUpdated ==
    ASSUME NEW r \in CallState, NEW x \in BOOLEAN
    PROVE  /\ [r EXCEPT !.active = x] \in CallState /\ [r EXCEPT !.holds = x] \in CallState
           /\ [r EXCEPT !.leaked = x] \in CallState /\ [r EXCEPT !.unsure = x] \in CallState
BY Zenon DEF CallState

LEMMA ConnectTurns ==
    ASSUME DbAssumption, CallsStand, NEW c \in Db!Call, Db!Connect(c) PROVE Turns(c)
<1> DEFINE r == call[c]  s == call'[c]
<1>1. Stands(c, r) /\ (c \in Tx \/ c \in Runner) /\ r.at = "connect" /\ r \in CallState
    BY DEF CallsStand, Db!Call, Stands, Db!Connect
<1>2. /\ call' = [call EXCEPT ![c] = s] /\ UNCHANGED <<rows, ran>>
      /\ \/ s = [r EXCEPT !.at = "begin", !.holds = TRUE]
         \/ s = [r EXCEPT !.at = "end", !.ended = "failed"]
    BY Rewritten DEF Db!Connect
<1>3. ASSUME s = [r EXCEPT !.at = "begin", !.holds = TRUE]
      PROVE  Stands(c, s) /\ Stays(r, s)
  <2>1. s \in CallState
      BY <1>1, <1>3, AtUpdated, FlagsUpdated, Stages
  <2>2. /\ s.at = "begin" /\ s.m = r.m /\ s.active = r.active /\ s.holds = TRUE
        /\ s.wrote = r.wrote /\ s.leaked = r.leaked /\ s.unsure = r.unsure /\ s.ended = r.ended
      BY <1>1, <1>3 DEF CallState
  <2>. QED BY <1>1, <1>3, <2>1, <2>2 DEF Stays, Stands, Inside
<1>4. ASSUME s = [r EXCEPT !.at = "end", !.ended = "failed"]
      PROVE  Stands(c, s) /\ Stays(r, s)
  <2>1. s \in CallState
      BY <1>1, <1>4, EndedState
  <2>2. /\ s.at = "end" /\ s.m = r.m /\ s.active = r.active /\ s.holds = r.holds
        /\ s.wrote = r.wrote /\ s.leaked = r.leaked /\ s.unsure = r.unsure /\ s.ended = "failed"
      BY <1>1, <1>4 DEF CallState
  <2>. QED BY <1>1, <1>4, <2>1, <2>2 DEF Stays, Stands, Inside
<1>5. Idles(c)
    BY <1>2, <1>3, <1>4 DEF Idles, Stays
<1>. QED BY <1>2, <1>3, <1>4, <1>5 DEF Turns, CallsStand

LEMMA BeginTurns ==
    ASSUME DbAssumption, CallsStand, NEW c \in Db!Call, Db!Begin(c) PROVE Turns(c)
<1> DEFINE r == call[c]  s == call'[c]
<1>1. Stands(c, r) /\ (c \in Tx \/ c \in Runner) /\ r.at = "begin" /\ r \in CallState
    BY DEF CallsStand, Db!Call, Stands, Db!Begin
<1>2. /\ call' = [call EXCEPT ![c] = s] /\ UNCHANGED <<rows, ran>>
      /\ \/ s = [r EXCEPT !.at = "work", !.active = TRUE]
         \/ c \in Tx /\ s = [r EXCEPT !.at = "end", !.leaked = TRUE, !.ended = "failed"]
         \/ c \notin Tx /\ s = [r EXCEPT !.at = "rollback"]
    BY Rewritten DEF Db!Begin, Db!Fault
<1>3. ASSUME s = [r EXCEPT !.at = "work", !.active = TRUE]
      PROVE  Stands(c, s) /\ Stays(r, s)
  <2>1. s \in CallState
      BY <1>1, <1>3, AtUpdated, FlagsUpdated, Stages
  <2>2. /\ s.at = "work" /\ s.m = r.m /\ s.active = TRUE /\ s.holds = r.holds
        /\ s.wrote = r.wrote /\ s.leaked = r.leaked /\ s.unsure = r.unsure /\ s.ended = r.ended
      BY <1>1, <1>3 DEF CallState
  <2>. QED BY <1>1, <1>3, <2>1, <2>2 DEF Stays, Stands, Inside
<1>4. ASSUME s = [r EXCEPT !.at = "end", !.leaked = TRUE, !.ended = "failed"]
      PROVE  Stands(c, s) /\ Stays(r, s)
  <2>0. [r EXCEPT !.at = "end", !.leaked = TRUE] \in CallState
      BY <1>1, AtUpdated, FlagsUpdated, Stages
  <2>1. s \in CallState
      BY <1>4, <2>0, EndUpdated
  <2>2. /\ s.at = "end" /\ s.m = r.m /\ s.active = r.active /\ s.holds = r.holds
        /\ s.wrote = r.wrote /\ s.leaked = TRUE /\ s.unsure = r.unsure /\ s.ended = "failed"
      BY <1>1, <1>4 DEF CallState
  <2>. QED BY <1>1, <1>4, <2>1, <2>2 DEF Stays, Stands, Inside
<1>5. ASSUME c \notin Tx /\ s = [r EXCEPT !.at = "rollback"]
      PROVE  Stands(c, s) /\ Stays(r, s)
  <2>1. s \in CallState
      BY <1>1, <1>5, AtUpdated, Stages
  <2>2. /\ s.at = "rollback" /\ s.m = r.m /\ s.active = r.active /\ s.holds = r.holds
        /\ s.wrote = r.wrote /\ s.leaked = r.leaked /\ s.unsure = r.unsure /\ s.ended = r.ended
      BY <1>1, <1>5 DEF CallState
  <2>. QED BY <1>1, <1>5, <2>1, <2>2 DEF Stays, Stands, Inside
<1>6. Idles(c)
    BY <1>2, <1>3, <1>4, <1>5 DEF Idles, Stays
<1>. QED BY <1>2, <1>3, <1>4, <1>5, <1>6 DEF Turns, CallsStand

LEMMA WorkTurns ==
    ASSUME DbAssumption, CallsStand, NEW c \in Db!Call, Db!Work(c) PROVE Turns(c)
<1> DEFINE r == call[c]  s == call'[c]
<1>1. Stands(c, r) /\ (c \in Tx \/ c \in Runner) /\ r.at = "work" /\ r \in CallState
    BY DEF CallsStand, Db!Call, Stands, Db!Work
<1>2. /\ call' = [call EXCEPT ![c] = s] /\ UNCHANGED ran /\ (~Memory => rows' = rows)
      /\ \/ s = [r EXCEPT !.at = "rollback"] /\ rows' = rows
         \/ /\ c \in Tx /\ rows' \subseteq rows \cup {<<"row", c>>}
            /\ \/ Memory /\ s = [r EXCEPT !.at = "commit"]
               \/ ~Memory /\ s = [r EXCEPT !.at = "commit", !.wrote = r.wrote \cup {<<"row", c>>}]
         \/ /\ c \notin Tx /\ rows' \subseteq rows \cup {Tabled(r)}
            /\ \/ Memory /\ s = [r EXCEPT !.at = "record"]
               \/ ~Memory /\ s = [r EXCEPT !.at = "record", !.wrote = r.wrote \cup {Tabled(r)}]
    BY Rewritten DEF Db!Work, Db!Fault, Db!Written, Tabled
<1>3. /\ c \in Tx => <<"row", c>> \in Row /\ r.wrote \cup {<<"row", c>>} \in SUBSET Row
      /\ c \notin Tx => Tabled(r) \in Row /\ r.wrote \cup {Tabled(r)} \in SUBSET Row
    BY <1>1, MigrationNames DEF Row, Tabled, Stands, CallState, Inside
<1>4. ASSUME s = [r EXCEPT !.at = "rollback"]
      PROVE  Stands(c, s) /\ Stays(r, s)
  <2>1. s \in CallState
      BY <1>1, <1>4, AtUpdated, Stages
  <2>2. /\ s.at = "rollback" /\ s.m = r.m /\ s.active = r.active /\ s.holds = r.holds
        /\ s.wrote = r.wrote /\ s.leaked = r.leaked /\ s.unsure = r.unsure /\ s.ended = r.ended
      BY <1>1, <1>4 DEF CallState
  <2>. QED BY <1>1, <1>4, <2>1, <2>2 DEF Stays, Stands, Inside
<1>5. ASSUME c \in Tx, Memory,
             s = [r EXCEPT !.at = "commit"]
      PROVE  Stands(c, s) /\ Stays(r, s)
  <2>1. s \in CallState
      BY <1>1, <1>5, AtUpdated, Stages
  <2>2. /\ s.at = "commit" /\ s.m = r.m /\ s.active = r.active /\ s.holds = r.holds
        /\ s.wrote = r.wrote /\ s.leaked = r.leaked /\ s.unsure = r.unsure /\ s.ended = r.ended
      BY <1>1, <1>5 DEF CallState
  <2>. QED BY <1>1, <1>5, <2>1, <2>2 DEF Stays, Stands, Inside, Own, Tabled, Logged, DbAssumption
<1>6. ASSUME c \in Tx, ~Memory,
             s = [r EXCEPT !.at = "commit", !.wrote = r.wrote \cup {<<"row", c>>}]
      PROVE  /\ Stands(c, s) /\ s.m = r.m /\ s.wrote = r.wrote \cup {<<"row", c>>}
             /\ s.unsure = r.unsure /\ s.ended = r.ended
  <2>0. [r EXCEPT !.at = "commit"] \in CallState
      BY <1>1, AtUpdated, Stages
  <2>1. s \in CallState
      BY <1>6, <1>3, <2>0, WroteUpdated, Zenon
  <2>2. /\ s.at = "commit" /\ s.m = r.m /\ s.active = r.active /\ s.holds = r.holds
        /\ s.wrote = r.wrote \cup {<<"row", c>>} /\ s.leaked = r.leaked /\ s.unsure = r.unsure /\ s.ended = r.ended
      BY <1>1, <1>6 DEF CallState
  <2>. QED BY <1>1, <1>6, <2>1, <2>2 DEF Stands, Inside, Own, Tabled, Logged, DbAssumption
<1>7. ASSUME c \notin Tx, Memory,
             s = [r EXCEPT !.at = "record"]
      PROVE  Stands(c, s) /\ Stays(r, s)
  <2>1. s \in CallState
      BY <1>1, <1>7, AtUpdated, Stages
  <2>2. /\ s.at = "record" /\ s.m = r.m /\ s.active = r.active /\ s.holds = r.holds
        /\ s.wrote = r.wrote /\ s.leaked = r.leaked /\ s.unsure = r.unsure /\ s.ended = r.ended
      BY <1>1, <1>7 DEF CallState
  <2>. QED BY <1>1, <1>7, <2>1, <2>2 DEF Stays, Stands, Inside, Own, Tabled, Logged, DbAssumption
<1>8. ASSUME c \notin Tx, ~Memory,
             s = [r EXCEPT !.at = "record", !.wrote = r.wrote \cup {Tabled(r)}]
      PROVE  /\ Stands(c, s) /\ s.m = r.m /\ s.wrote = r.wrote \cup {Tabled(r)}
             /\ s.unsure = r.unsure /\ s.ended = r.ended
  <2>0. [r EXCEPT !.at = "record"] \in CallState
      BY <1>1, AtUpdated, Stages
  <2>1. s \in CallState
      BY <1>8, <1>3, <2>0, WroteUpdated, Zenon
  <2>2. /\ s.at = "record" /\ s.m = r.m /\ s.active = r.active /\ s.holds = r.holds
        /\ s.wrote = r.wrote \cup {Tabled(r)} /\ s.leaked = r.leaked /\ s.unsure = r.unsure /\ s.ended = r.ended
      BY <1>1, <1>8 DEF CallState
  <2>. QED BY <1>1, <1>8, <2>1, <2>2 DEF Stands, Inside, Own, Tabled, Logged, DbAssumption
<1>9. Stands(c, s)
    BY <1>2, <1>4, <1>5, <1>6, <1>7, <1>8
<1>10. \A x \in Names : /\ <<"ran", x>> \notin {<<"row", c>>} /\ <<"ran", x>> \notin {Tabled(r)}
    BY DEF Tabled
<1>11. ASSUME ~Memory PROVE Idles(c)
    BY <1>1, <1>2, <1>4, <1>6, <1>8, <1>10, <1>11 DEF Idles, Stays, DbAssumption
<1>. QED BY <1>2, <1>3, <1>9, <1>11 DEF Turns, CallsStand

LEMMA RecordTurns ==
    ASSUME DbAssumption, CallsStand, NEW c \in Db!Call, Db!Record(c) PROVE Turns(c)
<1> DEFINE r == call[c]  s == call'[c]
<1>1. Stands(c, r) /\ (c \in Tx \/ c \in Runner) /\ r.at = "record" /\ r \in CallState
    BY DEF CallsStand, Db!Call, Stands, Db!Record
<1>2. /\ call' = [call EXCEPT ![c] = s] /\ UNCHANGED ran /\ rows' \subseteq rows \cup {Logged(r)}
      /\ ~Memory => /\ rows' = rows
                    /\ \A d \in Db!Call \ {c} : Logged(r) \notin call[d].wrote
      /\ \/ s = [r EXCEPT !.at = "rollback"]
         \/ Memory /\ s = [r EXCEPT !.at = "commit"]
         \/ /\ ~Memory /\ Logged(r) \notin rows
            /\ s = [r EXCEPT !.at = "commit", !.wrote = r.wrote \cup {Logged(r)}]
    BY Rewritten DEF Db!Record, Db!Fault, Db!Written, Logged
<1>3. c \in Runner /\ c \notin Tx /\ Logged(r) \in Row /\ r.wrote \cup {Logged(r)} \in SUBSET Row
    BY <1>1, MigrationNames DEF Row, Logged, Stands, CallState, Inside
<1>4. ASSUME s = [r EXCEPT !.at = "rollback"]
      PROVE  Stands(c, s) /\ Stays(r, s)
  <2>1. s \in CallState
      BY <1>1, <1>3, <1>4, <1>3, AtUpdated, Stages
  <2>2. /\ s.at = "rollback" /\ s.m = r.m /\ s.active = r.active /\ s.holds = r.holds
        /\ s.wrote = r.wrote /\ s.leaked = r.leaked /\ s.unsure = r.unsure /\ s.ended = r.ended
      BY <1>1, <1>3, <1>4 DEF CallState
  <2>. QED BY <1>1, <1>3, <1>4, <2>1, <2>2 DEF Stays, Stands, Inside, Own, Tabled, Logged, DbAssumption
<1>5. ASSUME Memory,
             s = [r EXCEPT !.at = "commit"]
      PROVE  Stands(c, s) /\ Stays(r, s)
  <2>1. s \in CallState
      BY <1>1, <1>3, <1>5, AtUpdated, Stages
  <2>2. /\ s.at = "commit" /\ s.m = r.m /\ s.active = r.active /\ s.holds = r.holds
        /\ s.wrote = r.wrote /\ s.leaked = r.leaked /\ s.unsure = r.unsure /\ s.ended = r.ended
      BY <1>1, <1>3, <1>5 DEF CallState
  <2>. QED BY <1>1, <1>3, <1>5, <2>1, <2>2 DEF Stays, Stands, Inside, Own, Tabled, Logged, DbAssumption
<1>6. ASSUME ~Memory,
             s = [r EXCEPT !.at = "commit", !.wrote = r.wrote \cup {Logged(r)}]
      PROVE  /\ Stands(c, s) /\ s.m = r.m /\ s.wrote = r.wrote \cup {Logged(r)}
             /\ s.unsure = r.unsure /\ s.ended = r.ended
  <2>0. [r EXCEPT !.at = "commit"] \in CallState
      BY <1>1, AtUpdated, Stages
  <2>1. s \in CallState
      BY <1>6, <1>3, <2>0, WroteUpdated, Zenon
  <2>2. /\ s.at = "commit" /\ s.m = r.m /\ s.active = r.active /\ s.holds = r.holds
        /\ s.wrote = r.wrote \cup {Logged(r)} /\ s.leaked = r.leaked /\ s.unsure = r.unsure /\ s.ended = r.ended
      BY <1>1, <1>3, <1>6 DEF CallState
  <2>. QED BY <1>1, <1>3, <1>6, <2>1, <2>2 DEF Stands, Inside, Own, Tabled, Logged, DbAssumption
<1>7. ~Memory => r.wrote = {Tabled(r)} /\ Tabled(r) # Logged(r)
    BY <1>1 DEF Stands, Tabled, Logged
<1>8. ASSUME ~Memory PROVE Idles(c) \/ Records(c)
  <2>1. CASE s = [r EXCEPT !.at = "rollback"]
      BY <1>2, <1>3, <1>4, <1>8, <2>1 DEF Idles, Stays
  <2>2. CASE /\ Logged(r) \notin rows
             /\ s = [r EXCEPT !.at = "commit", !.wrote = r.wrote \cup {Logged(r)}]
    <3>1. \A d \in Db!Call : Logged(r) \notin call[d].wrote
        BY <1>2, <1>7, <1>8
    <3>. QED BY <1>1, <1>2, <1>3, <1>6, <1>7, <1>8, <2>2, <3>1 DEF Records, Stands, Inside
  <2>. QED BY <1>2, <1>8, <2>1, <2>2
<1>. QED BY <1>2, <1>3, <1>4, <1>5, <1>6, <1>8 DEF Turns, CallsStand

LEMMA NextUpdated ==
    ASSUME NEW r \in CallState, NEW x \in 1 .. Len(Migration) + 1
    PROVE  [r EXCEPT !.m = x] \in CallState
BY Zenon DEF CallState

LEMMA ReleasedState ==
    ASSUME NEW r \in CallState
    PROVE  /\ Db!Released(r) \in CallState
           /\ Db!Released(r).at = r.at /\ Db!Released(r).m = r.m
           /\ ~Db!Released(r).active /\ ~Db!Released(r).holds /\ Db!Released(r).wrote = {}
           /\ Db!Released(r).leaked = r.leaked /\ Db!Released(r).unsure = r.unsure
           /\ Db!Released(r).ended = r.ended
<1>1. [r EXCEPT !.active = FALSE, !.holds = FALSE] \in CallState
    BY FlagsUpdated
<1>2. {} \in SUBSET Row
    OBVIOUS
<1>3. Db!Released(r) \in CallState
    BY <1>1, <1>2, WroteUpdated, Zenon DEF Db!Released
<1>. QED BY <1>3 DEF CallState, Db!Released

LEMMA CommitTurns ==
    ASSUME DbAssumption, CallsStand, NEW c \in Db!Call, Db!Commit(c) PROVE Turns(c)
<1> DEFINE r == call[c]  s == call'[c]
<1>1. Stands(c, r) /\ (c \in Tx \/ c \in Runner) /\ r.at = "commit" /\ r \in CallState
    BY DEF CallsStand, Db!Call, Stands, Db!Commit
<1> DEFINE q == Db!Released(r)
<1>2. /\ call' = [call EXCEPT ![c] = s]
      /\ \/ /\ c \in Tx /\ s = [q EXCEPT !.at = "end", !.ended = "ok"]
            /\ ran' = ran /\ rows' = rows \cup r.wrote
         \/ /\ c \notin Tx /\ s = [q EXCEPT !.at = "check", !.m = @ + 1]
            /\ ran' = [ran EXCEPT ![c] = Append(@, Migration[r.m])] /\ rows' = rows \cup r.wrote
         \/ s = [r EXCEPT !.at = "rollback"] /\ ran' = ran /\ rows' = rows
         \/ /\ s = [r EXCEPT !.at = "rollback", !.wrote = {}, !.unsure = TRUE]
            /\ ran' = ran /\ rows' = rows \cup r.wrote
    BY Rewritten DEF Db!Commit, Db!Fault, Db!Done
<1>3. /\ q \in CallState /\ q.at = "commit" /\ q.m = r.m
      /\ ~q.active /\ ~q.holds /\ q.wrote = {}
      /\ q.leaked = r.leaked /\ q.unsure = r.unsure /\ q.ended = r.ended
    BY <1>1, ReleasedState
<1>4. /\ c \notin Tx => r.m \in 1 .. Len(Migration) /\ q.m + 1 \in 1 .. Len(Migration) + 1
      /\ Len(Migration) \in Nat
    BY <1>1, <1>3, MigrationNames DEF Stands, CallState, Inside
<1>. HIDE DEF q
<1>5. ASSUME c \in Tx, s = [q EXCEPT !.at = "end", !.ended = "ok"]
      PROVE  /\ Stands(c, s) /\ s.m = q.m /\ s.wrote = q.wrote
             /\ s.unsure = q.unsure /\ s.ended = "ok"
  <2>1. s \in CallState
      BY <1>3, <1>5, EndedState
  <2>2. /\ s.at = "end" /\ s.m = q.m /\ s.active = q.active /\ s.holds = q.holds
        /\ s.wrote = q.wrote /\ s.leaked = q.leaked /\ s.unsure = q.unsure /\ s.ended = "ok"
      BY <1>3, <1>5 DEF CallState
  <2>. QED BY <1>1, <1>3, <1>5, <2>1, <2>2 DEF Stands, Inside
<1>6. ASSUME c \notin Tx, s = [q EXCEPT !.at = "check", !.m = @ + 1]
      PROVE  /\ Stands(c, s) /\ s.m = q.m + 1 /\ s.wrote = q.wrote
             /\ s.unsure = q.unsure /\ s.ended = q.ended
  <2>0. [q EXCEPT !.at = "check"] \in CallState /\ [q EXCEPT !.at = "check"].m = q.m
      BY <1>3, AtUpdated, Stages DEF CallState
  <2>1. s \in CallState
      BY <1>4, <1>6, <2>0, NextUpdated
  <2>2. /\ s.at = "check" /\ s.m = q.m + 1 /\ s.active = q.active /\ s.holds = q.holds
        /\ s.wrote = q.wrote /\ s.leaked = q.leaked /\ s.unsure = q.unsure /\ s.ended = q.ended
      BY <1>3, <1>6 DEF CallState
  <2>. QED BY <1>1, <1>3, <1>6, <2>1, <2>2 DEF Stands, Inside
<1>7. ASSUME s = [r EXCEPT !.at = "rollback"]
      PROVE  Stands(c, s) /\ Stays(r, s)
  <2>1. s \in CallState
      BY <1>1, <1>7, AtUpdated, Stages
  <2>2. /\ s.at = "rollback" /\ s.m = r.m /\ s.active = r.active /\ s.holds = r.holds
        /\ s.wrote = r.wrote /\ s.leaked = r.leaked /\ s.unsure = r.unsure /\ s.ended = r.ended
      BY <1>1, <1>7 DEF CallState
  <2>. QED BY <1>1, <1>7, <2>1, <2>2 DEF Stays, Stands, Inside, Own, Tabled, Logged, DbAssumption
<1>8. ASSUME s = [r EXCEPT !.at = "rollback", !.wrote = {}, !.unsure = TRUE]
      PROVE  /\ Stands(c, s) /\ s.m = r.m /\ s.wrote = {}
             /\ s.unsure = TRUE /\ s.ended = r.ended
  <2>0. [r EXCEPT !.at = "rollback", !.wrote = {}] \in CallState
      BY <1>1, AtUpdated, WroteUpdated, Stages
  <2>1. s \in CallState
      BY <1>8, <2>0, FlagsUpdated
  <2>2. /\ s.at = "rollback" /\ s.m = r.m /\ s.active = r.active /\ s.holds = r.holds
        /\ s.wrote = {} /\ s.leaked = r.leaked /\ s.unsure = TRUE /\ s.ended = r.ended
      BY <1>1, <1>8 DEF CallState
  <2>. QED BY <1>1, <1>8, <2>1, <2>2 DEF Stands, Inside
<1>9. Stands(c, s)
    BY <1>2, <1>5, <1>6, <1>7, <1>8
<1>10. rows' \subseteq Row
    BY <1>1, <1>2 DEF CallsStand, CallState
<1>11. ran' \in [Runner -> Seq(Names)]
  <2>1. ASSUME c \notin Tx PROVE ran[c] \in Seq(Names) /\ Migration[r.m] \in Names
      BY <1>1, <1>4, <2>1, MigrationNames DEF CallsStand
  <2>2. ASSUME c \notin Tx PROVE Append(ran[c], Migration[r.m]) \in Seq(Names)
      BY <2>1, <2>2
  <2>. QED BY <1>2, <2>2 DEF CallsStand
<1>12. ASSUME ~Memory PROVE Idles(c) \/ Commits(c)
  <2>1. r.wrote = Own(c, r)
      BY <1>1, <1>12 DEF Stands
  <2>2. CASE s = [r EXCEPT !.at = "rollback"] /\ ran' = ran /\ rows' = rows
      BY <1>7, <2>2 DEF Idles, Stays
  <2>3. CASE c \in Tx /\ s = [q EXCEPT !.at = "end", !.ended = "ok"]
             /\ ran' = ran /\ rows' = rows \cup r.wrote
      BY <1>3, <1>5, <2>1, <2>3 DEF Commits
  <2>4. CASE /\ c \notin Tx /\ s = [q EXCEPT !.at = "check", !.m = @ + 1]
             /\ ran' = [ran EXCEPT ![c] = Append(@, Migration[r.m])] /\ rows' = rows \cup r.wrote
      BY <1>1, <1>3, <1>4, <1>6, <2>1, <2>4 DEF Commits
  <2>5. CASE /\ s = [r EXCEPT !.at = "rollback", !.wrote = {}, !.unsure = TRUE]
             /\ ran' = ran /\ rows' = rows \cup r.wrote
      BY <1>1, <1>4, <1>8, <2>1, <2>5 DEF Commits
  <2>. QED BY <1>2, <2>2, <2>3, <2>4, <2>5
<1>. QED BY <1>2, <1>9, <1>10, <1>11, <1>12 DEF Turns

LEMMA RollbackTurns ==
    ASSUME DbAssumption, CallsStand, NEW c \in Db!Call, Db!Rollback(c) PROVE Turns(c)
<1> DEFINE r == call[c]  s == call'[c]
<1>1. Stands(c, r) /\ (c \in Tx \/ c \in Runner) /\ r.at = "rollback" /\ r \in CallState
    BY DEF CallsStand, Db!Call, Stands, Db!Rollback
<1> DEFINE q == Db!Released(r)
<1>2. /\ call' = [call EXCEPT ![c] = s] /\ UNCHANGED <<rows, ran>>
      /\ s = [q EXCEPT !.at = "end", !.ended = "failed"]
    BY <1>1, Rewritten DEF Db!Rollback, Stands
<1>3. /\ q \in CallState /\ q.m = r.m
      /\ ~q.active /\ ~q.holds /\ q.wrote = {}
      /\ q.leaked = r.leaked /\ q.unsure = r.unsure /\ q.ended = r.ended
    BY <1>1, ReleasedState
<1>. HIDE DEF q
<1>4. s \in CallState
    BY <1>2, <1>3, EndedState
<1>5. /\ s.at = "end" /\ s.m = q.m /\ s.active = q.active /\ s.holds = q.holds
      /\ s.wrote = q.wrote /\ s.leaked = q.leaked /\ s.unsure = q.unsure /\ s.ended = "failed"
    BY <1>2, <1>3 DEF CallState
<1>6. Stands(c, s)
    BY <1>1, <1>3, <1>4, <1>5 DEF Stands, Inside
<1>7. Idles(c)
    BY <1>1, <1>2, <1>3, <1>5 DEF Idles, Stands
<1>. QED BY <1>2, <1>6, <1>7 DEF Turns, CallsStand

LEMMA EnsureTurns ==
    ASSUME DbAssumption, CallsStand, NEW c \in Db!Call, Db!Ensure(c) PROVE Turns(c)
<1> DEFINE r == call[c]  s == call'[c]
<1>1. Stands(c, r) /\ (c \in Tx \/ c \in Runner) /\ r.at = "ensure" /\ r \in CallState
    BY DEF CallsStand, Db!Call, Stands, Db!Ensure
<1>2. /\ call' = [call EXCEPT ![c] = s] /\ rows' \subseteq rows /\ UNCHANGED ran
      /\ ~Memory => rows' = rows
      /\ s = [r EXCEPT !.at = "check"]
    BY Rewritten DEF Db!Ensure
<1>3. s \in CallState
    BY <1>1, <1>2, AtUpdated, Stages
<1>4. /\ s.at = "check" /\ s.m = r.m /\ s.active = r.active /\ s.holds = r.holds
      /\ s.wrote = r.wrote /\ s.leaked = r.leaked /\ s.unsure = r.unsure /\ s.ended = r.ended
    BY <1>1, <1>2 DEF CallState
<1>5. Stands(c, s)
    BY <1>1, <1>3, <1>4 DEF Stands, Inside
<1>6. ~Memory => Idles(c)
    BY <1>2, <1>4 DEF Idles
<1>. QED BY <1>2, <1>5, <1>6 DEF Turns, CallsStand

LEMMA CheckTurns ==
    ASSUME DbAssumption, CallsStand, NEW c \in Db!Call, Db!Check(c) PROVE Turns(c)
<1> DEFINE r == call[c]  s == call'[c]
<1>1. Stands(c, r) /\ (c \in Tx \/ c \in Runner) /\ r.at = "check" /\ r \in CallState
    BY DEF CallsStand, Db!Call, Stands, Db!Check
<1>2. /\ call' = [call EXCEPT ![c] = s] /\ UNCHANGED <<rows, ran>>
      /\ \/ s = [r EXCEPT !.at = "end", !.ended = "ok"]
         \/ /\ ~(r.m > Len(Migration)) /\ <<"ran", Migration[r.m]>> \in rows
            /\ s = [r EXCEPT !.m = @ + 1]
         \/ ~(r.m > Len(Migration)) /\ s = [r EXCEPT !.at = "connect"]
    BY Rewritten DEF Db!Check
<1>3. c \notin Tx /\ r.m \in 1 .. Len(Migration) + 1 /\ Len(Migration) \in Nat
    BY <1>1, MigrationNames DEF Stands, CallState
<1>4. ASSUME s = [r EXCEPT !.at = "end", !.ended = "ok"]
      PROVE  /\ Stands(c, s) /\ s.m = r.m /\ s.wrote = r.wrote
             /\ s.unsure = r.unsure /\ s.ended = "ok"
  <2>1. s \in CallState
      BY <1>1, <1>4, EndedState
  <2>2. /\ s.at = "end" /\ s.m = r.m /\ s.active = r.active /\ s.holds = r.holds
        /\ s.wrote = r.wrote /\ s.leaked = r.leaked /\ s.unsure = r.unsure /\ s.ended = "ok"
      BY <1>1, <1>4 DEF CallState
  <2>. QED BY <1>1, <2>1, <2>2 DEF Stands, Inside
<1>5. ASSUME ~(r.m > Len(Migration)), s = [r EXCEPT !.m = @ + 1]
      PROVE  /\ Stands(c, s) /\ s.m = r.m + 1 /\ s.wrote = r.wrote
             /\ s.unsure = r.unsure /\ s.ended = r.ended
  <2>0. r.m + 1 \in 1 .. Len(Migration) + 1
      BY <1>3, <1>5
  <2>1. s \in CallState
      BY <1>1, <1>5, <2>0, NextUpdated
  <2>2. /\ s.at = r.at /\ s.m = r.m + 1 /\ s.active = r.active /\ s.holds = r.holds
        /\ s.wrote = r.wrote /\ s.leaked = r.leaked /\ s.unsure = r.unsure /\ s.ended = r.ended
      BY <1>1, <1>5 DEF CallState
  <2>. QED BY <1>1, <2>1, <2>2 DEF Stands, Inside
<1>6. ASSUME ~(r.m > Len(Migration)), s = [r EXCEPT !.at = "connect"]
      PROVE  Stands(c, s) /\ Stays(r, s)
  <2>1. s \in CallState
      BY <1>1, <1>6, AtUpdated, Stages
  <2>2. /\ s.at = "connect" /\ s.m = r.m /\ s.active = r.active /\ s.holds = r.holds
        /\ s.wrote = r.wrote /\ s.leaked = r.leaked /\ s.unsure = r.unsure /\ s.ended = r.ended
      BY <1>1, <1>6 DEF CallState
  <2>. QED BY <1>1, <1>3, <1>6, <2>1, <2>2 DEF Stays, Stands, Inside
<1>7. Idles(c)
    BY <1>2, <1>3, <1>4, <1>5, <1>6 DEF Idles, Stays
<1>. QED BY <1>2, <1>4, <1>5, <1>6, <1>7 DEF Turns, CallsStand

LEMMA StepTurns ==
    ASSUME DbAssumption, CallsStand, NEW c \in Db!Call, Db!Step(c) PROVE Turns(c)
BY ConnectTurns, BeginTurns, WorkTurns, RecordTurns, CommitTurns, RollbackTurns, EnsureTurns,
   CheckTurns DEF Db!Step

LEMMA DbNextStands ==
    ASSUME DbAssumption, CallsStand, [Db!Next]_Db!vars PROVE CallsStand'
<1>1. CASE UNCHANGED Db!vars
    BY <1>1 DEF Db!vars, CallsStand
<1>2. CASE Db!Next
    BY <1>2, StepTurns, TurnsKeep DEF Db!Next
<1>. QED BY <1>1, <1>2

LEMMA LedgerStarts ==
    ASSUME DbAssumption, Db!Init PROVE Ledger
<1>1. /\ rows = {} /\ \A c \in Db!Call : call[c].wrote = {} /\ call[c].m = 1 /\ call[c].ended = "no"
      /\ ran = [r \in Runner |-> <<>>] /\ Len(Migration) \in Nat
    BY MigrationNames DEF Db!Init
<1>2. History /\ Exclusive /\ Reported /\ OwnRows
    BY <1>1 DEF History, Exclusive, Reported, OwnRows, Db!Call
<1>. QED BY <1>2 DEF Ledger

LEMMA IdleKeepsLedger ==
    ASSUME DbAssumption, CallsStand, ~Memory, Ledger, NEW c \in Db!Call, Turns(c), Idles(c)
    PROVE  Ledger'
<1>1. /\ rows' = rows /\ ran' = ran
      /\ \A d \in Db!Call \ {c} : call'[d] = call[d]
      /\ History /\ Exclusive /\ Reported /\ OwnRows
    BY DEF Turns, Idles, Ledger, CallsStand
<1>2. History'
  <2>1. ASSUME NEW r \in Runner, NEW j \in 1 .. Len(Migration), j < call'[r].m
        PROVE  <<"ran", Migration[j]>> \in rows
    <3>1. CASE r # c \/ j < call[r].m
        BY <1>1, <2>1, <3>1 DEF History, Db!Call
    <3>2. CASE r = c /\ ~(j < call[c].m)
      <4>1. call[c].m \in Nat
          BY DEF CallsStand, Stands, CallState
      <4>2. j = call[c].m /\ <<"ran", Migration[call[c].m]>> \in rows
          BY <2>1, <3>2, <4>1, MigrationNames DEF Idles
      <4>. QED BY <4>2
    <3>. QED BY <3>1, <3>2
  <2>. QED BY <1>1, <2>1 DEF History
<1>3. Exclusive'
    BY <1>1 DEF Exclusive, Idles
<1>4. Reported'
    BY <1>1 DEF Reported
<1>5. OwnRows'
    BY <1>1 DEF OwnRows, Idles, Db!Call
<1>. QED BY <1>2, <1>3, <1>4, <1>5 DEF Ledger

LEMMA RecordKeepsLedger ==
    ASSUME DbAssumption, CallsStand, ~Memory, Ledger, NEW c \in Db!Call, Turns(c), Records(c)
    PROVE  Ledger'
<1>1. /\ rows' = rows /\ ran' = ran /\ c \notin Tx
      /\ \A d \in Db!Call \ {c} : call'[d] = call[d]
      /\ History /\ Exclusive /\ Reported /\ OwnRows
    BY DEF Turns, Records, Ledger, CallsStand, DbAssumption
<1>2. History'
    BY <1>1 DEF History, Records, Db!Call
<1>3. Exclusive'
  <2>1. ASSUME NEW x \in Names
        PROVE  <<"ran", x>> \in call'[c].wrote <=> <<"ran", x>> = Logged(call[c])
      BY DEF Records, Tabled, Logged
  <2>2. ASSUME NEW d \in Db!Call, NEW x \in Names, <<"ran", x>> \in call'[d].wrote
        PROVE  /\ <<"ran", x>> \notin rows'
               /\ \A e \in Db!Call \ {d} : <<"ran", x>> \notin call'[e].wrote
    <3>1. CASE d = c
        BY <1>1, <2>1, <2>2, <3>1 DEF Records
    <3>2. CASE d # c
      <4>1. <<"ran", x>> # Logged(call[c])
          BY <1>1, <2>2, <3>2 DEF Records
      <4>2. <<"ran", x>> \notin call'[c].wrote
          BY <2>1, <4>1
      <4>. QED BY <1>1, <2>2, <3>2, <4>2 DEF Exclusive
    <3>. QED BY <3>1, <3>2
  <2>. QED BY <2>2 DEF Exclusive
<1>4. Reported'
    BY <1>1 DEF Reported
<1>5. OwnRows'
    BY <1>1 DEF OwnRows, Db!Call
<1>. QED BY <1>2, <1>3, <1>4, <1>5 DEF Ledger

LEMMA CommitKeepsLedger ==
    ASSUME DbAssumption, CallsStand, ~Memory, Ledger, NEW c \in Db!Call, Turns(c), Commits(c)
    PROVE  Ledger'
<1> DEFINE r == call[c]
<1>1. /\ rows' = rows \cup Own(c, r) /\ r.wrote = Own(c, r) /\ call'[c].wrote = {}
      /\ \A d \in Db!Call \ {c} : call'[d] = call[d]
      /\ History /\ Exclusive /\ Reported /\ OwnRows
      /\ ran \in [Runner -> Seq(Names)]
    BY DEF Turns, Commits, Ledger, CallsStand
<1>2. Exclusive'
  <2>1. ASSUME NEW d \in Db!Call, NEW x \in Names, <<"ran", x>> \in call'[d].wrote
        PROVE  /\ <<"ran", x>> \notin rows'
               /\ \A e \in Db!Call \ {d} : <<"ran", x>> \notin call'[e].wrote
    <3>1. d # c /\ <<"ran", x>> \in call[d].wrote
        BY <1>1, <2>1
    <3>2. <<"ran", x>> \notin r.wrote /\ <<"ran", x>> \notin rows
        BY <1>1, <3>1 DEF Exclusive
    <3>3. \A e \in Db!Call \ {d} : <<"ran", x>> \notin call[e].wrote
        BY <1>1, <3>1 DEF Exclusive
    <3>. QED BY <1>1, <3>2, <3>3
  <2>. QED BY <2>1 DEF Exclusive
<1>3. CASE c \in Tx
  <2>1. /\ rows' = rows \cup {<<"row", c>>} /\ ran' = ran
        /\ call'[c].ended = "ok" \/ call'[c].unsure
      BY <1>1, <1>3 DEF Own, Commits, DbAssumption
  <2>2. \A x : /\ <<"ran", x>> \in rows' <=> <<"ran", x>> \in rows
               /\ <<"table", x>> \in rows' <=> <<"table", x>> \in rows
      BY <2>1
  <2>3. \A d \in Runner : call'[d] = call[d]
      BY <1>1, <1>3 DEF Db!Call, DbAssumption
  <2>4. History'
      BY <1>1, <2>2, <2>3 DEF History
  <2>5. Reported'
      BY <1>1, <2>1, <2>2 DEF Reported
  <2>6. OwnRows'
    <3>1. ASSUME NEW d \in Tx
          PROVE  /\ <<"row", d>> \in rows' => call'[d].ended = "ok" \/ call'[d].unsure
                 /\ call'[d].ended = "ok" => <<"row", d>> \in rows'
      <4>1. CASE d = c
          BY <2>1, <4>1
      <4>2. CASE d # c
          BY <1>1, <2>1, <4>2 DEF OwnRows, Db!Call
      <4>. QED BY <4>1, <4>2
    <3>. QED BY <3>1 DEF OwnRows
  <2>. QED BY <1>2, <2>4, <2>5, <2>6 DEF Ledger
<1>4. CASE c \in Runner
  <2> DEFINE k == r.m
  <2>0. c \notin Tx /\ k \in 1 .. Len(Migration) + 1 /\ Len(Migration) \in Nat
      BY <1>4, MigrationNames DEF DbAssumption, CallsStand, Stands, CallState
  <2>1. /\ c \notin Tx /\ rows' = rows \cup {<<"table", Migration[k]>>, <<"ran", Migration[k]>>}
        /\ k \in 1 .. Len(Migration) /\ Len(Migration) \in Nat
        /\ <<"ran", Migration[k]>> \in r.wrote
      BY <1>1, <2>0 DEF Own, Tabled, Logged, Commits
  <2>2. /\ \/ ran' = ran /\ call'[c].m = k
           \/ ran' = [ran EXCEPT ![c] = Append(@, Migration[k])] /\ call'[c].m = k + 1
      BY <1>4, <2>1 DEF Commits
  <2>. HIDE DEF k
  <2>3. <<"ran", Migration[k]>> \notin rows
      BY <1>1, <2>1, MigrationNames DEF Exclusive
  <2>4. History'
    <3>1. \A x \in Names : <<"table", x>> \in rows' <=> <<"ran", x>> \in rows'
        BY <1>1, <2>1 DEF History
    <3>2. \A j \in 1 .. Len(Migration) : j < k => <<"ran", Migration[j]>> \in rows
        BY <1>1, <1>4 DEF History, k
    <3>3. ASSUME NEW i \in 1 .. Len(Migration), <<"ran", Migration[i]>> \in rows', NEW j \in 1 .. i
          PROVE  <<"ran", Migration[j]>> \in rows'
      <4>1. CASE <<"ran", Migration[i]>> \in rows
          BY <1>1, <2>1, <4>1 DEF History
      <4>2. CASE Migration[i] = Migration[k]
        <5>1. i = k
            BY <2>1, <4>2, MigrationNames
        <5>. QED BY <2>1, <3>2, <5>1
      <4>. QED BY <2>1, <3>3, <4>1, <4>2
    <3>4. ASSUME NEW d \in Runner, NEW j \in 1 .. Len(Migration), j < call'[d].m
          PROVE  <<"ran", Migration[j]>> \in rows'
      <4>1. CASE d # c
          BY <1>1, <2>1, <3>4, <4>1 DEF History, Db!Call
      <4>2. CASE d = c
        <5>1. j < k \/ j = k
            BY <2>1, <2>2, <3>4, <4>2
        <5>. QED BY <2>1, <3>2, <5>1
      <4>. QED BY <4>1, <4>2
    <3>. QED BY <3>1, <3>3, <3>4 DEF History
  <2>5. Reported'
    <3>1. CASE ran' = ran
        BY <1>1, <2>1, <3>1 DEF Reported
    <3>2. CASE ran' = [ran EXCEPT ![c] = Append(@, Migration[k])]
      <4>1. /\ \A d \in Runner \ {c} : ran'[d] = ran[d]
            /\ ran'[c] = Append(ran[c], Migration[k]) /\ ran[c] \in Seq(Names)
          BY <1>1, <1>4, <3>2
      <4>2. /\ DOMAIN ran'[c] = DOMAIN ran[c] \cup {Len(ran[c]) + 1}
            /\ \A i \in DOMAIN ran[c] : ran'[c][i] = ran[c][i]
            /\ ran'[c][Len(ran[c]) + 1] = Migration[k]
          BY <4>1
      <4>3. \A d \in Runner : \A i \in DOMAIN ran[d] : ran[d][i] # Migration[k]
          BY <1>1, <2>3 DEF Reported
      <4>4. ASSUME NEW d \in Runner, NEW i \in DOMAIN ran'[d]
            PROVE  <<"ran", ran'[d][i]>> \in rows'
        <5>1. CASE d = c /\ i = Len(ran[c]) + 1
            BY <2>1, <4>2, <5>1
        <5>2. CASE i \in DOMAIN ran[d]
          <6>1. ran'[d][i] = ran[d][i]
              BY <4>1, <4>2, <5>2
          <6>2. <<"ran", ran[d][i]>> \in rows
              BY <1>1, <5>2 DEF Reported
          <6>. QED BY <2>1, <6>1, <6>2
        <5>. QED BY <4>1, <4>2, <4>4, <5>1, <5>2
      <4>5. ASSUME NEW d \in Runner, NEW e \in Runner, d # e,
                   NEW i \in DOMAIN ran'[d], NEW j \in DOMAIN ran'[e]
            PROVE  ran'[d][i] # ran'[e][j]
        <5>1. CASE d # c /\ e # c
            BY <1>1, <4>1, <4>5, <5>1 DEF Reported
        <5>2. CASE d = c /\ e # c
          <6>1. ran'[e] = ran[e]
              BY <4>1, <5>2
          <6>2. CASE i = Len(ran[c]) + 1
              BY <4>2, <4>3, <4>5, <5>2, <6>1, <6>2
          <6>3. CASE i \in DOMAIN ran[c]
              BY <1>1, <4>2, <4>5, <5>2, <6>1, <6>3 DEF Reported
          <6>. QED BY <4>2, <4>5, <5>2, <6>2, <6>3
        <5>3. CASE e = c /\ d # c
          <6>1. ran'[d] = ran[d]
              BY <4>1, <5>3
          <6>2. CASE j = Len(ran[c]) + 1
              BY <4>2, <4>3, <4>5, <5>3, <6>1, <6>2
          <6>3. CASE j \in DOMAIN ran[c]
              BY <1>1, <4>2, <4>5, <5>3, <6>1, <6>3 DEF Reported
          <6>. QED BY <4>2, <4>5, <5>3, <6>2, <6>3
        <5>. QED BY <4>5, <5>1, <5>2, <5>3
      <4>. QED BY <4>4, <4>5 DEF Reported
    <3>. QED BY <2>2, <3>1, <3>2
  <2>6. OwnRows'
    <3>1. \A d : <<"row", d>> \in rows' <=> <<"row", d>> \in rows
        BY <2>1
    <3>. QED BY <1>1, <2>1, <3>1 DEF OwnRows, Db!Call
  <2>. QED BY <1>2, <2>4, <2>5, <2>6 DEF Ledger
<1>. QED BY <1>3, <1>4 DEF Db!Call

LEMMA LedgerKept ==
    ASSUME DbAssumption, CallsStand, Ledger, [Db!Next]_Db!vars PROVE Ledger'
<1>1. CASE UNCHANGED Db!vars
    BY <1>1 DEF Db!vars, Ledger, History, Exclusive, Reported, OwnRows
<1>2. CASE Db!Next /\ ~Memory
  <2>1. PICK c \in Db!Call : Db!Step(c)
      BY <1>2 DEF Db!Next
  <2>2. Turns(c)
      BY <2>1, StepTurns
  <2>. QED BY <1>2, <2>2, IdleKeepsLedger, RecordKeepsLedger, CommitKeepsLedger DEF Turns
<1>3. CASE Memory
    BY <1>3 DEF Ledger
<1>. QED BY <1>1, <1>2, <1>3


\* The connections of a server's pool that calls hold.
InPool == ~Memory => Cardinality(Db!Held) <= MaxConns

LEMMA HeldNumber == \A S : Db!Cardinality(S) = Cardinality(S)
BY DEF Db!Cardinality, Cardinality

LEMMA HoldsOn ==
    ASSUME DbAssumption, CallsStand, NEW c \in Db!Call, Db!Step(c), ~Db!Connect(c),
           call'[c].holds
    PROVE  call[c].holds
<1>1. Stands(c, call[c]) /\ call[c] \in CallState
    BY DEF CallsStand, Stands
<1>2. CASE call[c].at \in Inside
    BY <1>1, <1>2 DEF Stands, CallState
<1>3. CASE Db!Ensure(c)
    BY <1>1, <1>3, Rewritten DEF Db!Ensure, CallState
<1>4. CASE Db!Check(c)
  <2>1. \/ call'[c] = [call[c] EXCEPT !.at = "end", !.ended = "ok"]
        \/ call'[c] = [call[c] EXCEPT !.m = @ + 1]
        \/ call'[c] = [call[c] EXCEPT !.at = "connect"]
      BY <1>4, Rewritten DEF Db!Check
  <2>. QED BY <1>1, <2>1 DEF CallState
<1>. QED BY <1>2, <1>3, <1>4
     DEF Db!Step, Db!Begin, Db!Work, Db!Record, Db!Commit, Db!Rollback, Inside

LEMMA PoolKept ==
    ASSUME DbAssumption, CallsStand, InPool, [Db!Next]_Db!vars PROVE InPool'
<1>1. CASE UNCHANGED Db!vars
    BY <1>1 DEF Db!vars, InPool, Db!Held
<1>2. CASE Db!Next /\ ~Memory
  <2>1. PICK c \in Db!Call : Db!Step(c)
      BY <1>2 DEF Db!Next
  <2>2. \A d \in Db!Call \ {c} : call'[d] = call[d]
      BY <2>1, StepTurns DEF Turns, CallsStand
  <2>3. IsFiniteSet(Db!Held) /\ Cardinality(Db!Held) \in Nat /\ MaxConns \in Nat
      BY FS_Subset, FS_CardinalityType DEF Db!Held, Db!Call, DbAssumption
  <2>4. CASE Db!Held' \subseteq Db!Held
    <3>1. Cardinality(Db!Held') <= Cardinality(Db!Held) /\ Cardinality(Db!Held') \in Nat
        BY <2>3, <2>4, FS_Subset, FS_CardinalityType
    <3>. QED BY <1>2, <2>3, <3>1 DEF InPool
  <2>5. CASE Db!Connect(c)
    <3>1. Db!Held' \in SUBSET (Db!Held \cup {c})
        BY <2>2 DEF Db!Held
    <3>2. CASE Cardinality(Db!Held) < MaxConns
      <4>1. /\ IsFiniteSet(Db!Held \cup {c})
            /\ Cardinality(Db!Held \cup {c}) \in {Cardinality(Db!Held), Cardinality(Db!Held) + 1}
          BY <2>3, FS_AddElement
      <4>2. Cardinality(Db!Held') <= Cardinality(Db!Held \cup {c}) /\ IsFiniteSet(Db!Held')
          BY <3>1, <4>1, FS_Subset
      <4>3. Cardinality(Db!Held') \in Nat /\ Cardinality(Db!Held \cup {c}) \in Nat
          BY <4>1, <4>2, FS_CardinalityType
      <4>. QED BY <2>3, <3>2, <4>1, <4>2, <4>3 DEF InPool
    <3>3. CASE ~(Cardinality(Db!Held) < MaxConns)
      <4>1. call'[c] = [call[c] EXCEPT !.at = "end", !.ended = "failed"]
          BY <1>2, <2>5, <3>3, Rewritten, HeldNumber DEF Db!Connect
      <4>2. call'[c].holds = call[c].holds
          BY <4>1 DEF CallsStand, Stands, CallState
      <4>. QED BY <2>2, <2>4, <4>2 DEF Db!Held
    <3>. QED BY <3>2, <3>3
  <2>6. CASE ~Db!Connect(c)
      BY <2>1, <2>2, <2>4, <2>6, HoldsOn DEF Db!Held
  <2>. QED BY <2>5, <2>6
<1>3. CASE Memory
    BY <1>3 DEF InPool
<1>. QED BY <1>1, <1>2, <1>3

\* TransactionManager and MigrationRunner, for any calls, migrations, faults and pools:
\* no connection is kept by a call that is over.  On a server, too, the history of
\* migrations is that of the tables, a transaction leaves all of its rows or none, and
\* no two runners report that they have run the same migration.
THEOREM CallsLeaveOrder ==
    ASSUME DbAssumption
    PROVE  Db!Spec => [](/\ Db!TypeOK /\ Db!ConnectionsComeBack /\ Db!MigratedAsRecorded
                         /\ Db!AllOrNothing /\ (~Memory => Db!RanOnce))
<1>1. Db!Init => CallsStand /\ Ledger /\ InPool
  <2>1. SUFFICES ASSUME Db!Init PROVE InPool
      BY DbStarts, LedgerStarts
  <2>2. Db!Held = {}
      BY <2>1 DEF Db!Init, Db!Held
  <2>. QED BY <2>2, FS_EmptySet DEF InPool, DbAssumption
<1>2. CallsStand /\ Ledger /\ InPool /\ [Db!Next]_Db!vars => (CallsStand /\ Ledger /\ InPool)'
    BY DbNextStands, LedgerKept, PoolKept
<1>3. CallsStand /\ Ledger /\ InPool =>
        /\ Db!TypeOK /\ Db!ConnectionsComeBack /\ Db!MigratedAsRecorded
        /\ Db!AllOrNothing /\ (~Memory => Db!RanOnce)
  <2>1. SUFFICES ASSUME CallsStand, Ledger, InPool
                 PROVE  /\ Db!TypeOK /\ Db!ConnectionsComeBack /\ Db!MigratedAsRecorded
                        /\ Db!AllOrNothing /\ (~Memory => Db!RanOnce)
      OBVIOUS
  <2>2. Db!ConnectionsComeBack
    <3>1. \A c \in Db!Call : call[c].at = "end" => (call[c].holds <=> call[c].leaked)
        BY <2>1 DEF CallsStand, Stands, CallState, Inside
    <3>. QED BY <2>1, <3>1, HeldNumber DEF InPool, Db!ConnectionsComeBack
  <2>3. Db!MigratedAsRecorded
      BY <2>1, MigrationNames DEF Ledger, History, Db!MigratedAsRecorded
  <2>4. Db!AllOrNothing
      BY <2>1 DEF Ledger, OwnRows, Db!AllOrNothing
  <2>5. ~Memory => Db!RanOnce
      BY <2>1 DEF Ledger, Reported, Db!RanOnce, Db!ToSet
  <2>. QED BY <2>1, <2>2, <2>3, <2>4, <2>5, DbTypes
<1>. QED BY <1>1, <1>2, <1>3, PTL DEF Db!Spec

-----------------------------------------------------------------------------
(* PluginRegistry.                                                         *)

RegistryAssumption == MaxCalls \in Nat

\* Calls are counted, and those that wait for a plugin's own code are about a plugin
\* that is registered, and isolated as it asked if it is being initialised.
Counted ==
    /\ Registry!TypeOK /\ calls \in 0 .. MaxCalls
    /\ \A p \in Plugin :
         /\ inits[p] + stops[p] <= calls
         /\ inits[p] + stops[p] > 0 => p \in Registry!Registered
         /\ inits[p] > 0 => p \in Registry!Isolated
    /\ Registry!NeverWeaker

\* A plugin whose calls do not overlap has one of them under way at most, which its
\* status names.
Serial ==
    \A p \in Plugin \ overlapped :
        /\ inits[p] + stops[p] <= 1
        /\ inits[p] = 1 => status[p] = "initializing" /\ p \in memory
        /\ stops[p] = 1 => status[p] = "shutting_down"

LEMMA CountedStarts ==
    ASSUME RegistryAssumption, Registry!Init
    PROVE  Counted /\ Serial /\ Registry!StatusTrue /\ Registry!GraphSound
<1>1. Counted
    BY DEF RegistryAssumption, Registry!Init, Counted, Registry!TypeOK, Registry!Status,
           Registry!NeverWeaker
<1>2. Serial /\ Registry!StatusTrue
    BY DEF Registry!Init, Serial, Registry!StatusTrue
<1>3. ASSUME NEW p \in Plugin PROVE ~Registry!Reaches({}, p, p)
  <2>1. {} \in SUBSET Plugin /\ p \notin {} /\ \A e \in {} : e[1] \in {} \cup {p} => e[2] \in {}
      OBVIOUS
  <2>. QED BY <2>1 DEF Registry!Reaches
<1>. QED BY <1>1, <1>2, <1>3 DEF Registry!Init, Registry!GraphSound, Registry!Registered

LEMMA CountedKept ==
    ASSUME RegistryAssumption, Counted, NEW p \in Plugin,
           \/ \E ts \in SUBSET (Plugin \ {p}) : Registry!Register(p, ts)
           \/ Registry!Activate(p) \/ Registry!Deactivate(p) \/ Registry!Suspend(p)
           \/ Registry!InitSettles(p) \/ Registry!ShutdownSettles(p)
    PROVE  Counted'
<1> USE DEF RegistryAssumption, Counted, Registry!TypeOK, Registry!Status, Registry!NeverWeaker,
            Registry!Registered
<1>1. CASE \E ts \in SUBSET (Plugin \ {p}) : Registry!Register(p, ts)
  <2>1. PICK ts \in SUBSET (Plugin \ {p}) : Registry!Register(p, ts)
      BY <1>1
  <2>2. status[p] = "none" /\ graph' = graph \cup {<<p, t>> : t \in ts}
      BY <2>1 DEF Registry!Register, Registry!Valid
  <2>3. /\ status' = [status EXCEPT ![p] = "registered"] /\ UNCHANGED <<memory, inits, stops, calls>>
      BY <2>1 DEF Registry!Register
  <2>4. graph' \subseteq Plugin \X Plugin
      BY <2>2
  <2>. QED BY <2>3, <2>4
<1>2. CASE Registry!Activate(p)
    BY <1>2 DEF Registry!Activate, Registry!Call
<1>3. CASE Registry!Deactivate(p)
    BY <1>3 DEF Registry!Deactivate, Registry!Call
<1>4. CASE Registry!Suspend(p)
    BY <1>4 DEF Registry!Suspend, Registry!Call
<1>5. CASE Registry!InitSettles(p)
    BY <1>5 DEF Registry!InitSettles, Registry!Activated
<1>6. CASE Registry!ShutdownSettles(p)
    BY <1>6 DEF Registry!ShutdownSettles, Registry!WithoutEdges
<1>. QED BY <1>1, <1>2, <1>3, <1>4, <1>5, <1>6

LEMMA SerialKept ==
    ASSUME Counted, Serial, Registry!StatusTrue, NEW p \in Plugin,
           \/ \E ts \in SUBSET (Plugin \ {p}) : Registry!Register(p, ts)
           \/ Registry!Activate(p) \/ Registry!Deactivate(p) \/ Registry!Suspend(p)
           \/ Registry!InitSettles(p) \/ Registry!ShutdownSettles(p)
    PROVE  Serial' /\ Registry!StatusTrue'
<1> USE DEF Counted, Registry!TypeOK, Registry!Registered, Serial, Registry!StatusTrue
<1>1. CASE \E ts \in SUBSET (Plugin \ {p}) : Registry!Register(p, ts)
  <2>1. PICK ts \in SUBSET (Plugin \ {p}) : Registry!Register(p, ts)
      BY <1>1
  <2>2. status[p] = "none" /\ graph' = graph \cup {<<p, t>> : t \in ts}
      BY <2>1 DEF Registry!Register, Registry!Valid
  <2>3. status' = [status EXCEPT ![p] = "registered"]
        /\ UNCHANGED <<memory, inits, stops, calls, overlapped>>
      BY <2>1 DEF Registry!Register
  <2>4. \A q \in Plugin \ {p}, t \in Plugin : <<q, t>> \in graph' <=> <<q, t>> \in graph
      BY <2>2
  <2>5. inits[p] = 0 /\ stops[p] = 0
      BY <2>2
  <2>. QED BY <2>3, <2>4, <2>5
<1>2. CASE Registry!Activate(p)
    BY <1>2 DEF Registry!Activate, Registry!Call
<1>3. CASE Registry!Deactivate(p)
    BY <1>3 DEF Registry!Deactivate, Registry!Call
<1>4. CASE Registry!Suspend(p)
    BY <1>4 DEF Registry!Suspend, Registry!Call
<1>5. CASE Registry!InitSettles(p)
    BY <1>5 DEF Registry!InitSettles, Registry!Activated
<1>6. CASE Registry!ShutdownSettles(p)
  <2>1. \A q, t \in Plugin : <<q, t>> \in graph' => <<q, t>> \in graph /\ q # p
      BY <1>6 DEF Registry!ShutdownSettles, Registry!WithoutEdges
  <2>. QED BY <1>6, <2>1 DEF Registry!ShutdownSettles
<1>. QED BY <1>1, <1>2, <1>3, <1>4, <1>5, <1>6

\* Fewer edges reach no more.
LEMMA FewerReach ==
    ASSUME NEW g, NEW h \in SUBSET g, NEW p, ~Registry!Reaches(g, p, p)
    PROVE  ~Registry!Reaches(h, p, p)
BY DEF Registry!Reaches

\* A plugin nobody listens to closes no cycle, whomever it listens to itself.
LEMMA NewcomerClosesNone ==
    ASSUME NEW g, NEW p \in Plugin, NEW h, NEW q \in Plugin,
           \A e \in g : p \notin {e[1], e[2]},
           \A e \in h \ g : e[1] = p /\ e[2] \in Plugin \ {p},
           \A e \in g : e[2] \in Plugin,
           ~Registry!Reaches(g, q, q)
    PROVE  ~Registry!Reaches(h, q, q)
<1>1. CASE q = p
  <2>1. \A e \in h : e[2] \in Plugin \ {p}
      OBVIOUS
  <2>. QED BY <1>1, <2>1 DEF Registry!Reaches
<1>2. CASE q # p
  <2>1. PICK S \in SUBSET Plugin : (\A e \in g : e[1] \in S \cup {q} => e[2] \in S) /\ q \notin S
      BY DEF Registry!Reaches
  <2>2. \A e \in h : e[1] \in (S \ {p}) \cup {q} => e[2] \in S \ {p}
      BY <1>2, <2>1
  <2>. QED BY <2>1, <2>2 DEF Registry!Reaches
<1>. QED BY <1>1, <1>2

LEMMA GraphKept ==
    ASSUME Counted, Registry!GraphSound, NEW p \in Plugin,
           \/ \E ts \in SUBSET (Plugin \ {p}) : Registry!Register(p, ts)
           \/ Registry!Activate(p) \/ Registry!Deactivate(p) \/ Registry!Suspend(p)
           \/ Registry!InitSettles(p) \/ Registry!ShutdownSettles(p)
    PROVE  Registry!GraphSound'
<1>1. CASE \E ts \in SUBSET (Plugin \ {p}) : Registry!Register(p, ts)
  <2>1. PICK ts \in SUBSET (Plugin \ {p}) : Registry!Register(p, ts)
      BY <1>1
  <2>2. /\ p \notin Registry!Registered /\ ts \subseteq Registry!Registered
        /\ \A q \in Registry!Dependencies(p) : q \in Registry!Registered
        /\ graph' = graph \cup {<<p, t>> : t \in ts}
        /\ status' = [status EXCEPT ![p] = "registered"]
      BY <2>1 DEF Registry!Register, Registry!Valid
  <2>3. Registry!Registered' = Registry!Registered \cup {p}
      BY <2>2 DEF Counted, Registry!TypeOK, Registry!Registered
  <2>4. \A e \in graph : p \notin {e[1], e[2]} /\ e[2] \in Plugin
      BY <2>2 DEF Registry!GraphSound, Registry!Registered
  <2>5. \A e \in graph' \ graph : e[1] = p /\ e[2] \in Plugin \ {p}
      BY <2>2
  <2>6. ASSUME NEW q \in Plugin PROVE ~Registry!Reaches(graph', q, q)
      BY <2>4, <2>5, NewcomerClosesNone DEF Registry!GraphSound
  <2>7. \A e \in graph' : {e[1], e[2]} \subseteq Registry!Registered'
      BY <2>2, <2>3 DEF Registry!GraphSound
  <2>8. \A q \in Registry!Registered' : Registry!Dependencies(q) \subseteq Registry!Registered'
      BY <2>2, <2>3 DEF Registry!GraphSound
  <2>. QED BY <2>6, <2>7, <2>8 DEF Registry!GraphSound
<1>2. CASE \/ Registry!Activate(p) \/ Registry!Deactivate(p) \/ Registry!Suspend(p)
           \/ Registry!InitSettles(p) \/ Registry!ShutdownSettles(p)
  <2>1. p \in Registry!Registered
      BY <1>2 DEF Counted, Registry!TypeOK, Registry!Activate, Registry!Deactivate,
                  Registry!Suspend, Registry!InitSettles, Registry!ShutdownSettles
  <2>2. \E x \in Registry!Status \ {"none"} : status' = [status EXCEPT ![p] = x]
      BY <1>2 DEF Registry!Status, Registry!Activate, Registry!Deactivate, Registry!Suspend,
                  Registry!InitSettles, Registry!Activated, Registry!ShutdownSettles
  <2>3. Registry!Registered' = Registry!Registered
      BY <2>1, <2>2 DEF Counted, Registry!TypeOK, Registry!Registered
  <2>4. graph' \subseteq graph
      BY <1>2 DEF Registry!Activate, Registry!Deactivate, Registry!Suspend,
                  Registry!InitSettles, Registry!ShutdownSettles, Registry!WithoutEdges
  <2>. QED BY <2>3, <2>4, FewerReach DEF Registry!GraphSound
<1>. QED BY <1>1, <1>2

\* satisfiesVersion takes an interval of releases, and a pre-release only if it takes the
\* release before it.
LEMMA RangesAreIntervals ==
    ASSUME NEW v \in Registry!Releases, NEW w \in Registry!Releases,
           NEW op \in {"^", "~", ">=", "="}
    PROVE  LET r == [op |-> op, at |-> w.at, pre |-> FALSE] IN
           /\ Registry!Satisfies(v, r) <=>
                Registry!Number(w) <= Registry!Number(v) /\ Registry!Number(v) < Registry!Breaks(r)
           /\ Registry!Satisfies([v EXCEPT !.pre = TRUE], r) =>
                Registry!Satisfies([v EXCEPT !.at[3] = 0], r)
<1> DEFINE r == [op |-> op, at |-> w.at, pre |-> FALSE]
<1>1. PICK x1, x2, x3 \in 0 .. 2 : v = [at |-> <<x1, x2, x3>>, pre |-> FALSE]
    BY DEF Registry!Releases
<1>2. PICK y1, y2, y3 \in 0 .. 2 : w = [at |-> <<y1, y2, y3>>, pre |-> FALSE]
    BY DEF Registry!Releases
<1>3. /\ v.at[1] = x1 /\ v.at[2] = x2 /\ v.at[3] = x3 /\ ~v.pre
      /\ r.at[1] = y1 /\ r.at[2] = y2 /\ r.at[3] = y3 /\ ~r.pre /\ r.op = op
      /\ w.at[1] = y1 /\ w.at[2] = y2 /\ w.at[3] = y3
      /\ v.at = r.at <=> x1 = y1 /\ x2 = y2 /\ x3 = y3
    BY <1>1, <1>2
<1>. HIDE DEF r
<1>4. Registry!Satisfies(v, r) <=>
        Registry!Number(w) <= Registry!Number(v) /\ Registry!Number(v) < Registry!Breaks(r)
  <2>. USE DEF Registry!Satisfies, Registry!PatchFrom, Registry!FromMinor, Registry!Number,
               Registry!Breaks
  <2>1. CASE op = "^"
      BY <1>3, <2>1
  <2>2. CASE op = "~"
      BY <1>3, <2>2
  <2>3. CASE op = ">="
      BY <1>3, <2>3
  <2>4. CASE op = "="
      BY <1>3, <2>4
  <2>. QED BY <2>1, <2>2, <2>3, <2>4
<1>5. Registry!Satisfies([v EXCEPT !.pre = TRUE], r) => Registry!Satisfies([v EXCEPT !.at[3] = 0], r)
  <2> DEFINE p == [v EXCEPT !.pre = TRUE]  z == [v EXCEPT !.at[3] = 0]
  <2>1. /\ p.at = v.at /\ p.pre = TRUE
        /\ z.at[1] = x1 /\ z.at[2] = x2 /\ z.at[3] = 0 /\ z.pre = FALSE
      BY <1>1
  <2>. HIDE DEF p, z
  <2>2. Registry!Satisfies(p, r) => Registry!Satisfies(z, r)
      BY <1>3, <2>1 DEF Registry!Satisfies, Registry!PatchFrom, Registry!FromMinor
  <2>. QED BY <2>2 DEF p, z
<1>. QED BY <1>4, <1>5 DEF r

\* PluginRegistry, for any plugins, manifests and calls: what a plugin depends on or
\* listens to is registered, nobody listens to itself, none runs in a weaker isolation
\* than it asked for, and the status of a plugin whose calls do not overlap is true.
THEOREM RegistryStaysSound ==
    ASSUME RegistryAssumption
    PROVE  Registry!Spec => [](/\ Registry!TypeOK /\ Registry!GraphSound
                               /\ Registry!NeverWeaker /\ Registry!StatusTrue
                               /\ Registry!RangesOrdered)
<1> DEFINE Sound == Counted /\ Serial /\ Registry!StatusTrue /\ Registry!GraphSound
<1>1. Registry!Init => Sound
    BY CountedStarts
<1>2. Sound /\ [Registry!Next]_Registry!vars => Sound'
  <2>1. CASE UNCHANGED Registry!vars
      BY <2>1 DEF Registry!vars, Counted, Serial, Registry!TypeOK, Registry!Registered,
         Registry!NeverWeaker, Registry!StatusTrue, Registry!GraphSound
  <2>2. CASE Registry!Next
      BY <2>2, CountedKept, SerialKept, GraphKept DEF Registry!Next
  <2>. QED BY <2>1, <2>2
<1>3. Registry!RangesOrdered
    BY RangesAreIntervals DEF Registry!RangesOrdered
<1>4. Sound => Registry!TypeOK /\ Registry!NeverWeaker /\ Registry!StatusTrue /\ Registry!GraphSound
    BY DEF Counted
<1>. QED BY <1>1, <1>2, <1>3, <1>4, PTL DEF Registry!Spec

-----------------------------------------------------------------------------
(* PeerHealth.                                                             *)

HealthAssumption == BanAt \in Nat /\ MaxMissed \in Nat /\ NoPeer \notin Health!PeerState

PeersStored ==
    /\ running \in BOOLEAN /\ registered \in BOOLEAN
    /\ health \in {"ACTIVE", "ISOLATED", "OFFLINE"}
    /\ peers \in [Peer -> Health!PeerState \cup {NoPeer}]
    /\ pings \in [Peer -> Nat]

\* A ban outlives every change of the record but the removal of the peer.
KeepsBan(x, y) == x # NoPeer /\ x.banned => y = NoPeer \/ y.banned

LEMMA NewcomerIsPeer ==
    ASSUME HealthAssumption PROVE Health!Newcomer \in Health!PeerState
BY DEF HealthAssumption, Health!Newcomer, Health!PeerState, Health!Heard

\* What the handlers make of a record is a record, with the ban it had.
LEMMA RecordsKeepBan ==
    ASSUME HealthAssumption, NEW r \in Health!PeerState
    PROVE  /\ Health!Punished(r) \in Health!PeerState /\ KeepsBan(r, Health!Punished(r))
           /\ Health!Recorded(r) \in Health!PeerState /\ KeepsBan(r, Health!Recorded(r))
           /\ [r EXCEPT !.heard = "old"] \in Health!PeerState
           /\ KeepsBan(r, [r EXCEPT !.heard = "old"])
           /\ r.missed < MaxMissed =>
                /\ [r EXCEPT !.missed = @ + 1] \in Health!PeerState
                /\ KeepsBan(r, [r EXCEPT !.missed = @ + 1])
<1>1. /\ r.reputation \in -(BanAt + 1) .. 0 /\ r.banned \in BOOLEAN
      /\ r.heard \in Health!Heard /\ r.missed \in 0 .. MaxMissed
      /\ "recent" \in Health!Heard /\ "old" \in Health!Heard /\ 0 \in 0 .. MaxMissed
    BY DEF HealthAssumption, Health!PeerState, Health!Heard
<1>2. Health!Punished(r) \in Health!PeerState /\ KeepsBan(r, Health!Punished(r))
  <2> DEFINE rep == IF r.reputation - 1 < -(BanAt + 1) THEN r.reputation ELSE r.reputation - 1
             ban == r.banned \/ r.reputation - 1 <= -BanAt
  <2>1. /\ rep \in -(BanAt + 1) .. 0 /\ ban \in BOOLEAN
        /\ r.banned => ban
        /\ Health!Punished(r) = [r EXCEPT !.reputation = rep, !.banned = ban]
    <3>1. rep \in -(BanAt + 1) .. 0
        BY <1>1 DEF HealthAssumption
    <3>2. Health!Punished(r) = [r EXCEPT !.reputation = rep, !.banned = ban]
        BY DEF Health!Punished
    <3>. QED BY <3>1, <3>2
  <2>. HIDE DEF rep, ban
  <2>2. [r EXCEPT !.reputation = rep] \in Health!PeerState
      BY <2>1 DEF Health!PeerState
  <2>3. [[r EXCEPT !.reputation = rep] EXCEPT !.banned = ban] \in Health!PeerState
      BY <2>1, <2>2 DEF Health!PeerState
  <2>4. Health!Punished(r).banned = ban
      BY <2>1 DEF Health!PeerState
  <2>. QED BY <2>1, <2>3, <2>4 DEF KeepsBan
<1>3. Health!Recorded(r) \in Health!PeerState /\ KeepsBan(r, Health!Recorded(r))
  <2>1. [r EXCEPT !.heard = "recent"] \in Health!PeerState
      BY <1>1 DEF Health!PeerState
  <2>2. [[r EXCEPT !.heard = "recent"] EXCEPT !.missed = 0] \in Health!PeerState
      BY <1>1, <2>1 DEF Health!PeerState
  <2>3. Health!Recorded(r).banned = r.banned
      BY DEF Health!PeerState, Health!Recorded
  <2>. QED BY <2>2, <2>3 DEF KeepsBan, Health!Recorded
<1>4. /\ [r EXCEPT !.heard = "old"] \in Health!PeerState
      /\ KeepsBan(r, [r EXCEPT !.heard = "old"])
    BY DEF Health!PeerState, Health!Heard, KeepsBan
<1>5. ASSUME r.missed < MaxMissed
      PROVE  /\ [r EXCEPT !.missed = @ + 1] \in Health!PeerState
             /\ KeepsBan(r, [r EXCEPT !.missed = @ + 1])
    BY <1>5 DEF HealthAssumption, Health!PeerState, KeepsBan
<1>. QED BY <1>2, <1>3, <1>4, <1>5

\* What every step does: it keeps the types and every ban, and nothing reaches a node
\* that has stopped.
HealthStep ==
    /\ PeersStored'
    /\ \A p \in Peer : KeepsBan(peers[p], peers'[p])
    /\ ~registered /\ ~running => health' = health /\ \A p \in Peer : pings'[p] <= pings[p]

LEMMA HealthKept ==
    ASSUME HealthAssumption, PeersStored, Health!Next
    PROVE  HealthStep
<1>. USE DEF PeersStored, HealthStep
<1>1. CASE Health!Start \/ Health!Stop
  <2>1. running' \in BOOLEAN /\ registered' \in BOOLEAN
      BY <1>1, Zenon DEF Health!Start, Health!Stop
  <2>2. UNCHANGED <<peers, pings, health>>
      BY <1>1 DEF Health!Start, Health!Stop, Health!Change
  <2>. QED BY <2>1, <2>2 DEF KeepsBan
<1>2. ASSUME NEW p \in Peer, Health!AddPeer(p) \/ Health!RemovePeer(p)
      PROVE  HealthStep
  <2>1. /\ peers' \in {[peers EXCEPT ![p] = IF @ = NoPeer THEN Health!Newcomer ELSE @],
                       [peers EXCEPT ![p] = NoPeer]}
        /\ UNCHANGED <<running, registered, pings, health>>
      BY <1>2 DEF Health!AddPeer, Health!RemovePeer, Health!Change
  <2>. QED BY <2>1, NewcomerIsPeer DEF KeepsBan
<1>3. ASSUME NEW p \in Peer, Health!Ping(p)
      PROVE  HealthStep
    BY <1>3 DEF Health!Ping, KeepsBan
<1>4. ASSUME NEW p \in Peer, Health!Receive(p)
      PROVE  HealthStep
  <2>1. peers' = peers \/ \E r \in Health!PeerState :
                            /\ KeepsBan(peers[p], r) /\ peers' = [peers EXCEPT ![p] = r]
    <3>1. CASE p \notin Health!Known
        BY <1>4, <3>1 DEF Health!Receive
    <3>2. CASE p \in Health!Known
      <4>1. peers[p] \in Health!PeerState
          BY <3>2 DEF Health!Known
      <4>2. \E r \in {Health!Recorded(peers[p]), Health!Punished(peers[p])} :
               peers' = [peers EXCEPT ![p] = r]
          BY <1>4, <3>2, Zenon DEF Health!Receive, Health!HandleHeartbeat
      <4>. QED BY <4>1, <4>2, RecordsKeepBan
    <3>. QED BY <3>1, <3>2
  <2>2. /\ pings' = [pings EXCEPT ![p] = @ - 1] /\ pings[p] > 0
        /\ UNCHANGED <<running, registered, health>>
      BY <1>4 DEF Health!Receive
  <2>3. /\ peers' \in [Peer -> Health!PeerState \cup {NoPeer}]
        /\ \A q \in Peer : KeepsBan(peers[q], peers'[q])
      BY <2>1 DEF KeepsBan
  <2>4. pings' \in [Peer -> Nat] /\ \A q \in Peer : pings'[q] <= pings[q]
      BY <2>2
  <2>. QED BY <2>2, <2>3, <2>4
<1>5. CASE Health!CheckHealth
  <2>1. ASSUME NEW p \in Peer
        PROVE  /\ Health!Missed(p) \in Health!PeerState \cup {NoPeer}
               /\ KeepsBan(peers[p], Health!Missed(p))
      BY RecordsKeepBan DEF Health!Missed, Health!Silent, Health!Known, KeepsBan
  <2>. QED BY <1>5, <2>1 DEF Health!CheckHealth, Health!Status
<1>6. ASSUME NEW p \in Peer, Health!Ages(p)
      PROVE  HealthStep
  <2>1. \E r \in Health!PeerState :
           KeepsBan(peers[p], r) /\ peers' = [peers EXCEPT ![p] = r]
      BY <1>6, RecordsKeepBan DEF Health!Ages, Health!Known
  <2>. QED BY <1>6, <2>1 DEF Health!Ages, KeepsBan
<1>. QED BY <1>1, <1>2, <1>3, <1>4, <1>5, <1>6 DEF Health!Next

\* PeerHealth, for any peers: a ban lasts until the peer is removed, and a node that
\* has stopped hears no more heartbeats.
THEOREM BansLast ==
    ASSUME HealthAssumption
    PROVE  Health!Spec => []Health!TypeOK /\ Health!BanLasts /\ Health!StoppedIsQuiet
<1>1. Health!Init => PeersStored
  <2>1. Health!Init => running \in BOOLEAN /\ registered \in BOOLEAN
      BY Zenon DEF Health!Init
  <2>. QED BY <2>1 DEF Health!Init, PeersStored
<1>2. PeersStored /\ [Health!Next]_Health!vars => PeersStored'
    BY HealthKept DEF HealthStep, PeersStored, Health!vars
<1>3. PeersStored => Health!TypeOK
    BY DEF PeersStored, Health!TypeOK, Health!Known
<1>4. PeersStored /\ [Health!Next]_Health!vars =>
        [\A p \in Health!Known : peers[p].banned => peers'[p] = NoPeer \/ peers'[p].banned]_Health!vars
    BY HealthKept DEF HealthStep, KeepsBan, Health!Known
<1>5. PeersStored /\ [Health!Next]_Health!vars =>
        [~registered /\ ~running =>
            health' = health /\ \A p \in Peer : pings'[p] <= pings[p]]_Health!vars
    BY HealthKept DEF HealthStep
<1>. QED BY <1>1, <1>2, <1>3, <1>4, <1>5, PTL
         DEF Health!Spec, Health!BanLasts, Health!StoppedIsQuiet

-----------------------------------------------------------------------------
(* PluginRuntime.                                                          *)

RuntimeAssumption ==
    /\ IsFiniteSet(Caller) /\ Deps \in [Loaded -> SUBSET Loaded]
    /\ Threshold \in Nat \ {0} /\ MaxGen \in Nat
    /\ Nobody \notin Loaded \X Runtime!Gen

States == {"uninstalled", "registered", "installed", "initialized", "running", "degraded",
           "quarantined", "stopped"}
Up == {"running", "degraded"}

\* The callers but c that wait for a record.
Others(c, p, g) == {d \in Caller \ {c} : waitsFor[d] = <<p, g>>}
Waiting(p, g) == {d \in Caller : waitsFor[d] = <<p, g>>}

\* Each caller that waits for a record may book one more error to it.
MostErrors == Threshold + Cardinality(Caller) - 1
RecordsBounded ==
    \A p \in Loaded, g \in Runtime!Gen : errors[p][g] + Cardinality(Waiting(p, g)) <= MostErrors

RuntimeTyped ==
    /\ state \in [Loaded -> States] /\ gen \in [Loaded -> 0 .. MaxGen]
    /\ errors \in [Loaded -> [Runtime!Gen -> Nat]]
    /\ waitsFor \in [Caller -> (Loaded \X Runtime!Gen) \cup {Nobody}]
    /\ visited \in [Caller -> SUBSET Loaded]
    /\ \A p \in Loaded : state[p] # "uninstalled" => gen[p] # 0

\* The new version of a swap that nobody disturbs serves until the swap ends.
NewVersionServes ==
    swap # <<>> => /\ swap[1] \in Loaded /\ swap[2] \in Loaded
                   /\ quiet => state[swap[2]] \in Up

RuntimeSound == RuntimeTyped /\ RecordsBounded /\ NewVersionServes /\ Runtime!DepsThere

\* How the calls of invoke() may change the states: nobody comes or goes, and who
\* serves goes on serving.
Mild(s, t) ==
    /\ t \in [Loaded -> States]
    /\ \A p \in Loaded : /\ t[p] = "uninstalled" <=> s[p] = "uninstalled"
                         /\ s[p] \in Up => t[p] \in Up

LEMMA TransitionTable ==
    /\ DOMAIN Runtime!ValidTransitions = States
    /\ \A x \in States :
         /\ Runtime!ValidTransitions[x] \subseteq States
         /\ "degraded" \in Runtime!ValidTransitions[x] => x = "running"
         /\ x = "uninstalled" => Runtime!ValidTransitions[x] = {}
BY DEF Runtime!ValidTransitions, States

LEMMA MovedIsMild ==
    ASSUME NEW s \in [Loaded -> States], NEW p \in Loaded, NEW to \in Up,
           to = "running" => s[p] \in Up
    PROVE  Mild(s, Runtime!Moved(s, p, to))
<1>1. CASE to \notin Runtime!ValidTransitions[s[p]]
    BY <1>1 DEF Mild, Runtime!Moved
<1>2. CASE to \in Runtime!ValidTransitions[s[p]]
  <2>1. Runtime!Moved(s, p, to) = [s EXCEPT ![p] = to]
      BY <1>2 DEF Runtime!Moved
  <2>2. s[p] # "uninstalled" /\ to \in States
      BY <1>2, TransitionTable DEF Up, States
  <2>. QED BY <2>1, <2>2 DEF Mild, Up
<1>. QED BY <1>1, <1>2

\* Where the loop of an invoke() goes on: the record it waits for next is of the running
\* generation and has less errors than the threshold.
LEMMA LoopGoesOn ==
    ASSUME RuntimeAssumption, RuntimeTyped, NEW c \in Caller, NEW past \in SUBSET Loaded,
           NEW s, Mild(state, s), NEW e \in [Loaded -> [Runtime!Gen -> Nat]], NEW o,
           \A p \in Loaded, g \in Runtime!Gen :
               e[p][g] + Cardinality(Others(c, p, g)) <= MostErrors,
           Runtime!GoOn(c, past, s, e, o), gen' = gen
    PROVE  RuntimeTyped' /\ RecordsBounded' /\ Mild(state, state')
<1> DEFINE open == {p \in Loaded \ past : s[p] \in Up /\ ~Runtime!Tripped(e, o, p)}
<1>. HIDE DEF open
<1>0. /\ IsFiniteSet(Caller) /\ Cardinality(Caller) \in Nat
      /\ \A d \in SUBSET Caller : IsFiniteSet(d) /\ Cardinality(d) \in Nat
      /\ \A d \in SUBSET (Caller \ {c}) : Cardinality(d) <= Cardinality(Caller) - 1
    BY FS_Subset, FS_CardinalityType, FS_RemoveElement DEF RuntimeAssumption
<1>1. CASE open = {}
  <2>1. /\ waitsFor' = [waitsFor EXCEPT ![c] = Nobody]
        /\ visited' = [visited EXCEPT ![c] = {}] /\ state' = s /\ errors' = e
      BY <1>1 DEF Runtime!GoOn, open, Up
  <2>2. RuntimeTyped' /\ Mild(state, state')
      BY <2>1 DEF RuntimeTyped, Mild
  <2>3. ASSUME NEW p \in Loaded, NEW g \in Runtime!Gen
        PROVE  Waiting(p, g)' = Others(c, p, g)
    <3>1. <<p, g>> # Nobody
        BY DEF RuntimeAssumption
    <3>. QED BY <2>1, <3>1 DEF Waiting, Others, RuntimeTyped
  <2>. QED BY <2>1, <2>2, <2>3 DEF RecordsBounded, MostErrors
<1>2. CASE open # {}
  <2>1. PICK p \in open :
           LET resets == e[p][gen[p]] >= Threshold /\ o[p][gen[p]] IN
           /\ waitsFor' = [waitsFor EXCEPT ![c] = <<p, gen[p]>>]
           /\ visited' = [visited EXCEPT ![c] = past \cup {p}]
           /\ errors' = IF resets THEN [e EXCEPT ![p][gen[p]] = 0] ELSE e
           /\ state' = IF resets THEN Runtime!Moved(s, p, "running") ELSE s
      BY <1>2 DEF Runtime!GoOn, open, Up
  <2>2. p \in Loaded /\ s[p] \in Up /\ ~Runtime!Tripped(e, o, p)
      BY DEF open
  <2>3. gen[p] \in Runtime!Gen
      BY <2>2 DEF RuntimeTyped, RuntimeAssumption, Mild, Up, Runtime!Gen
  <2>4. Mild(s, Runtime!Moved(s, p, "running"))
      BY <2>2, MovedIsMild DEF Mild, Up
  <2>5. Mild(state, state')
      BY <2>1, <2>4 DEF Mild
  <2>6. /\ errors' \in [Loaded -> [Runtime!Gen -> Nat]]
        /\ errors'[p][gen[p]] < Threshold
        /\ \A q \in Loaded, g \in Runtime!Gen : errors'[q][g] <= e[q][g]
      BY <2>1, <2>2, <2>3 DEF Runtime!Tripped, RuntimeAssumption
  <2>7. RuntimeTyped'
      BY <2>1, <2>2, <2>3, <2>5, <2>6 DEF RuntimeTyped, Mild
  <2>8. ASSUME NEW q \in Loaded, NEW g \in Runtime!Gen
        PROVE  errors'[q][g] + Cardinality(Waiting(q, g)') <= MostErrors'
    <3>1. CASE q = p /\ g = gen[p]
      <4>1. Waiting(q, g)' \in SUBSET Caller
          BY DEF Waiting
      <4>2. Cardinality(Waiting(q, g)') <= Cardinality(Caller)
          BY <4>1, <1>0, FS_Subset
      <4>. QED BY <4>1, <4>2, <3>1, <2>6, <1>0 DEF MostErrors, RuntimeAssumption
    <3>2. CASE ~(q = p /\ g = gen[p])
      <4>1. Waiting(q, g)' = Others(c, q, g)
          BY <3>2, <2>1 DEF Waiting, Others, RuntimeTyped
      <4>2. Others(c, q, g) \in SUBSET Caller
          BY DEF Others
      <4>. QED BY <4>1, <4>2, <2>6, <1>0 DEF MostErrors, RuntimeAssumption
    <3>. QED BY <3>1, <3>2
  <2>. QED BY <2>5, <2>7, <2>8 DEF RecordsBounded
<1>. QED BY <1>1, <1>2

\* An error is booked to the record the caller waited for; then the caller is counted
\* among those that wait for it no more.
LEMMA OthersBounded ==
    ASSUME RuntimeAssumption, RuntimeTyped, RecordsBounded, NEW c \in Caller,
           NEW p \in Loaded, NEW g \in Runtime!Gen
    PROVE  /\ errors[p][g] + Cardinality(Others(c, p, g)) <= MostErrors
           /\ waitsFor[c] = <<p, g>> =>
                errors[p][g] + 1 + Cardinality(Others(c, p, g)) <= MostErrors
<1>1. IsFiniteSet(Caller) /\ Cardinality(Caller) \in Nat
    BY FS_CardinalityType DEF RuntimeAssumption
<1>2. IsFiniteSet(Waiting(p, g)) /\ Cardinality(Waiting(p, g)) \in Nat
    BY <1>1, FS_Subset, FS_CardinalityType DEF Waiting
<1>3. Others(c, p, g) = Waiting(p, g) \ {c}
    BY DEF Others, Waiting
<1>4. /\ Cardinality(Others(c, p, g)) \in Nat
      /\ Cardinality(Others(c, p, g)) <= Cardinality(Waiting(p, g))
      /\ waitsFor[c] = <<p, g>> =>
           Cardinality(Others(c, p, g)) = Cardinality(Waiting(p, g)) - 1
    BY <1>2, <1>3, FS_Subset, FS_RemoveElement, FS_CardinalityType DEF Waiting
<1>5. errors[p][g] \in Nat /\ errors[p][g] + Cardinality(Waiting(p, g)) <= MostErrors
    BY DEF RuntimeTyped, RecordsBounded
<1>6. MostErrors \in Nat
    BY <1>1 DEF MostErrors, RuntimeAssumption
<1>. QED BY <1>2, <1>4, <1>5, <1>6

LEMMA InvokesKeep ==
    ASSUME RuntimeAssumption, RuntimeSound, NEW c \in Caller,
           Runtime!Invoke(c) \/ Runtime!Answers(c) \/ Runtime!Fails(c)
    PROVE  RuntimeSound'
<1>1. PICK past, s, e, o :
         /\ past \in SUBSET Loaded /\ e \in [Loaded -> [Runtime!Gen -> Nat]]
         /\ Mild(state, s) /\ Runtime!GoOn(c, past, s, e, o)
         /\ \A p \in Loaded, g \in Runtime!Gen :
              e[p][g] + Cardinality(Others(c, p, g)) <= MostErrors
  <2>1. CASE Runtime!Invoke(c) \/ Runtime!Answers(c)
    <3>1. \E past \in SUBSET Loaded : Runtime!GoOn(c, past, state, errors, old)
        BY <2>1 DEF Runtime!Invoke, Runtime!Answers, RuntimeSound, RuntimeTyped
    <3>2. Mild(state, state) /\ errors \in [Loaded -> [Runtime!Gen -> Nat]]
        BY DEF Mild, RuntimeSound, RuntimeTyped
    <3>. QED BY <3>1, <3>2, OthersBounded DEF RuntimeSound
  <2>2. CASE Runtime!Fails(c)
    <3> DEFINE p == waitsFor[c][1]
               g == waitsFor[c][2]
               e == [errors EXCEPT ![p][g] =
                       IF @ < Threshold + Runtime!Cardinality(Caller) THEN @ + 1 ELSE @]
               o == [old EXCEPT ![p][g] = FALSE]
               s == IF e[p][g] >= Threshold THEN Runtime!Moved(state, p, "degraded") ELSE state
    <3>1. p \in Loaded /\ g \in Runtime!Gen /\ waitsFor[c] = <<p, g>>
      <4>1. waitsFor[c] # Nobody
          BY <2>2 DEF Runtime!Fails
      <4>2. waitsFor[c] \in Loaded \X Runtime!Gen
          BY <4>1 DEF RuntimeSound, RuntimeTyped
      <4>. QED BY <4>2
    <3>2. Runtime!GoOn(c, visited[c], s, e, o)
        BY <2>2 DEF Runtime!Fails
    <3>. HIDE DEF p, g
    <3>3. e \in [Loaded -> [Runtime!Gen -> Nat]]
        BY <3>1 DEF RuntimeSound, RuntimeTyped
    <3>4. \A q \in Loaded, h \in Runtime!Gen :
             \/ e[q][h] = errors[q][h]
             \/ q = p /\ h = g /\ e[q][h] = errors[q][h] + 1
        BY <3>1 DEF RuntimeSound, RuntimeTyped
    <3>5. state \in [Loaded -> States] /\ visited[c] \in SUBSET Loaded
        BY DEF RuntimeSound, RuntimeTyped
    <3>6. Mild(state, state) /\ Mild(state, Runtime!Moved(state, p, "degraded"))
        BY <3>1, <3>5, MovedIsMild DEF Mild, Up
    <3>7. Mild(state, s)
        BY <3>6
    <3>. HIDE DEF e, o, s
    <3>8. \A q \in Loaded, h \in Runtime!Gen :
             e[q][h] + Cardinality(Others(c, q, h)) <= MostErrors
        BY <3>1, <3>4, OthersBounded DEF RuntimeSound
    <3>. QED BY <3>2, <3>3, <3>5, <3>7, <3>8
  <2>. QED BY <2>1, <2>2
<1>2. UNCHANGED <<gen, swap, quiet>>
    BY DEF Runtime!Invoke, Runtime!Answers, Runtime!Fails
<1>3. RuntimeTyped' /\ RecordsBounded' /\ Mild(state, state')
    BY <1>1, <1>2, LoopGoesOn DEF RuntimeSound
<1>4. Runtime!DepsThere'
    BY <1>3 DEF Mild, RuntimeSound, Runtime!DepsThere, Runtime!Registered
<1>5. NewVersionServes'
    BY <1>2, <1>3 DEF Mild, RuntimeSound, NewVersionServes
<1>. QED BY <1>3, <1>4, <1>5 DEF RuntimeSound

\* register(), transition(), uninstall() and swap() touch neither records nor loops.
LEMMA ChangesKeep ==
    ASSUME RuntimeAssumption, RuntimeSound,
           UNCHANGED <<errors, Runtime!loopVars>>,
           state' \in [Loaded -> States], gen' \in [Loaded -> 0 .. MaxGen],
           \A p \in Loaded : state'[p] # "uninstalled" => gen'[p] # 0
    PROVE  RuntimeTyped' /\ RecordsBounded'
BY DEF RuntimeSound, RuntimeTyped, RecordsBounded, Waiting, MostErrors, Runtime!loopVars

LEMMA RegisterKeeps ==
    ASSUME RuntimeAssumption, RuntimeSound, NEW p \in Loaded, Runtime!CanRegister(p),
           NEW x \in States \ {"uninstalled"},
           state' = [state EXCEPT ![p] = x], gen' = [gen EXCEPT ![p] = @ + 1],
           UNCHANGED <<errors, Runtime!loopVars>>
    PROVE  RuntimeTyped' /\ RecordsBounded' /\ Runtime!DepsThere'
<1>1. /\ p \notin Runtime!Registered /\ Deps[p] \subseteq Runtime!Registered
      /\ gen[p] < MaxGen
    BY DEF Runtime!CanRegister
<1>2. /\ state' \in [Loaded -> States] /\ gen' \in [Loaded -> 0 .. MaxGen]
      /\ \A q \in Loaded : state'[q] # "uninstalled" => gen'[q] # 0
    BY <1>1 DEF RuntimeSound, RuntimeTyped, RuntimeAssumption
<1>3. Runtime!Registered' = Runtime!Registered \cup {p}
    BY DEF RuntimeSound, RuntimeTyped, Runtime!Registered
<1>. QED BY <1>1, <1>2, <1>3, ChangesKeep DEF Runtime!DepsThere, RuntimeSound

LEMMA UninstallKeepsDeps ==
    ASSUME RuntimeAssumption, RuntimeSound, NEW p \in Loaded,
           \A q \in Runtime!Registered : p \notin Deps[q],
           Runtime!Registered' = Runtime!Registered \ {p}
    PROVE  Runtime!DepsThere'
BY DEF RuntimeSound, Runtime!DepsThere

LEMMA SwapKeeps ==
    ASSUME RuntimeAssumption, RuntimeSound, Runtime!SwapEnds
    PROVE  RuntimeSound'
<1> DEFINE p == swap[1]
           s == IF p \in Runtime!Serving THEN Runtime!Moved(state, p, "stopped") ELSE state
<1>1. /\ swap # <<>> /\ swap' = <<>>
      /\ state' = IF s[p] = "stopped" /\ Runtime!CanUninstall(p)
                  THEN [s EXCEPT ![p] = "uninstalled"] ELSE s
      /\ UNCHANGED <<gen, errors, Runtime!loopVars>>
    BY DEF Runtime!SwapEnds, Runtime!loopVars
<1>2. p \in Loaded /\ state \in [Loaded -> States] /\ Runtime!DepsThere
    BY <1>1 DEF RuntimeSound, NewVersionServes, RuntimeTyped
<1>3. /\ s \in [Loaded -> States]
      /\ \A q \in Loaded : s[q] = "uninstalled" <=> state[q] = "uninstalled"
    BY <1>2 DEF Runtime!Moved, Runtime!Serving, States
<1>. HIDE DEF s, p
<1>4. CASE s[p] = "stopped" /\ Runtime!CanUninstall(p)
  <2>1. state' = [s EXCEPT ![p] = "uninstalled"]
      BY <1>1, <1>4
  <2>2. /\ state' \in [Loaded -> States]
        /\ \A q \in Loaded : state'[q] # "uninstalled" => state[q] # "uninstalled"
        /\ Runtime!Registered' = Runtime!Registered \ {p}
      BY <1>2, <1>3, <2>1 DEF States, Runtime!Registered
  <2>3. Runtime!DepsThere'
      BY <1>2, <1>4, <2>2, UninstallKeepsDeps DEF Runtime!CanUninstall
  <2>4. RuntimeTyped' /\ RecordsBounded'
      BY <1>1, <2>2, ChangesKeep DEF RuntimeSound, RuntimeTyped
  <2>. QED BY <1>1, <2>3, <2>4 DEF RuntimeSound, NewVersionServes
<1>5. CASE ~(s[p] = "stopped" /\ Runtime!CanUninstall(p))
  <2>1. state' = s /\ Runtime!Registered' = Runtime!Registered
      BY <1>1, <1>3, <1>5 DEF Runtime!Registered
  <2>2. RuntimeTyped' /\ RecordsBounded'
      BY <1>1, <1>3, <2>1, ChangesKeep DEF RuntimeSound, RuntimeTyped
  <2>. QED BY <1>1, <1>2, <2>1, <2>2 DEF RuntimeSound, NewVersionServes, Runtime!DepsThere
<1>. QED BY <1>4, <1>5

LEMMA RuntimeKept ==
    ASSUME RuntimeAssumption, RuntimeSound, [Runtime!Next]_Runtime!vars
    PROVE  RuntimeSound'
<1>1. CASE UNCHANGED Runtime!vars
    BY <1>1 DEF Runtime!vars, RuntimeSound, RuntimeTyped, RecordsBounded, Waiting, MostErrors,
       NewVersionServes, Runtime!DepsThere, Runtime!Registered
<1>2. ASSUME NEW p \in Loaded, Runtime!Register(p)
      PROVE  RuntimeSound'
  <2>1. RuntimeTyped' /\ RecordsBounded' /\ Runtime!DepsThere'
      BY <1>2, RegisterKeeps DEF Runtime!Register, States
  <2>. QED BY <1>2, <2>1 DEF Runtime!Register, RuntimeSound, NewVersionServes
<1>3. ASSUME NEW p \in Loaded, Runtime!Uninstall(p)
      PROVE  RuntimeSound'
  <2>1. /\ state' = [state EXCEPT ![p] = "uninstalled"]
        /\ UNCHANGED <<gen, errors, Runtime!loopVars, swap>> /\ quiet' = FALSE
        /\ \A q \in Runtime!Registered : p \notin Deps[q]
      BY <1>3 DEF Runtime!Uninstall, Runtime!CanUninstall
  <2>2. /\ state' \in [Loaded -> States] /\ gen' \in [Loaded -> 0 .. MaxGen]
        /\ \A q \in Loaded : state'[q] # "uninstalled" => gen'[q] # 0
        /\ Runtime!Registered' = Runtime!Registered \ {p}
      BY <2>1 DEF RuntimeSound, RuntimeTyped, States, Runtime!Registered
  <2>3. RuntimeTyped' /\ RecordsBounded' /\ Runtime!DepsThere'
      BY <2>1, <2>2, ChangesKeep, UninstallKeepsDeps
  <2>. QED BY <2>1, <2>3 DEF RuntimeSound, NewVersionServes
<1>4. ASSUME NEW p \in Loaded, NEW to \in States, Runtime!Transition(p, to)
      PROVE  RuntimeSound'
  <2>1. /\ state' = [state EXCEPT ![p] = to] /\ p \in Runtime!Registered
        /\ to # "uninstalled" /\ quiet' = FALSE
        /\ UNCHANGED <<gen, errors, Runtime!loopVars, swap>>
      BY <1>4 DEF Runtime!Transition, Runtime!Moved
  <2>2. /\ state' \in [Loaded -> States] /\ gen' \in [Loaded -> 0 .. MaxGen]
        /\ \A q \in Loaded : state'[q] # "uninstalled" => gen'[q] # 0
        /\ Runtime!Registered' = Runtime!Registered
      BY <2>1 DEF RuntimeSound, RuntimeTyped, Runtime!Registered
  <2>3. RuntimeTyped' /\ RecordsBounded'
      BY <2>1, <2>2, ChangesKeep
  <2>. QED BY <2>1, <2>2, <2>3 DEF RuntimeSound, NewVersionServes, Runtime!DepsThere
<1>5. ASSUME NEW p \in Loaded, Runtime!Cools(p)
      PROVE  RuntimeSound'
  <2>1. UNCHANGED <<state, gen, errors, waitsFor, visited, swap, quiet>>
      BY <1>5 DEF Runtime!Cools, Runtime!loopVars
  <2>. QED BY <2>1 DEF RuntimeSound, RuntimeTyped, RecordsBounded, Waiting, MostErrors,
               NewVersionServes, Runtime!DepsThere, Runtime!Registered
<1>6. ASSUME NEW p \in Loaded, NEW q \in Loaded, Runtime!SwapBegins(p, q)
      PROVE  RuntimeSound'
  <2>1. /\ state' = [state EXCEPT ![q] = "running"] /\ gen' = [gen EXCEPT ![q] = @ + 1]
        /\ UNCHANGED <<errors, Runtime!loopVars>> /\ Runtime!CanRegister(q)
        /\ swap' = <<p, q>>
      BY <1>6 DEF Runtime!SwapBegins
  <2>2. RuntimeTyped' /\ RecordsBounded' /\ Runtime!DepsThere'
      BY <2>1, RegisterKeeps DEF States
  <2>3. state'[q] \in Up
      BY <2>1 DEF RuntimeSound, RuntimeTyped, Up
  <2>. QED BY <2>1, <2>2, <2>3 DEF RuntimeSound, NewVersionServes
<1>. QED BY <1>1, <1>2, <1>3, <1>4, <1>5, <1>6, InvokesKeep, SwapKeeps, TransitionTable
         DEF Runtime!Next

LEMMA CallersNumber == \A S : Runtime!Cardinality(S) = Cardinality(S)
BY DEF Runtime!Cardinality, Cardinality

\* PluginRuntime, for any plugins, callers and thresholds: whatever overlaps, the
\* dependencies of a registered plugin are registered, a record collects no more errors
\* than the threshold and one for each other caller, and a hot swap leaves no gap.
THEOREM RuntimeStaysSound ==
    ASSUME RuntimeAssumption
    PROVE  Runtime!Spec => [](/\ Runtime!TypeOK /\ Runtime!DepsThere
                              /\ Runtime!BreakerBounds /\ Runtime!SwapLeavesNoGap)
<1>1. Runtime!Init => RuntimeSound
  <2> SUFFICES ASSUME Runtime!Init PROVE RuntimeSound
      OBVIOUS
  <2> USE DEF Runtime!Init
  <2>1. RuntimeTyped
      BY DEF RuntimeTyped, States, RuntimeAssumption
  <2>2. ASSUME NEW p \in Loaded, NEW g \in Runtime!Gen
        PROVE  errors[p][g] + Cardinality(Waiting(p, g)) <= MostErrors
    <3>1. <<p, g>> # Nobody
        BY DEF RuntimeAssumption
    <3>2. Waiting(p, g) = {}
        BY <3>1 DEF Waiting
    <3>. QED BY <3>2, FS_EmptySet, FS_CardinalityType DEF MostErrors, RuntimeAssumption
  <2>3. NewVersionServes /\ Runtime!DepsThere
      BY DEF NewVersionServes, Runtime!DepsThere, Runtime!Registered
  <2>. QED BY <2>1, <2>2, <2>3 DEF RuntimeSound, RecordsBounded
<1>2. RuntimeSound /\ [Runtime!Next]_Runtime!vars => RuntimeSound'
    BY RuntimeKept
<1>3. RuntimeSound => /\ Runtime!TypeOK /\ Runtime!DepsThere
                      /\ Runtime!BreakerBounds /\ Runtime!SwapLeavesNoGap
  <2> SUFFICES ASSUME RuntimeSound PROVE /\ Runtime!TypeOK /\ Runtime!DepsThere
                      /\ Runtime!BreakerBounds /\ Runtime!SwapLeavesNoGap
      OBVIOUS
  <2>1. Runtime!TypeOK /\ Runtime!DepsThere
      BY TransitionTable DEF RuntimeSound, RuntimeTyped, Runtime!TypeOK
  <2>2. ASSUME NEW p \in Loaded, NEW g \in Runtime!Gen
        PROVE  errors[p][g] < Threshold + Runtime!Cardinality(Caller)
    <3>1. Cardinality(Waiting(p, g)) \in Nat /\ Cardinality(Caller) \in Nat
        BY FS_Subset, FS_CardinalityType DEF RuntimeAssumption, Waiting
    <3>2. errors[p][g] \in Nat /\ errors[p][g] + Cardinality(Waiting(p, g)) <= MostErrors
        BY DEF RuntimeSound, RuntimeTyped, RecordsBounded
    <3>. QED BY <3>1, <3>2, CallersNumber DEF MostErrors, RuntimeAssumption
  <2>3. Runtime!SwapLeavesNoGap
      BY DEF RuntimeSound, NewVersionServes, Runtime!SwapLeavesNoGap, Runtime!Serving, Up
  <2>. QED BY <2>1, <2>2, <2>3 DEF Runtime!BreakerBounds
<1>. QED BY <1>1, <1>2, <1>3, PTL DEF Runtime!Spec

-----------------------------------------------------------------------------
(* NodeSync.                                                               *)

SyncAssumption ==
    /\ Peers \in [Node -> SUBSET Node] /\ Rank \in [Node -> Nat]
    /\ MaxPublish \in Nat /\ DefaultTTL \in Nat /\ SeenCacheSize \in Nat
    /\ None \notin [c : Nat, v : Nat, id : Id]

Entry == [c : Nat, v : Nat, id : Id]
Envelope == [id : Id, c : Nat, ttl : 1 .. DefaultTTL]
Message ==
    {m \in [env : Envelope, to : Node, from : Node, twice : BOOLEAN] : m.to \in Peers[m.from]}
Publication == [at : {"idle", "signing", "spreading"}, c : Nat]
Snapshot ==
    [at : {"idle", "checksums", "hash", "taken"}, c : Nat, entry : Entry \cup {None}, pos : Nat]

SyncTyped ==
    /\ clock \in [Node -> Nat] /\ store \in [Node -> Entry \cup {None}]
    /\ log \in [Node -> Seq(Nat)]
    /\ seen \in [Node -> Seq(Id)] /\ \A n \in Node : Len(seen[n]) <= SeenCacheSize
    /\ inbox \in [Node -> SUBSET Message] /\ net \in SUBSET Message
    /\ pub \in [Node -> Publication] /\ published \in [Node -> 0 .. MaxPublish]
    /\ \A n \in Node : pub[n].at # "idle" => published[n] > 0
    /\ snap \in [Node -> Snapshot] /\ \A n \in Node : snap[n].pos <= Len(log[n])
    /\ got \in [Node -> SUBSET Entry] /\ taken \in [Node -> [Id -> Nat]]
    /\ evicted \in [Node -> BOOLEAN] /\ recovered \in [Node -> BOOLEAN]

\* Its author has handed a message on.
Sent(i) ==
    IF pub[i[1]].at = "idle" THEN i[2] <= published[i[1]] ELSE i[2] < published[i[1]]
OnlySent ==
    /\ \A m \in net : Sent(m.env.id)
    /\ \A n \in Node : \A m \in inbox[n] : Sent(m.env.id)
    /\ \A n \in Node, i \in Id : taken[n][i] > 0 => Sent(i)

\* What a node took for new it remembers, until it drops a message from its cache.
Remembered ==
    \A n \in Node, i \in Id : ~evicted[n] =>
        taken[n][i] <= 1 /\ (taken[n][i] = 1 => i \in ToSet(seen[n]))

\* The clock is past what the store holds and what is being signed.
ClockAhead ==
    \A n \in Node : ~recovered[n] =>
        /\ store[n] # None => store[n].c <= clock[n]
        /\ pub[n].at = "signing" => pub[n].c <= clock[n]

\* A listener has the best of what it got, and a snapshot of some of it.
HasBest(n) ==
    \/ got[n] = {} /\ store[n] = None
    \/ store[n] \in got[n] /\ \A e \in got[n] : Resolve(store[n], e) = store[n]
BestStored ==
    \A n \in Node : Wired /\ published[n] = 0 =>
        HasBest(n) /\ snap[n].entry \in got[n] \cup {None}

SyncSound == SyncTyped /\ OnlySent /\ Remembered /\ ClockAhead /\ BestStored

\* LamportClock.merge goes past both clocks.
LEMMA AdvancedIsPast ==
    ASSUME NEW x \in Nat, NEW y \in Nat
    PROVE  Advanced(x, y) \in Nat /\ Advanced(x, y) > x /\ Advanced(x, y) > y
<1>1. \E z \in {x, y} : \A w \in {x, y} : z >= w
  <2>1. CASE x >= y
      BY <2>1
  <2>2. CASE y >= x
      BY <2>2
  <2>. QED BY <2>1, <2>2
<1>2. Max({x, y}) \in {x, y} /\ \A w \in {x, y} : Max({x, y}) >= w
    BY <1>1 DEF Max
<1>. QED BY <1>2 DEF Advanced

LEMMA LeastNatural ==
    ASSUME NEW T \in SUBSET Nat, T # {}
    PROVE  \E x \in T : \A y \in T : x <= y
<1>1. \E x \in T : \A y \in T : ~(<<y, x>> \in OpToRel(<, Nat))
    BY NatLessThanWellFounded, WFMin
<1>2. ASSUME NEW x \in Nat, NEW y \in Nat, y < x
      PROVE  <<y, x>> \in OpToRel(<, Nat)
    BY <1>2, Zenon DEF OpToRel
<1>3. \E x \in T : \A y \in T : ~(y < x)
    BY <1>1, <1>2, Zenon
<1>. QED BY <1>3

\* Resolve picks the later of two entries in one order of all entries.
Later(a, b) ==
    \/ a.c > b.c
    \/ a.c = b.c /\ a.v > b.v
    \/ a.c = b.c /\ a.v = b.v /\ Rank[a.id[1]] > Rank[b.id[1]]

LEMMA ResolvePicksLater ==
    ASSUME SyncAssumption, NEW x \in Entry, NEW y \in Entry
    PROVE  /\ Resolve(x, y) = IF Later(y, x) THEN y ELSE x
           /\ Resolve(x, x) = x
           /\ Resolve(x, y) \in {x, y} /\ Resolve(x, y) \in Entry
BY DEF Resolve, Later

LEMMA NotLaterThanBest ==
    ASSUME SyncAssumption, NEW x \in Entry, NEW y \in Entry, NEW z \in Entry,
           ~Later(z, x), Later(y, x)
    PROVE  ~Later(z, y)
<1>1. /\ x.c \in Nat /\ y.c \in Nat /\ z.c \in Nat /\ x.v \in Nat /\ y.v \in Nat /\ z.v \in Nat
      /\ x.id \in Id /\ y.id \in Id /\ z.id \in Id
    BY DEF Entry
<1>2. Rank[x.id[1]] \in Nat /\ Rank[y.id[1]] \in Nat /\ Rank[z.id[1]] \in Nat
    BY <1>1 DEF SyncAssumption, Id
<1>. QED BY <1>1, <1>2 DEF Later

\* _handleGossipData keeps the best; merging what is there already changes nothing.
LEMMA MergeKeepsBest ==
    ASSUME SyncAssumption, NEW s \in Entry \cup {None}, NEW G \in SUBSET Entry, NEW e \in Entry,
           \/ G = {} /\ s = None
           \/ s \in G /\ \A f \in G : Resolve(s, f) = s,
           NEW t, t = IF s = None THEN e ELSE Resolve(s, e)
    PROVE  /\ t \in G \cup {e} /\ \A f \in G \cup {e} : Resolve(t, f) = t
           /\ e \in G => t = s
<1>0. None \notin Entry
    BY DEF SyncAssumption, Entry
<1>1. CASE s = None
    BY <1>0, <1>1, ResolvePicksLater
<1>2. CASE s # None
  <2>1. s \in Entry /\ s \in G /\ \A f \in G : Resolve(s, f) = s
      BY <1>2
  <2>2. CASE Later(e, s)
    <3>1. t = e
        BY <1>2, <2>1, <2>2, ResolvePicksLater
    <3>2. ASSUME NEW f \in G PROVE Resolve(e, f) = e
      <4>1. ~Later(f, s) \/ f = s
          BY <2>1, ResolvePicksLater
      <4>2. CASE ~Later(f, s)
          BY <2>1, <2>2, <4>2, NotLaterThanBest, ResolvePicksLater
      <4>3. CASE f = s
        <5>1. ~Later(s, e)
          <6>1. /\ s.c \in Nat /\ e.c \in Nat /\ s.v \in Nat /\ e.v \in Nat
                /\ s.id \in Id /\ e.id \in Id
              BY <2>1 DEF Entry
          <6>2. Rank[s.id[1]] \in Nat /\ Rank[e.id[1]] \in Nat
              BY <6>1 DEF SyncAssumption, Id
          <6>. QED BY <2>2, <6>1, <6>2 DEF Later
        <5>. QED BY <4>3, <5>1, <2>1, ResolvePicksLater
      <4>. QED BY <4>1, <4>2, <4>3
    <3>3. e \in G => e = s
        BY <2>1, <2>2, ResolvePicksLater
    <3>. QED BY <3>1, <3>2, <3>3, ResolvePicksLater
  <2>3. CASE ~Later(e, s)
    <3>1. t = s /\ Resolve(s, e) = s
        BY <1>2, <2>1, <2>3, ResolvePicksLater
    <3>. QED BY <2>1, <3>1
  <2>. QED BY <2>2, <2>3
<1>. QED BY <1>1, <1>2

\* recover() replays the log to a clock: the recursion is well defined, and stays among
\* the clock values.
LEMMA ReplayedIsClock ==
    ASSUME SyncTyped, NEW n \in Node
    PROVE  Replayed(n) \in Nat
<1> DEFINE L == log[n]
           c0 == snap[n].c
           from == snap[n].pos
           Rec(f, i) == IF i = from THEN c0 ELSE Advanced(f[i - 1], L[i])
           Goes(f, j) == f \in [from .. j -> Nat] /\ \A i \in from .. j : f[i] = Rec(f, i)
           after == CHOOSE f : f = [i \in from .. Len(L) |-> Rec(f, i)]
<1>1. Replayed(n) = after[Len(L)]
    BY DEF Replayed
<1>2. /\ c0 \in Nat /\ from \in Nat /\ Len(L) \in Nat /\ from <= Len(L)
      /\ \A i \in from + 1 .. Len(L) : L[i] \in Nat
    BY DEF SyncTyped, Snapshot
<1>. HIDE DEF L, c0, from
<1>3. ASSUME NEW j \in from .. Len(L)
      PROVE  \E f : Goes(f, j)
  <2> DEFINE Stuck == {i \in from .. Len(L) : ~\E f : Goes(f, i)}
  <2>1. SUFFICES ASSUME Stuck # {} PROVE FALSE
      OBVIOUS
  <2>2. Stuck \in SUBSET Nat
      BY <1>2
  <2>3. PICK k \in Stuck : \A i \in Stuck : k <= i
      BY <2>1, <2>2, LeastNatural
  <2>4. k \in from .. Len(L) /\ ~\E f : Goes(f, k)
      OBVIOUS
  <2>. HIDE DEF Stuck
  <2>5. CASE k = from
    <3>1. Goes([i \in from .. k |-> c0], k)
        BY <1>2, <2>5
    <3>. QED BY <2>4, <3>1
  <2>6. CASE k # from
    <3>1. k - 1 \in from .. Len(L) /\ k - 1 \notin Stuck
        BY <1>2, <2>3, <2>4, <2>6
    <3>2. PICK g : Goes(g, k - 1)
        BY <3>1 DEF Stuck
    <3> DEFINE h == [i \in from .. k |-> IF i = k THEN Advanced(g[k - 1], L[k]) ELSE g[i]]
    <3>3. Advanced(g[k - 1], L[k]) \in Nat
      <4>1. k \in from + 1 .. Len(L) /\ k - 1 \in from .. k - 1
          BY <1>2, <2>4, <2>6
      <4>2. L[k] \in Nat /\ g[k - 1] \in Nat
          BY <1>2, <3>2, <4>1
      <4>. QED BY <4>2, AdvancedIsPast
    <3>4. h \in [from .. k -> Nat]
        BY <1>2, <2>4, <3>2, <3>3
    <3>5. ASSUME NEW i \in from .. k PROVE h[i] = Rec(h, i)
      <4>1. CASE i = k
          BY <1>2, <2>4, <2>6, <4>1
      <4>2. CASE i # k
        <5>1. i \in from .. k - 1 /\ (i # from => i - 1 \in from .. k - 1)
            BY <1>2, <2>4, <4>2
        <5>. QED BY <1>2, <2>4, <3>2, <4>2, <5>1
      <4>. QED BY <4>1, <4>2
    <3>. QED BY <2>4, <3>4, <3>5
  <2>. QED BY <2>5, <2>6
<1>4. PICK f : Goes(f, Len(L))
    BY <1>2, <1>3
<1>5. f = [i \in from .. Len(L) |-> Rec(f, i)]
    BY <1>4
<1>6. after = [i \in from .. Len(L) |-> Rec(after, i)]
    BY <1>5
<1>. HIDE DEF after
<1>7. ASSUME NEW j \in from .. Len(L)
      PROVE  after[j] \in Nat
  <2> DEFINE Odd == {i \in from .. Len(L) : after[i] \notin Nat}
  <2>1. SUFFICES ASSUME Odd # {} PROVE FALSE
      OBVIOUS
  <2>2. Odd \in SUBSET Nat
      BY <1>2
  <2>3. PICK k \in Odd : \A i \in Odd : k <= i
      BY <2>1, <2>2, LeastNatural
  <2>4. k \in from .. Len(L) /\ after[k] = Rec(after, k) /\ after[k] \notin Nat
      BY <1>6
  <2>5. CASE k = from
      BY <1>2, <2>4, <2>5
  <2>6. CASE k # from
    <3>1. k - 1 \in from .. Len(L) /\ after[k - 1] \in Nat
        BY <1>2, <2>3, <2>4, <2>6
    <3>2. k \in from + 1 .. Len(L)
        BY <1>2, <2>4, <2>6
    <3>3. L[k] \in Nat
        BY <1>2, <3>2
    <3>. QED BY <2>4, <2>6, <3>1, <3>3, AdvancedIsPast
  <2>. QED BY <2>5, <2>6
<1>. QED BY <1>1, <1>2, <1>7

\* _fanout sends what it is given to peers of the node, unless the TTL is used up.
LEMMA FanoutSends ==
    ASSUME SyncAssumption, NEW n \in Node, NEW e, NEW X, NEW sends \in FanoutOf(n, e, X),
           e.id \in Id, e.c \in Nat, e.ttl \in 0 .. DefaultTTL,
           e = [id |-> e.id, c |-> e.c, ttl |-> e.ttl]
    PROVE  sends \in SUBSET Message /\ \A m \in sends : m.env = e
<1>1. CASE e.ttl = 0
    BY <1>1 DEF FanoutOf
<1>2. CASE e.ttl # 0
  <2>0. ~(e.ttl <= 0)
      BY <1>2
  <2>1. \A m \in sends : \E p \in Peers[n] \ X, t \in BOOLEAN :
           m = [env |-> e, to |-> p, from |-> n, twice |-> t]
    <3> DEFINE some == kSubset(Min({Fanout, Cardinality(Peers[n] \ X)}), Peers[n] \ X)
               flags == IF Duplicates THEN BOOLEAN ELSE {FALSE}
               all == {{[env |-> e, to |-> p, from |-> n, twice |-> t] : p \in S} :
                        S \in some, t \in flags}
    <3>0. FanoutOf(n, e, X) = IF e.ttl <= 0 THEN {{}} ELSE all
        BY DEF FanoutOf
    <3>. HIDE DEF all
    <3>1. sends \in all
        BY <2>0, <3>0
    <3>2. some \subseteq SUBSET (Peers[n] \ X) /\ flags \subseteq BOOLEAN
        BY DEF kSubset
    <3>. HIDE DEF some, flags
    <3>3. \E S \in some, t \in flags :
             sends = {[env |-> e, to |-> p, from |-> n, twice |-> t] : p \in S}
        BY <3>1 DEF all
    <3>. QED BY <3>2, <3>3
  <2>2. e \in Envelope
      BY <1>2 DEF Envelope
  <2>3. \A p \in Peers[n] : p \in Node
      BY DEF SyncAssumption
  <2>. QED BY <2>1, <2>2, <2>3 DEF Message
<1>. QED BY <1>1, <1>2

\* The cache of seen messages takes the new one, and forgets one only if it is full.
LEMMA MarkRemembers ==
    ASSUME SyncAssumption, SyncTyped, NEW n \in Node, NEW i \in Id, Mark(n, i)
    PROVE  /\ seen' \in [Node -> Seq(Id)] /\ \A k \in Node : Len(seen'[k]) <= SeenCacheSize
           /\ evicted' \in [Node -> BOOLEAN]
           /\ \A k \in Node \ {n} : seen'[k] = seen[k] /\ evicted'[k] = evicted[k]
           /\ ~evicted'[n] => ~evicted[n] /\ ToSet(seen'[n]) = ToSet(seen[n]) \cup {i}
<1> DEFINE s == seen[n]
<1>1. /\ s \in Seq(Id) /\ Len(s) \in Nat /\ Len(s) <= SeenCacheSize /\ SeenCacheSize \in Nat
    BY DEF SyncTyped, SyncAssumption
<1>2. seen' = [seen EXCEPT ![n] = Remember(s, i)]
    BY DEF Mark
<1>3. /\ evicted' \in [Node -> BOOLEAN] /\ \A k \in Node \ {n} : evicted'[k] = evicted[k]
      /\ ~evicted'[n] => ~evicted[n] /\ Len(s) # SeenCacheSize
    BY Zenon DEF Mark, SyncTyped
<1>. HIDE DEF s
<1>4. /\ Append(s, i) \in Seq(Id) /\ Len(Append(s, i)) = Len(s) + 1
      /\ Tail(Append(s, i)) \in Seq(Id) /\ Len(Tail(Append(s, i))) = Len(s)
    BY <1>1
<1>5. Remember(s, i) \in Seq(Id) /\ Len(Remember(s, i)) <= SeenCacheSize
    BY <1>1, <1>4 DEF Remember
<1>6. Len(s) # SeenCacheSize => ToSet(Remember(s, i)) = ToSet(s) \cup {i}
  <2>1. ToSet(Append(s, i)) = ToSet(s) \cup {i}
    <3>1. /\ DOMAIN s = 1 .. Len(s) /\ DOMAIN Append(s, i) = 1 .. Len(s) + 1
          /\ \A j \in 1 .. Len(s) : Append(s, i)[j] = s[j]
          /\ Append(s, i)[Len(s) + 1] = i
          /\ 1 .. Len(s) + 1 = (1 .. Len(s)) \cup {Len(s) + 1}
        BY <1>1
    <3>2. \A x \in ToSet(Append(s, i)) : x \in ToSet(s) \cup {i}
        BY <3>1 DEF ToSet
    <3>3. \A x \in ToSet(s) : x \in ToSet(Append(s, i))
        BY <3>1 DEF ToSet
    <3>4. i \in ToSet(Append(s, i))
        BY <1>1, <3>1 DEF ToSet
    <3>. QED BY <3>2, <3>3, <3>4
  <2>. QED BY <1>1, <1>4, <2>1 DEF Remember
<1>7. /\ seen' \in [Node -> Seq(Id)] /\ \A k \in Node : Len(seen'[k]) <= SeenCacheSize
      /\ \A k \in Node \ {n} : seen'[k] = seen[k]
      /\ seen'[n] = Remember(s, i)
    BY <1>2, <1>5 DEF SyncTyped
<1>. QED BY <1>3, <1>6, <1>7 DEF s

\* The transport keeps, of a message it delivers, at most the duplicate.
LEMMA DeliveredIsLess ==
    ASSUME SyncTyped, NEW m \in net
    PROVE  /\ Delivered(m) \in SUBSET Message
           /\ \A x \in Delivered(m) : \E y \in net : x.env = y.env
<1>1. m \in Message
    BY DEF SyncTyped
<1>2. m \in [env : Envelope, to : Node, from : Node, twice : BOOLEAN] /\ m.to \in Peers[m.from]
    BY <1>1 DEF Message
<1>3. /\ [m EXCEPT !.twice = FALSE] \in [env : Envelope, to : Node, from : Node, twice : BOOLEAN]
      /\ [m EXCEPT !.twice = FALSE].env = m.env /\ [m EXCEPT !.twice = FALSE].to = m.to
      /\ [m EXCEPT !.twice = FALSE].from = m.from
    BY <1>2
<1>4. [m EXCEPT !.twice = FALSE] \in Message
    BY <1>2, <1>3 DEF Message
<1>. QED BY <1>3, <1>4 DEF Delivered, SyncTyped

LEMMA IdsOfMessages ==
    ASSUME SyncTyped
    PROVE  /\ \A m \in net : m.env.id \in Id
           /\ \A n \in Node : \A m \in inbox[n] : m.env.id \in Id
<1>1. \A m \in Message : m.env.id \in Id
    BY DEF Message, Envelope
<1>. QED BY <1>1 DEF SyncTyped

LEMMA TypesAt ==
    ASSUME SyncTyped, NEW n \in Node
    PROVE  /\ clock[n] \in Nat /\ store[n] \in Entry \cup {None} /\ log[n] \in Seq(Nat)
           /\ published[n] \in Nat /\ published[n] <= MaxPublish /\ taken[n] \in [Id -> Nat]
           /\ pub[n].c \in Nat
           /\ pub[n].at # "idle" => published[n] > 0
           /\ store[n] # None => store[n].c \in Nat
<1>1. /\ clock[n] \in Nat /\ store[n] \in Entry \cup {None} /\ log[n] \in Seq(Nat)
      /\ published[n] \in 0 .. MaxPublish /\ taken[n] \in [Id -> Nat]
      /\ pub[n] \in Publication /\ (pub[n].at # "idle" => published[n] > 0)
    BY DEF SyncTyped
<1>. QED BY <1>1 DEF Publication, Entry

LEMMA PublishKeeps ==
    ASSUME SyncAssumption, SyncSound, NEW n \in Node, Publish(n)
    PROVE  SyncSound'
<1>1. /\ published[n] < MaxPublish /\ pub[n].at = "idle"
      /\ clock' = [clock EXCEPT ![n] = @ + 1]
      /\ pub' = [pub EXCEPT ![n] = [at |-> "signing", c |-> clock[n] + 1]]
      /\ published' = [published EXCEPT ![n] = @ + 1]
      /\ UNCHANGED <<store, log, seen, inbox, net, snap, got, taken, evicted, recovered>>
    BY DEF Publish, Idle
<1>2. clock[n] \in Nat /\ published[n] \in 0 .. MaxPublish
    BY DEF SyncSound, SyncTyped
<1>3. clock' \in [Node -> Nat] /\ \A k \in Node : clock[k] <= clock'[k]
    BY <1>1, <1>2 DEF SyncSound, SyncTyped
<1>4. published' \in [Node -> 0 .. MaxPublish] /\ published'[n] = published[n] + 1
    BY <1>1, <1>2 DEF SyncSound, SyncTyped, SyncAssumption
<1>5. pub' \in [Node -> Publication] /\ pub'[n] = [at |-> "signing", c |-> clock[n] + 1]
    BY <1>1, <1>2 DEF SyncSound, SyncTyped, Publication
<1>6. \A k \in Node \ {n} : pub'[k] = pub[k] /\ published'[k] = published[k]
    BY <1>1 DEF SyncSound, SyncTyped
<1>7. SyncTyped'
    BY <1>1, <1>3, <1>4, <1>5, <1>6 DEF SyncSound, SyncTyped
<1>8. \A i \in Id : Sent(i) => Sent(i)'
    BY <1>1, <1>2, <1>4, <1>5, <1>6 DEF Sent, Id
<1>9. OnlySent'
    BY <1>1, <1>8, IdsOfMessages DEF SyncSound, SyncTyped, OnlySent
<1>10. Remembered'
    BY <1>1 DEF SyncSound, Remembered
<1>11. ClockAhead'
    BY <1>1, <1>2, <1>3, <1>5, <1>6 DEF SyncSound, SyncTyped, ClockAhead, Entry
<1>12. BestStored'
    BY <1>1, <1>2, <1>4, <1>6 DEF SyncSound, BestStored, HasBest
<1>. QED BY <1>7, <1>9, <1>10, <1>11, <1>12 DEF SyncSound

LEMMA PutKeeps ==
    ASSUME SyncAssumption, SyncSound, NEW n \in Node, Put(n)
    PROVE  SyncSound'
<1> DEFINE e == [c |-> pub[n].c, v |-> IF store[n] = None THEN 1 ELSE store[n].v + 1,
                 id |-> <<n, published[n]>>]
<1>1. /\ pub[n].at = "signing" /\ store' = [store EXCEPT ![n] = e]
      /\ log' = [log EXCEPT ![n] = Append(@, pub[n].c)]
      /\ clock' = [clock EXCEPT ![n] = @ + 1]
      /\ pub' = [pub EXCEPT ![n] = [at |-> "spreading", c |-> clock[n] + 1]]
      /\ UNCHANGED <<seen, inbox, net, published, snap, got, taken, evicted, recovered>>
    BY DEF Put
<1>2. /\ clock[n] \in Nat /\ published[n] \in 1 .. MaxPublish /\ pub[n].c \in Nat
      /\ store[n] \in Entry \cup {None} /\ log[n] \in Seq(Nat) /\ published[n] # 0
  <2>1. /\ published[n] \in Nat /\ published[n] > 0 /\ published[n] <= MaxPublish
        /\ clock[n] \in Nat /\ pub[n].c \in Nat /\ store[n] \in Entry \cup {None}
        /\ log[n] \in Seq(Nat)
      BY <1>1, TypesAt DEF SyncSound
  <2>. QED BY <2>1 DEF SyncAssumption
<1>3. e \in Entry
  <2>1. <<n, published[n]>> \in Id
      BY <1>2 DEF Id, SyncAssumption
  <2>2. (IF store[n] = None THEN 1 ELSE store[n].v + 1) \in Nat
      BY <1>2 DEF Entry
  <2>. QED BY <1>2, <2>1, <2>2 DEF Entry
<1>4. e.c = pub[n].c
    OBVIOUS
<1>. HIDE DEF e
<1>5. clock' \in [Node -> Nat] /\ clock'[n] = clock[n] + 1 /\ \A k \in Node \ {n} : clock'[k] = clock[k]
    BY <1>1, <1>2 DEF SyncSound, SyncTyped
<1>6. /\ store' \in [Node -> Entry \cup {None}] /\ store'[n] = e
      /\ \A k \in Node \ {n} : store'[k] = store[k]
    BY <1>1, <1>3 DEF SyncSound, SyncTyped
<1>7. log' \in [Node -> Seq(Nat)] /\ \A k \in Node : Len(log[k]) <= Len(log'[k])
    BY <1>1, <1>2 DEF SyncSound, SyncTyped
<1>8. /\ pub' \in [Node -> Publication] /\ pub'[n].at = "spreading"
      /\ \A k \in Node \ {n} : pub'[k] = pub[k]
    BY <1>1, <1>2 DEF SyncSound, SyncTyped, Publication
<1>9. SyncTyped'
  <2>1. \A k \in Node : snap'[k].pos <= Len(log'[k])
      BY <1>1, <1>7 DEF SyncSound, SyncTyped, Snapshot
  <2>2. \A k \in Node : pub'[k].at # "idle" => published'[k] > 0
      BY <1>1, <1>2, <1>8 DEF SyncSound, SyncTyped
  <2>. QED BY <1>1, <1>5, <1>6, <1>7, <1>8, <2>1, <2>2 DEF SyncSound, SyncTyped
<1>10. \A i \in Id : Sent(i) => Sent(i)'
    BY <1>1, <1>8 DEF Sent, Id
<1>11. OnlySent'
    BY <1>1, <1>10, IdsOfMessages DEF SyncSound, OnlySent
<1>12. Remembered'
    BY <1>1 DEF SyncSound, Remembered
<1>13. ClockAhead'
    BY <1>1, <1>2, <1>4, <1>5, <1>6, <1>8 DEF SyncSound, ClockAhead
<1>14. BestStored'
    BY <1>1, <1>2, <1>6 DEF SyncSound, BestStored, HasBest
<1>. QED BY <1>9, <1>11, <1>12, <1>13, <1>14 DEF SyncSound

LEMMA SpreadKeeps ==
    ASSUME SyncAssumption, SyncSound, NEW n \in Node, Spread(n)
    PROVE  SyncSound'
<1>0. /\ published[n] \in Nat /\ published[n] > 0 /\ published[n] <= MaxPublish
      /\ pub[n].at = "spreading" /\ pub[n].c \in Nat /\ taken[n] \in [Id -> Nat]
    BY TypesAt DEF SyncSound, Spread
<1>3. PICK i \in Id : i = <<n, published[n]>>
  <2>1. published[n] \in 1 .. MaxPublish
      BY <1>0 DEF SyncAssumption
  <2>. QED BY <2>1 DEF Id
<1>. DEFINE e == [id |-> i, c |-> pub[n].c, ttl |-> DefaultTTL]
<1>1. /\ Mark(n, i) /\ taken' = [taken EXCEPT ![n][i] = @ + 1]
      /\ pub' = [pub EXCEPT ![n] = Idle]
      /\ UNCHANGED <<clock, store, log, inbox, published, snap, got, recovered>>
    BY <1>3 DEF Spread
<1>2. PICK sends \in FanoutOf(n, e, {n}) : net' = net \cup sends
    BY <1>3 DEF Spread
<1>4. i[1] = n /\ i[2] = published[n]
    BY <1>3
<1>5. sends \in SUBSET Message /\ \A m \in sends : m.env.id = i
  <2>1. /\ e.id = i /\ e.c = pub[n].c /\ e.ttl = DefaultTTL /\ DefaultTTL \in 0 .. DefaultTTL
        /\ e = [id |-> e.id, c |-> e.c, ttl |-> e.ttl]
      BY DEF SyncAssumption
  <2>. HIDE DEF e
  <2>. QED BY <1>0, <1>2, <2>1, FanoutSends
<1>6. ~Sent(i) /\ taken[n][i] = 0
  <2>1. ~Sent(i)
      BY <1>0, <1>4 DEF Sent
  <2>. QED BY <1>0, <2>1 DEF SyncSound, OnlySent
<1>7. /\ pub' \in [Node -> Publication] /\ pub'[n].at = "idle"
      /\ \A k \in Node \ {n} : pub'[k] = pub[k]
    BY <1>1 DEF SyncSound, SyncTyped, Publication, Idle
<1>8. /\ taken' \in [Node -> [Id -> Nat]] /\ taken'[n][i] = 1
      /\ \A k \in Node, j \in Id : k # n \/ j # i => taken'[k][j] = taken[k][j]
    BY <1>0, <1>1, <1>6 DEF SyncSound, SyncTyped
<1>9. /\ seen' \in [Node -> Seq(Id)] /\ \A k \in Node : Len(seen'[k]) <= SeenCacheSize
      /\ evicted' \in [Node -> BOOLEAN]
      /\ \A k \in Node \ {n} : seen'[k] = seen[k] /\ evicted'[k] = evicted[k]
      /\ ~evicted'[n] => ~evicted[n] /\ ToSet(seen'[n]) = ToSet(seen[n]) \cup {i}
    BY <1>1, MarkRemembers DEF SyncSound
<1>10. SyncTyped'
  <2>1. net' \in SUBSET Message
      BY <1>2, <1>5 DEF SyncSound, SyncTyped
  <2>2. \A k \in Node : pub'[k].at # "idle" => published'[k] > 0
      BY <1>1, <1>7 DEF SyncSound, SyncTyped
  <2>. QED BY <1>1, <1>7, <1>8, <1>9, <2>1, <2>2 DEF SyncSound, SyncTyped
<1>11. Sent(i)' /\ \A j \in Id : Sent(j) => Sent(j)'
  <2>1. Sent(i)'
      BY <1>0, <1>1, <1>4, <1>7 DEF Sent
  <2>2. ASSUME NEW j \in Id, Sent(j) PROVE Sent(j)'
    <3>1. j[1] \in Node /\ j[2] \in Int
        BY DEF Id
    <3>2. j[1] = n => j[2] < published[n]
        BY <1>0, <2>2 DEF Sent
    <3>. QED BY <1>0, <1>1, <1>7, <2>2, <3>1, <3>2 DEF Sent
  <2>. QED BY <2>1, <2>2
<1>12. OnlySent'
  <2>1. \A m \in net' : Sent(m.env.id)'
      BY <1>2, <1>5, <1>11, IdsOfMessages DEF SyncSound, OnlySent
  <2>2. \A k \in Node : \A m \in inbox'[k] : Sent(m.env.id)'
      BY <1>1, <1>11, IdsOfMessages DEF SyncSound, OnlySent
  <2>3. \A k \in Node, j \in Id : taken'[k][j] > 0 => Sent(j)'
      BY <1>8, <1>11 DEF SyncSound, OnlySent
  <2>. QED BY <2>1, <2>2, <2>3 DEF OnlySent
<1>13. Remembered'
  <2>1. ASSUME NEW k \in Node, NEW j \in Id, ~evicted'[k]
        PROVE  taken'[k][j] <= 1 /\ (taken'[k][j] = 1 => j \in ToSet(seen'[k]))
    <3>1. CASE k = n /\ j = i
        BY <1>8, <1>9, <2>1, <3>1
    <3>2. CASE k # n \/ j # i
      <4>1. taken'[k][j] = taken[k][j] /\ ~evicted[k] /\ ToSet(seen[k]) \subseteq ToSet(seen'[k])
          BY <1>8, <1>9, <2>1, <3>2
      <4>. QED BY <4>1 DEF SyncSound, Remembered
    <3>. QED BY <3>1, <3>2
  <2>. QED BY <2>1 DEF Remembered
<1>14. ClockAhead'
    BY <1>1, <1>7 DEF SyncSound, ClockAhead
<1>15. BestStored'
    BY <1>1 DEF SyncSound, BestStored, HasBest
<1>. QED BY <1>10, <1>12, <1>13, <1>14, <1>15 DEF SyncSound

LEMMA ReceiveKeeps ==
    ASSUME SyncAssumption, SyncSound, NEW m \in net, Receive(m)
    PROVE  SyncSound'
<1> DEFINE n == m.to
           i == m.env.id
<1>1. /\ m \in Message /\ n \in Node /\ i \in Id /\ m.env.c \in Nat
    BY DEF SyncSound, SyncTyped, Message, Envelope
<1>2. /\ net' = Delivered(m)
      /\ UNCHANGED <<store, log, pub, published, snap, got, recovered>>
    BY DEF Receive
<1>3. net' \in SUBSET Message /\ \A x \in net' : \E y \in net : x.env = y.env
    BY <1>2, DeliveredIsLess DEF SyncSound
<1>4. \A j : Sent(j)' <=> Sent(j)
    BY <1>2 DEF Sent
<1>5. \A x \in net' : Sent(x.env.id)'
    BY <1>3, <1>4 DEF SyncSound, OnlySent
<1>6. BestStored'
    BY <1>2 DEF SyncSound, BestStored, HasBest
<1>7. CASE UNCHANGED <<seen, evicted, clock, inbox, taken>>
  <2>1. SyncTyped'
      BY <1>2, <1>3, <1>7 DEF SyncSound, SyncTyped
  <2>2. OnlySent' /\ Remembered' /\ ClockAhead'
      BY <1>2, <1>4, <1>5, <1>7 DEF SyncSound, OnlySent, Remembered, ClockAhead
  <2>. QED BY <1>6, <2>1, <2>2 DEF SyncSound
<1>8. CASE ~UNCHANGED <<seen, evicted, clock, inbox, taken>>
  <2>1. /\ ~Contains(seen[n], i) /\ Mark(n, i)
        /\ clock' = [clock EXCEPT ![n] = Advanced(@, m.env.c)]
        /\ inbox' = [inbox EXCEPT ![n] = @ \cup {m}]
        /\ taken' = [taken EXCEPT ![n][i] = @ + 1]
      BY <1>8 DEF Receive
  <2>. HIDE DEF n, i
  <2>2. i \notin ToSet(seen[n])
      BY <1>1, <2>1 DEF Contains, ToSet, SyncSound, SyncTyped
  <2>3. clock' \in [Node -> Nat] /\ \A k \in Node : clock[k] <= clock'[k]
    <3>1. clock[n] \in Nat
        BY <1>1 DEF SyncSound, SyncTyped
    <3>2. Advanced(clock[n], m.env.c) \in Nat /\ Advanced(clock[n], m.env.c) > clock[n]
        BY <1>1, <3>1, AdvancedIsPast
    <3>. QED BY <1>1, <2>1, <3>1, <3>2 DEF SyncSound, SyncTyped
  <2>4. /\ inbox' \in [Node -> SUBSET Message]
        /\ \A k \in Node : inbox'[k] \subseteq inbox[k] \cup {m}
      BY <1>1, <2>1 DEF SyncSound, SyncTyped
  <2>5. /\ taken' \in [Node -> [Id -> Nat]] /\ taken'[n][i] = taken[n][i] + 1
        /\ \A k \in Node, j \in Id : k # n \/ j # i => taken'[k][j] = taken[k][j]
      BY <1>1, <2>1 DEF SyncSound, SyncTyped
  <2>6. /\ seen' \in [Node -> Seq(Id)] /\ \A k \in Node : Len(seen'[k]) <= SeenCacheSize
        /\ evicted' \in [Node -> BOOLEAN]
        /\ \A k \in Node \ {n} : seen'[k] = seen[k] /\ evicted'[k] = evicted[k]
        /\ ~evicted'[n] => ~evicted[n] /\ ToSet(seen'[n]) = ToSet(seen[n]) \cup {i}
      BY <1>1, <2>1, MarkRemembers DEF SyncSound
  <2>7. SyncTyped'
      BY <1>2, <1>3, <2>3, <2>4, <2>5, <2>6 DEF SyncSound, SyncTyped
  <2>8. Sent(i)
      BY DEF SyncSound, OnlySent, i
  <2>9. OnlySent'
    <3>1. \A k \in Node : \A x \in inbox'[k] : Sent(x.env.id)'
        BY <1>4, <2>4, <2>8 DEF SyncSound, OnlySent, i
    <3>2. \A k \in Node, j \in Id : taken'[k][j] > 0 => Sent(j)'
        BY <1>4, <2>5, <2>8 DEF SyncSound, OnlySent
    <3>. QED BY <1>5, <3>1, <3>2 DEF OnlySent
  <2>10. taken[n][i] \in Nat /\ (~evicted[n] => taken[n][i] = 0)
    <3>1. taken[n][i] \in Nat
        BY <1>1, TypesAt DEF SyncSound
    <3>. QED BY <1>1, <2>2, <3>1 DEF SyncSound, Remembered
  <2>11. Remembered'
    <3>1. ASSUME NEW k \in Node, NEW j \in Id, ~evicted'[k]
          PROVE  taken'[k][j] <= 1 /\ (taken'[k][j] = 1 => j \in ToSet(seen'[k]))
      <4>1. CASE k = n /\ j = i
          BY <2>5, <2>6, <2>10, <3>1, <4>1
      <4>2. CASE k # n \/ j # i
        <5>1. /\ taken'[k][j] = taken[k][j] /\ ~evicted[k]
              /\ ToSet(seen[k]) \subseteq ToSet(seen'[k])
            BY <2>5, <2>6, <3>1, <4>2
        <5>. QED BY <5>1 DEF SyncSound, Remembered
      <4>. QED BY <4>1, <4>2
    <3>. QED BY <3>1 DEF Remembered
  <2>12. ClockAhead'
    <3>1. \A k \in Node : /\ clock[k] \in Nat /\ clock'[k] \in Nat
                          /\ store[k] # None => store[k].c \in Nat
                          /\ pub[k].c \in Nat
        BY <2>3 DEF SyncSound, SyncTyped, Entry, Publication
    <3>. QED BY <1>2, <2>3, <3>1 DEF SyncSound, ClockAhead
  <2>. QED BY <1>6, <2>7, <2>9, <2>11, <2>12 DEF SyncSound
<1>. QED BY <1>7, <1>8

LEMMA HandleKeeps ==
    ASSUME SyncAssumption, SyncSound, NEW k \in Node, NEW m \in inbox[k], Handle(m)
    PROVE  SyncSound'
<1> DEFINE n == m.to
           e == [c |-> m.env.c, v |-> 1, id |-> m.env.id]
           next == [m.env EXCEPT !.ttl = @ - 1]
<1>1. /\ m \in Message /\ n \in Node /\ m.env \in Envelope
      /\ m.env.id \in Id /\ m.env.c \in Nat /\ m.env.ttl \in 1 .. DefaultTTL
      /\ Sent(m.env.id)
  <2>1. m \in Message /\ Sent(m.env.id)
      BY DEF SyncSound, SyncTyped, OnlySent
  <2>. QED BY <2>1 DEF Message, Envelope
<1>2. /\ inbox' = [inbox EXCEPT ![n] = @ \ {m}]
      /\ clock' = [clock EXCEPT ![n] = Advanced(@, m.env.c) + 1]
      /\ UNCHANGED <<seen, pub, published, snap, taken, evicted, recovered>>
    BY DEF Handle
<1>3. e \in Entry /\ e.c = m.env.c
    BY <1>1 DEF Entry
<1>4. /\ clock' \in [Node -> Nat] /\ \A j \in Node : clock[j] <= clock'[j]
      /\ m.env.c <= clock'[n]
  <2>1. clock[n] \in Nat
      BY <1>1 DEF SyncSound, SyncTyped
  <2>2. /\ Advanced(clock[n], m.env.c) \in Nat /\ Advanced(clock[n], m.env.c) > clock[n]
        /\ Advanced(clock[n], m.env.c) > m.env.c
      BY <1>1, <2>1, AdvancedIsPast
  <2>. HIDE DEF n
  <2>3. clock \in [Node -> Nat] /\ n \in Node
      BY <1>1 DEF SyncSound, SyncTyped
  <2>4. clock' = [clock EXCEPT ![n] = Advanced(clock[n], m.env.c) + 1]
      BY <1>2
  <2> DEFINE x == Advanced(clock[n], m.env.c) + 1
  <2>5. x \in Nat /\ clock[n] <= x /\ m.env.c <= x
      BY <1>1, <2>1, <2>2
  <2>. HIDE DEF x
  <2>6. clock' \in [Node -> Nat] /\ clock'[n] = x /\ \A j \in Node \ {n} : clock'[j] = clock[j]
      BY <2>3, <2>4, <2>5 DEF x
  <2>7. \A j \in Node : clock[j] \in Nat
      BY <2>3
  <2>. QED BY <2>5, <2>6, <2>7
<1>5. /\ inbox' \in [Node -> SUBSET Message] /\ \A j \in Node : inbox'[j] \subseteq inbox[j]
    BY <1>1, <1>2 DEF SyncSound, SyncTyped
<1>6. \A i : Sent(i)' <=> Sent(i)
    BY <1>2 DEF Sent
<1>7. Remembered'
    BY <1>2 DEF SyncSound, Remembered
<1>8. CASE UNCHANGED <<store, log, got, net>>
  <2>1. SyncTyped'
      BY <1>2, <1>4, <1>5, <1>8 DEF SyncSound, SyncTyped
  <2>2. OnlySent'
      BY <1>2, <1>5, <1>6, <1>8 DEF SyncSound, OnlySent
  <2>3. ClockAhead'
    <3>1. \A j \in Node : /\ clock[j] \in Nat /\ clock'[j] \in Nat
                          /\ store[j] # None => store[j].c \in Nat
                          /\ pub[j].c \in Nat
        BY <1>4, TypesAt DEF SyncSound
    <3>. QED BY <1>2, <1>4, <1>8, <3>1 DEF SyncSound, ClockAhead
  <2>4. BestStored'
      BY <1>2, <1>8 DEF SyncSound, BestStored, HasBest
  <2>. QED BY <1>7, <2>1, <2>2, <2>3, <2>4 DEF SyncSound
<1>9. CASE ~UNCHANGED <<store, log, got, net>>
  <2>1. /\ store' = [store EXCEPT ![n] = Merged(n, e)]
        /\ log' = [log EXCEPT ![n] = Append(@, m.env.c)]
        /\ got' = [got EXCEPT ![n] = @ \cup {e}]
        /\ \E sends \in FanoutOf(n, next, {m.from, n}) : net' = net \cup sends
      BY <1>9 DEF Handle
  <2>2. PICK sends \in FanoutOf(n, next, {m.from, n}) : net' = net \cup sends
      BY <2>1
  <2>3. /\ next.id = m.env.id /\ next.c = m.env.c /\ next.ttl \in 0 .. DefaultTTL
        /\ next = [id |-> next.id, c |-> next.c, ttl |-> next.ttl]
    <3>1. next = [id |-> m.env.id, c |-> m.env.c, ttl |-> m.env.ttl - 1]
        BY <1>1 DEF Envelope
    <3>. HIDE DEF next
    <3>. QED BY <1>1, <3>1 DEF SyncAssumption
  <2>. HIDE DEF next, n
  <2>4. sends \in SUBSET Message /\ \A x \in sends : x.env.id = m.env.id
      BY <1>1, <2>2, <2>3, FanoutSends
  <2>. HIDE DEF e
  <2>5. store[n] \in Entry \cup {None} /\ Merged(n, e) \in {e, store[n]} /\ Merged(n, e) \in Entry
      BY <1>1, <1>3, ResolvePicksLater DEF Merged, SyncSound, SyncTyped
  <2>6. /\ store' \in [Node -> Entry \cup {None}] /\ store'[n] = Merged(n, e)
        /\ \A j \in Node \ {n} : store'[j] = store[j]
      BY <1>1, <2>1, <2>5 DEF SyncSound, SyncTyped
  <2>7. log' \in [Node -> Seq(Nat)] /\ \A j \in Node : Len(log[j]) <= Len(log'[j])
    <3>1. \A j \in Node : log[j] \in Seq(Nat)
        BY DEF SyncSound, SyncTyped
    <3>. QED BY <1>1, <2>1, <3>1 DEF SyncSound, SyncTyped
  <2>8. /\ got' \in [Node -> SUBSET Entry] /\ got'[n] = got[n] \cup {e}
        /\ \A j \in Node \ {n} : got'[j] = got[j]
      BY <1>1, <1>3, <2>1 DEF SyncSound, SyncTyped
  <2>9. SyncTyped'
    <3>1. \A j \in Node : snap'[j].pos <= Len(log'[j])
        BY <1>2, <2>7 DEF SyncSound, SyncTyped, Snapshot
    <3>2. net' \in SUBSET Message
        BY <2>2, <2>4 DEF SyncSound, SyncTyped
    <3>. QED BY <1>2, <1>4, <1>5, <2>6, <2>7, <2>8, <3>1, <3>2 DEF SyncSound, SyncTyped
  <2>10. OnlySent'
    <3>1. \A x \in net' : Sent(x.env.id)'
        BY <1>1, <1>6, <2>2, <2>4 DEF SyncSound, OnlySent
    <3>. QED BY <1>2, <1>5, <1>6, <3>1 DEF SyncSound, OnlySent
  <2>11. ClockAhead'
    <3>1. \A j \in Node : /\ clock[j] \in Nat /\ clock'[j] \in Nat
                          /\ store[j] # None => store[j].c \in Nat
                          /\ pub[j].c \in Nat
        BY <1>4, TypesAt DEF SyncSound
    <3>2. ~recovered[n] => store'[n].c <= clock'[n]
      <4>1. CASE Merged(n, e) = e
          BY <1>3, <1>4, <2>6, <4>1
      <4>2. CASE Merged(n, e) = store[n]
        <5>1. store[n] # None
            BY <2>5, <4>2 DEF SyncAssumption, Entry
        <5>. QED BY <1>1, <1>4, <2>6, <3>1, <4>2, <5>1 DEF SyncSound, ClockAhead
      <4>. QED BY <2>5, <4>1, <4>2
    <3>3. \A j \in Node : ~recovered[j] /\ pub[j].at = "signing" => pub[j].c <= clock'[j]
        BY <1>4, <3>1 DEF SyncSound, ClockAhead
    <3>4. \A j \in Node \ {n} : ~recovered[j] /\ store'[j] # None => store'[j].c <= clock'[j]
        BY <1>4, <2>6, <3>1 DEF SyncSound, ClockAhead
    <3>. QED BY <1>2, <3>2, <3>3, <3>4 DEF ClockAhead
  <2>12. BestStored'
    <3>1. ASSUME NEW j \in Node \ {n}, Wired, published[j] = 0
          PROVE  HasBest(j)' /\ snap'[j].entry \in got'[j] \cup {None}
        BY <1>2, <2>6, <2>8, <3>1 DEF SyncSound, BestStored, HasBest
    <3>2. ASSUME Wired, published[n] = 0
          PROVE  HasBest(n)' /\ snap'[n].entry \in got'[n] \cup {None}
      <4>1. HasBest(n) /\ snap[n].entry \in got[n] \cup {None}
          BY <1>1, <3>2 DEF SyncSound, BestStored
      <4>2. got[n] \in SUBSET Entry
          BY <1>1 DEF SyncSound, SyncTyped
      <4>3. /\ Merged(n, e) \in got[n] \cup {e}
            /\ \A f \in got[n] \cup {e} : Resolve(Merged(n, e), f) = Merged(n, e)
          BY <1>3, <2>5, <4>1, <4>2, MergeKeepsBest DEF HasBest, Merged
      <4>4. HasBest(n)'
          BY <2>6, <2>8, <4>3 DEF HasBest, n
      <4>. QED BY <1>2, <2>8, <4>1, <4>4
    <3>. QED BY <1>2, <3>1, <3>2 DEF BestStored
  <2>. QED BY <1>7, <2>9, <2>10, <2>11, <2>12 DEF SyncSound
<1>. QED BY <1>8, <1>9

LEMMA SnapshotKeeps ==
    ASSUME SyncAssumption, SyncSound, NEW n \in Node, TakeSnapshot(n)
    PROVE  SyncSound'
<1>1. UNCHANGED <<clock, store, log, seen, inbox, net, pub, published, got, taken, evicted, recovered>>
    BY DEF TakeSnapshot
<1>2. /\ snap[n] \in Snapshot /\ clock[n] \in Nat /\ store[n] \in Entry \cup {None}
      /\ Len(log[n]) \in Nat /\ snap[n].pos \in Nat /\ snap[n].pos <= Len(log[n])
  <2>1. snap[n] \in Snapshot /\ snap[n].pos <= Len(log[n])
      BY DEF SyncSound, SyncTyped
  <2>. QED BY <2>1, TypesAt DEF SyncSound, Snapshot
<1>3. PICK s \in Snapshot :
         /\ snap' = [snap EXCEPT ![n] = s] /\ s.pos <= Len(log[n])
         /\ s.entry \in {snap[n].entry, store[n]}
  <2>1. CASE snap[n].at = "idle"
    <3> DEFINE r == [snap[n] EXCEPT !.at = "checksums"]
               s == [r EXCEPT !.c = clock[n]]
    <3>1. r \in Snapshot /\ r.pos = snap[n].pos /\ r.entry = snap[n].entry
        BY <1>2 DEF Snapshot
    <3>2. s \in Snapshot /\ s.pos = snap[n].pos /\ s.entry = snap[n].entry
        BY <1>2, <3>1 DEF Snapshot
    <3>3. snap' = [snap EXCEPT ![n] = s]
        BY <2>1, Zenon DEF TakeSnapshot
    <3>. QED BY <1>2, <3>2, <3>3
  <2>2. CASE snap[n].at = "checksums"
    <3> DEFINE r == [snap[n] EXCEPT !.at = "hash"]
               s == [r EXCEPT !.entry = store[n]]
    <3>1. r \in Snapshot /\ r.pos = snap[n].pos
        BY <1>2 DEF Snapshot
    <3>2. s \in Snapshot /\ s.pos = snap[n].pos /\ s.entry = store[n]
        BY <1>2, <3>1 DEF Snapshot
    <3>3. snap' = [snap EXCEPT ![n] = s]
        BY <2>2, Zenon DEF TakeSnapshot
    <3>. QED BY <1>2, <3>2, <3>3
  <2>3. CASE snap[n].at = "hash"
    <3> DEFINE r == [snap[n] EXCEPT !.at = "taken"]
               s == [r EXCEPT !.pos = Len(log[n])]
    <3>1. r \in Snapshot /\ r.entry = snap[n].entry
        BY <1>2 DEF Snapshot
    <3>2. s \in Snapshot /\ s.pos = Len(log[n]) /\ s.entry = snap[n].entry
        BY <1>2, <3>1 DEF Snapshot
    <3>3. snap' = [snap EXCEPT ![n] = s]
        BY <2>3, Zenon DEF TakeSnapshot
    <3>4. s.pos <= Len(log[n])
        BY <1>2, <3>2
    <3>. HIDE DEF s
    <3>. QED BY <3>2, <3>3, <3>4
  <2>. QED BY <2>1, <2>2, <2>3 DEF TakeSnapshot
<1>4. /\ snap' \in [Node -> Snapshot] /\ snap'[n] = s
      /\ \A k \in Node \ {n} : snap'[k] = snap[k]
    BY <1>3 DEF SyncSound, SyncTyped
<1>5. SyncTyped'
  <2>1. \A k \in Node : snap'[k].pos <= Len(log'[k])
      BY <1>1, <1>3, <1>4 DEF SyncSound, SyncTyped
  <2>. QED BY <1>1, <1>4, <2>1 DEF SyncSound, SyncTyped
<1>6. OnlySent' /\ Remembered' /\ ClockAhead'
    BY <1>1 DEF SyncSound, OnlySent, Sent, Remembered, ClockAhead
<1>7. BestStored'
  <2>1. ASSUME NEW k \in Node, Wired, published[k] = 0
        PROVE  HasBest(k)' /\ snap'[k].entry \in got'[k] \cup {None}
    <3>1. HasBest(k) /\ snap[k].entry \in got[k] \cup {None}
        BY <2>1 DEF SyncSound, BestStored
    <3>2. HasBest(k)' /\ store[k] \in got[k] \cup {None}
        BY <1>1, <3>1 DEF HasBest
    <3>. QED BY <1>1, <1>3, <1>4, <3>1, <3>2
  <2>. QED BY <1>1, <2>1 DEF BestStored
<1>. QED BY <1>5, <1>6, <1>7 DEF SyncSound

LEMMA RecoverKeeps ==
    ASSUME SyncAssumption, SyncSound, NEW n \in Node, Recover(n)
    PROVE  SyncSound'
<1> DEFINE e == snap[n].entry
<1>1. /\ e # None /\ store[n] # None => Wired
      /\ store' = [store EXCEPT ![n] = IF e = None THEN @ ELSE Merged(n, e)]
      /\ clock' = [clock EXCEPT ![n] = Replayed(n)]
      /\ recovered' = [recovered EXCEPT ![n] = TRUE]
      /\ UNCHANGED <<log, seen, inbox, net, pub, published, snap, got, taken, evicted>>
    BY DEF Recover
<1>2. e \in Entry \cup {None} /\ store[n] \in Entry \cup {None} /\ got[n] \in SUBSET Entry
    BY DEF SyncSound, SyncTyped, Snapshot
<1>. HIDE DEF e
<1>3. clock' \in [Node -> Nat] /\ \A k \in Node \ {n} : clock'[k] = clock[k]
    BY <1>1, ReplayedIsClock DEF SyncSound, SyncTyped
<1>4. (IF e = None THEN store[n] ELSE Merged(n, e)) \in Entry \cup {None}
    BY <1>2, ResolvePicksLater DEF Merged
<1>5. /\ store' \in [Node -> Entry \cup {None}] /\ \A k \in Node \ {n} : store'[k] = store[k]
      /\ store'[n] = IF e = None THEN store[n] ELSE Merged(n, e)
    BY <1>1, <1>4 DEF SyncSound, SyncTyped
<1>6. SyncTyped'
    BY <1>1, <1>3, <1>5 DEF SyncSound, SyncTyped
<1>7. OnlySent' /\ Remembered'
    BY <1>1 DEF SyncSound, OnlySent, Sent, Remembered
<1>8. ClockAhead'
  <2>1. \A k \in Node : ~recovered'[k] => k # n /\ ~recovered[k]
      BY <1>1 DEF SyncSound, SyncTyped
  <2>. QED BY <1>1, <1>3, <1>5, <2>1 DEF SyncSound, ClockAhead
<1>9. BestStored'
  <2>1. ASSUME NEW k \in Node, Wired, published[k] = 0
        PROVE  HasBest(k)' /\ snap'[k].entry \in got'[k] \cup {None}
    <3>1. HasBest(k) /\ snap[k].entry \in got[k] \cup {None}
        BY <2>1 DEF SyncSound, BestStored
    <3>2. store'[k] = store[k]
      <4>1. CASE k # n \/ e = None
          BY <1>5, <4>1
      <4>2. CASE k = n /\ e # None
        <5>1. e \in got[n] /\ e \in Entry
            BY <1>2, <3>1, <4>2 DEF e
        <5>2. Merged(n, e) = store[n]
            BY <1>2, <3>1, <4>2, <5>1, MergeKeepsBest DEF HasBest, Merged
        <5>. QED BY <1>5, <4>2, <5>2
      <4>. QED BY <4>1, <4>2
    <3>. QED BY <1>1, <3>1, <3>2 DEF HasBest
  <2>. QED BY <1>1, <2>1 DEF BestStored
<1>. QED BY <1>6, <1>7, <1>8, <1>9 DEF SyncSound

LEMMA SyncKept ==
    ASSUME SyncAssumption, SyncSound, [Next]_vars
    PROVE  SyncSound'
<1>1. CASE UNCHANGED vars
    BY <1>1 DEF vars, SyncSound, SyncTyped, OnlySent, Sent, Remembered, ClockAhead, BestStored,
       HasBest
<1>2. ASSUME NEW m \in net, Drop(m)
      PROVE  SyncSound'
  <2>1. /\ net' \subseteq net
        /\ UNCHANGED <<clock, store, log, seen, inbox, pub, published, snap, got, taken, evicted,
                       recovered>>
      BY <1>2 DEF Drop
  <2>. QED BY <2>1 DEF SyncSound, SyncTyped, OnlySent, Sent, Remembered, ClockAhead, BestStored,
               HasBest
<1>. QED BY <1>1, <1>2, PublishKeeps, PutKeeps, SpreadKeeps, SnapshotKeeps, RecoverKeeps,
            ReceiveKeeps, HandleKeeps DEF Next

\* NodeSync, for any nodes, peers, losses and duplicates: a node that only listens holds
\* the best of what it was sent, in whatever order; it takes no message for new twice
\* unless its cache forgot it; until it recovers, its clock is past what it holds.
THEOREM GossipConverges ==
    ASSUME SyncAssumption
    PROVE  Spec => [](TypeOK /\ MergeOrderIrrelevant /\ HandledOnce /\ ClockPastStore)
<1>1. Init => SyncSound
  <2> SUFFICES ASSUME Init PROVE SyncSound
      OBVIOUS
  <2> USE DEF Init, Idle
  <2>1. SyncTyped
    <3>1. evicted \in [Node -> BOOLEAN] /\ recovered \in [Node -> BOOLEAN]
        BY Zenon
    <3>2. pub \in [Node -> Publication] /\ snap \in [Node -> Snapshot]
        BY DEF Publication, Snapshot
    <3>. QED BY <3>1, <3>2 DEF SyncTyped, SyncAssumption
  <2>2. OnlySent /\ Remembered /\ ClockAhead
      BY DEF OnlySent, Remembered, ClockAhead
  <2>3. BestStored
      BY DEF BestStored, HasBest
  <2>. QED BY <2>1, <2>2, <2>3 DEF SyncSound
<1>2. SyncSound /\ [Next]_vars => SyncSound'
    BY SyncKept
<1>3. SyncSound => TypeOK /\ MergeOrderIrrelevant /\ HandledOnce /\ ClockPastStore
  <2> SUFFICES ASSUME SyncSound
               PROVE  TypeOK /\ MergeOrderIrrelevant /\ HandledOnce /\ ClockPastStore
      OBVIOUS
  <2>1. TypeOK
    <3>1. \A n \in Node : ToSet(seen[n]) \subseteq Id
        BY DEF SyncSound, SyncTyped, ToSet
    <3>2. \A m \in Message : m.to \in Peers[m.from] /\ m.env.ttl \in 1 .. DefaultTTL
        BY DEF Message, Envelope
    <3>. QED BY <3>1, <3>2 DEF SyncSound, SyncTyped, TypeOK
  <2>2. MergeOrderIrrelevant
      BY DEF SyncSound, BestStored, HasBest, MergeOrderIrrelevant
  <2>3. HandledOnce
      BY DEF SyncSound, SyncTyped, Remembered, HandledOnce
  <2>4. ClockPastStore
      BY DEF SyncSound, ClockAhead, ClockPastStore
  <2>. QED BY <2>1, <2>2, <2>3, <2>4
<1>. QED BY <1>1, <1>2, <1>3, PTL DEF Spec

=============================================================================
