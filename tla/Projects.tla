------------------------------ MODULE Projects ------------------------------
(***************************************************************************)
(* ProjectService (application/services/project.service.ts) and the        *)
(* channels of DeveloperService, with the policies, the                    *)
(* validator and the repositories they call, over PostgreSQL.              *)
(*                                                                         *)
(* A call is cut at its awaits: the checks, the read and the writes of its *)
(* transaction (which commits or fails as one), the cube, the search       *)
(* index.  An update writes the whole row it read, with its changes, and   *)
(* never the coordinates.  All projects belong to the developer who calls. *)
(* The events are fewer than the hundred that findByType returns.          *)
(***************************************************************************)
EXTENDS Naturals

CONSTANTS Project, Name, Caller,
          NoRow,         \* no row, nothing indexed
          MaxChannels,   \* channels of a developer
          MaxCalls       \* bound: calls

VARIABLES
    row,        \* projects: [status, name], or NoRow
    search,     \* the row the search index has last been given, or NoRow
    placed,     \* the projects in the cube
    recorded,   \* the projects with a project:archived event
    channels,   \* the channel:created events
    call,       \* per caller: [kind, p, pc, name, mine]
    calls,
    overlapped, \* history: projects about which two calls ran at once
    contended   \* history: names or channels were given by two calls at once, or
                \* to a project brought back from the archive

vars == <<row, search, placed, recorded, channels, call, calls, overlapped, contended>>

Live == {"active", "pending", "verified"}
Kind == {"create", "update", "archive", "move", "verify", "reject"}
Naming == {"create", "update"}
Idle == [pc |-> "idle"]

Init ==
    /\ row = [p \in Project |-> NoRow] /\ search = [p \in Project |-> NoRow]
    /\ placed = {} /\ recorded = {} /\ channels = 0
    /\ call = [c \in Caller |-> Idle] /\ calls = 0
    /\ overlapped = {} /\ contended = FALSE

-----------------------------------------------------------------------------
LiveRow(p) == row[p] # NoRow /\ row[p].status \in Live

\* Mutant: only active projects keep their names.
FreeNameActive(n, p) ==
    \A q \in Project \ {p} : ~(row[q] # NoRow /\ row[q].status = "active" /\ row[q].name = n)

\* _checkNameConflict
FreeName(n, p) == \A q \in Project \ {p} : ~(LiveRow(q) /\ row[q].name = n)

\* Validator and policy: what the first reads have to show.  reject asks for
\* nothing but the row.
Permitted(kind, p, n) ==
    IF kind = "create" THEN row[p] = NoRow /\ FreeName(n, p)
    ELSE /\ row[p] # NoRow
         /\ kind # "reject" => row[p].status \in Live
         /\ kind = "verify" => row[p].status # "verified"
         /\ kind = "update" => n = row[p].name \/ FreeName(n, p)

Busy == {c \in Caller : call[c].pc # "idle"}
About(p) == {c \in Busy : call[c].kind # "channel" /\ call[c].p = p}

\* A call whose checks have passed.
Begin(c, kind, p, n) ==
    /\ c \notin Busy /\ calls < MaxCalls
    /\ Permitted(kind, p, n) /\ (kind = "create" => About(p) = {})
    /\ call' = [call EXCEPT ![c] = [kind |-> kind, p |-> p, pc |-> "allowed",
                                    name |-> IF kind \in Naming THEN n ELSE NoRow,
                                    mine |-> NoRow]]
    /\ calls' = calls + 1
    /\ overlapped' = IF About(p) = {} THEN overlapped ELSE overlapped \cup {p}
    /\ contended' = (contended \/ (kind \in Naming /\ \E d \in Busy : call[d].kind \in Naming))
    /\ UNCHANGED <<row, search, placed, recorded, channels>>

Goes(c, pc) == call' = [call EXCEPT ![c].pc = pc]
Ends(c) == call' = [call EXCEPT ![c] = Idle]

\* ProjectRepository.update reads the row, in the transaction.
TxReads(c) ==
    /\ call[c].pc = "allowed" /\ call[c].kind \in {"update", "move", "verify", "reject"}
    /\ call' = [call EXCEPT ![c].pc = "writes", ![c].mine = row[call[c].p]]
    /\ UNCHANGED <<row, search, placed, recorded, channels, calls, overlapped, contended>>

\* The rows that create and update write.
Created(c) == [status |-> "active", name |-> call[c].name]
Renamed(c) == [call[c].mine EXCEPT !.name = call[c].name]

\* The row the transaction writes.
Written(c) ==
    LET k == call[c].kind IN
    CASE k = "create"  -> Created(c)
      [] k = "archive" -> [row[call[c].p] EXCEPT !.status = "archived"]
      [] k = "update"  -> Renamed(c)
      [] k = "move"    -> call[c].mine
      [] k = "verify"  -> [call[c].mine EXCEPT !.status = "verified"]
      [] k = "reject"  -> [call[c].mine EXCEPT !.status = "pending"]

Writes(c) == \/ call[c].pc = "writes"
             \/ call[c].pc = "allowed" /\ call[c].kind \in {"create", "archive"}

\* Mutant: the event is stored after the commit, by whoever gets so far.
CommitsFirst(c) ==
    LET p == call[c].p IN
    /\ Writes(c)
    /\ row' = [row EXCEPT ![p] = Written(c)]
    /\ call' = [call EXCEPT ![c].pc = "committed", ![c].mine = Written(c)]
    /\ UNCHANGED <<search, placed, recorded, channels, calls, overlapped, contended>>

\* The row and the event are written and committed.
Commits(c) ==
    LET p == call[c].p IN
    /\ Writes(c)
    /\ row' = [row EXCEPT ![p] = Written(c)]
    /\ recorded' = IF call[c].kind = "archive" THEN recorded \cup {p} ELSE recorded
    /\ call' = [call EXCEPT ![c].pc = "committed", ![c].mine = Written(c)]
    /\ contended' = (contended \/ (row[p] # NoRow /\ row[p].status = "archived"))
    /\ UNCHANGED <<search, placed, channels, calls, overlapped>>

\* A query fails: the transaction is rolled back and the call ends.
TxFails(c) ==
    /\ call[c].pc \in {"allowed", "writes"}
    /\ Ends(c)
    /\ UNCHANGED <<row, search, placed, recorded, channels, calls, overlapped, contended>>

\* cube.index, which may fail.
Places(c) ==
    /\ call[c].pc = "committed" /\ call[c].kind = "create"
    /\ placed' \in {placed, placed \cup {call[c].p}}
    /\ Goes(c, "indexes")
    /\ UNCHANGED <<row, search, recorded, channels, calls, overlapped, contended>>

\* move (whatever becomes of cube.move), verify and reject read the row again.
Rereads(c) ==
    /\ call[c].pc = "committed" /\ call[c].kind \in {"move", "verify", "reject"}
    /\ call' = [call EXCEPT ![c].pc = "indexes", ![c].mine = row[call[c].p]]
    /\ UNCHANGED <<row, search, placed, recorded, channels, calls, overlapped, contended>>

\* indexProject; update indexes the row it has written.
Indexes(c) ==
    /\ \/ call[c].pc = "indexes"
       \/ call[c].pc = "committed" /\ call[c].kind = "update"
    /\ search' = [search EXCEPT ![call[c].p] = call[c].mine]
    /\ Ends(c)
    /\ UNCHANGED <<row, placed, recorded, channels, calls, overlapped, contended>>

\* Mutant: an archived project stays in the index until its next update.
UnindexesLater(c) ==
    /\ call[c].pc = "committed" /\ call[c].kind = "archive"
    /\ Goes(c, "unplaces")
    /\ UNCHANGED <<row, search, placed, recorded, channels, calls, overlapped, contended>>

\* archive: removeProject.
Unindexes(c) ==
    /\ call[c].pc = "committed" /\ call[c].kind = "archive"
    /\ search' = [search EXCEPT ![call[c].p] = NoRow]
    /\ Goes(c, "unplaces")
    /\ UNCHANGED <<row, placed, recorded, channels, calls, overlapped, contended>>

\* archive: cube.remove.
Unplaces(c) ==
    /\ call[c].pc = "unplaces"
    /\ placed' = placed \ {call[c].p}
    /\ Ends(c)
    /\ UNCHANGED <<row, search, recorded, channels, calls, overlapped, contended>>

-----------------------------------------------------------------------------
\* createChannel, up to canCreateChannel.
AsksChannel(c) ==
    /\ c \notin Busy /\ calls < MaxCalls
    /\ channels < MaxChannels
    /\ call' = [call EXCEPT ![c] = [kind |-> "channel", pc |-> "stores"]]
    /\ calls' = calls + 1
    /\ contended' = (contended \/ \E d \in Busy : call[d].kind = "channel")
    /\ UNCHANGED <<row, search, placed, recorded, channels, overlapped>>

\* The event is stored.
OpensChannel(c) ==
    /\ call[c].pc = "stores"
    /\ channels' = channels + 1
    /\ Ends(c)
    /\ UNCHANGED <<row, search, placed, recorded, calls, overlapped, contended>>

Step(c) ==
    \/ TxReads(c) \/ Commits(c) \/ TxFails(c) \/ Places(c) \/ Rereads(c)
    \/ Indexes(c) \/ Unindexes(c) \/ Unplaces(c) \/ OpensChannel(c)

Next ==
    \E c \in Caller :
        \/ Step(c) \/ AsksChannel(c)
        \/ \E kind \in Kind, p \in Project, n \in Name : Begin(c, kind, p, n)

Spec == Init /\ [][Next]_vars

-----------------------------------------------------------------------------
TypeOK ==
    /\ \A p \in Project : row[p] # NoRow => row[p] \in [status : Live \cup {"archived"}, name : Name]
    /\ placed \subseteq Project /\ recorded \subseteq Project /\ channels \in Nat

\* Once the calls about a project are over, and if they came one after the
\* other, search shows its row, and shows nothing of a project in the archive,
\* which has left the cube as well; whatever failed on the way.
SerialCallsIndex ==
    \A p \in Project \ overlapped : About(p) = {} =>
        /\ search[p] = IF LiveRow(p) THEN row[p] ELSE NoRow
        /\ p \in placed => LiveRow(p)

\* However calls overlap and fail, a project is in the archive only if the event
\* store says when it went there.
ArchiveOnRecord ==
    \A p \in Project : row[p] # NoRow /\ row[p].status = "archived" => p \in recorded

\* Two projects of one developer share a name, or a developer has more channels
\* than the policy gives, only if two calls were checked against the same rows,
\* or a project came back from the archive or got back an old row.
LimitsKept ==
    ~contended =>
        /\ \A p, q \in Project \ overlapped :
              p # q /\ LiveRow(p) /\ LiveRow(q) => row[p].name # row[q].name
        /\ channels <= MaxChannels
=============================================================================
