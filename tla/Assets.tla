------------------------------- MODULE Assets -------------------------------
(***************************************************************************)
(* AssetService (asset/service/asset.service.ts) over an IAssetRepository  *)
(* (repository/asset.repository.ts), an IStorageAdapter                    *)
(* (storage/storage-adapter.ts) and the DependencyGraph                    *)
(* (dependency/dependency-graph.ts).                                       *)
(*                                                                         *)
(* A call is cut at what it awaits: the checksum, the search for a         *)
(* duplicate, the storage, the repository; storage and repository may      *)
(* fail.  A file is named by the call that stored it and an asset by the   *)
(* call that created it; content stands for a SHA-256.  Left out: who      *)
(* asks, titles, tags, downloads, which change a counter only.             *)
(***************************************************************************)
EXTENDS Naturals

CONSTANTS Call, Content, Version, None,
          MaxFaults     \* bound: calls of storage or repository that fail

VARIABLES
    assets,     \* repository: asset -> set of [version, content, file]
    index,      \* checksumIndex: content -> asset
    references, \* referenceCount of the assets
    storage,    \* the files stored
    edges,      \* DependencyGraph.edges: a set of <<source, target>>
    call,       \* a call's place and what it has read
    faults,
    overlapped, \* history: two uploads or versions were under way at once
    abandoned   \* history: files whose clean-up failed

vars == <<assets, index, references, storage, edges, call, faults, overlapped, abandoned>>

Init ==
    /\ assets = [a \in Call |-> {}] /\ index = [x \in Content |-> None]
    /\ references = [a \in Call |-> 0] /\ storage = {} /\ edges = {}
    /\ call = [c \in Call |-> [at |-> "new"]]
    /\ faults = 0 /\ overlapped = FALSE /\ abandoned = {}

-----------------------------------------------------------------------------
Asset == {a \in Call : assets[a] # {}}
Busy == {c \in Call : call[c].at \notin {"new", "end"}}

Goes(c, r) == call' = [call EXCEPT ![c] = r]
Ends(c) == Goes(c, [at |-> "end"])
Fails == faults < MaxFaults /\ faults' = faults + 1
Works == UNCHANGED faults
Files == UNCHANGED <<edges, overlapped>>

Begins(c, r) ==
    /\ call[c].at = "new" /\ Goes(c, r)
    /\ overlapped' = (overlapped \/ Busy # {})
    /\ UNCHANGED <<assets, index, references, storage, edges, faults, abandoned>>

\* upload, up to the checksum.
Upload(c, x, v) == Begins(c, [at |-> "look", to |-> c, content |-> x, version |-> v])

\* addVersion, up to the checksum: the asset has no such version.
AddVersion(c, a, x, v) ==
    /\ \A f \in assets[a] : f.version # v
    /\ Begins(c, [at |-> "look", to |-> a, content |-> x, version |-> v])

\* Mutant: the content is reserved before it is stored.
LookReserves(c) ==
    LET r == call[c]  known == index[r.content] IN
    /\ r.at = "look" /\ known \in {None, r.to}
    /\ index' = [index EXCEPT ![r.content] = r.to]
    /\ Goes(c, [r EXCEPT !.at = "put"])
    /\ Files /\ Works /\ UNCHANGED <<assets, references, storage, abandoned>>

\* findByChecksum: an upload of known content is a reference to its asset, and
\* a version of another asset's content is refused.
Look(c) ==
    LET r == call[c]  known == index[r.content] IN
    /\ r.at = "look"
    /\ IF known = None \/ known = r.to
       THEN Goes(c, [r EXCEPT !.at = "put"]) /\ UNCHANGED references
       ELSE IF r.to = c
       THEN Goes(c, [at |-> "refer", to |-> known]) /\ UNCHANGED references
       ELSE Ends(c) /\ UNCHANGED references
    /\ Files /\ Works /\ UNCHANGED <<assets, index, storage, abandoned>>

\* incrementReference
Refer(c) ==
    /\ call[c].at = "refer"
    /\ references' = [references EXCEPT ![call[c].to] = @ + 1]
    /\ Ends(c) /\ Files /\ Works /\ UNCHANGED <<assets, index, storage, abandoned>>

\* storage.put
PutFile(c) ==
    /\ call[c].at = "put"
    /\ \/ /\ storage' = storage \cup {c}
          /\ Goes(c, [call[c] EXCEPT !.at = "save"]) /\ Works
       \/ Fails /\ Ends(c) /\ UNCHANGED storage
    /\ Files /\ UNCHANGED <<assets, index, references, abandoned>>

\* The asset gets the stored file as a version, and the checksum index knows it.
Recorded(c) ==
    LET r == call[c] IN
    /\ assets' = [assets EXCEPT ![r.to] =
           @ \cup {[version |-> r.version, content |-> r.content, file |-> c]}]
    /\ index' = [index EXCEPT ![r.content] = r.to]
    /\ Ends(c) /\ Works /\ UNCHANGED abandoned

Saves(c) == call[c].at = "save" /\ Files /\ UNCHANGED <<references, storage>>

\* Mutant: a failed creation is not cleaned up.
SaveLeaves(c) ==
    /\ Saves(c) /\ call[c].to = c
    /\ Recorded(c) \/ (Fails /\ Ends(c) /\ UNCHANGED <<assets, index, abandoned>>)

\* upload: repo.create; what is stored is cleaned up when it fails.
Save(c) ==
    /\ Saves(c) /\ call[c].to = c
    /\ \/ Recorded(c)
       \/ Fails /\ Goes(c, [at |-> "clean"]) /\ UNCHANGED <<assets, index, abandoned>>

\* addVersion: repo.addVersion; when it fails, the file stays in the storage.
SaveVersion(c) ==
    /\ Saves(c) /\ call[c].to # c
    /\ \/ Recorded(c)
       \/ Fails /\ Ends(c) /\ abandoned' = abandoned \cup {c} /\ UNCHANGED <<assets, index>>

\* storage.delete of what was put, whose failure is ignored.
Clean(c) ==
    /\ call[c].at = "clean" /\ Ends(c)
    /\ \/ storage' = storage \ {c} /\ Works /\ UNCHANGED abandoned
       \/ Fails /\ abandoned' = abandoned \cup {c} /\ UNCHANGED storage
    /\ Files /\ UNCHANGED <<assets, index, references>>

-----------------------------------------------------------------------------
\* There is a path from a to b: b is in every set that has a and the targets of its members.
Leads(a, b) ==
    \A S \in SUBSET Call : a \in S /\ (\A x \in S, y \in Call : <<x, y>> \in edges => y \in S) => b \in S

\* Mutant: the path is looked for in the direction of the new edge.
ClosesForward(a, b) == a = b \/ (Leads(a, b) /\ <<a, b>> \notin edges)

\* _findPath from the target back to the source.
Closes(a, b) == Leads(b, a)

\* addDependency and removeDependency; the ids need not be assets.
AddDependency(a, b) ==
    /\ ~Closes(a, b) /\ <<a, b>> \notin edges
    /\ edges' = edges \cup {<<a, b>>}
    /\ UNCHANGED <<assets, index, references, storage, call, faults, overlapped, abandoned>>
RemoveDependency(a, b) ==
    /\ <<a, b>> \in edges /\ edges' = edges \ {<<a, b>>}
    /\ UNCHANGED <<assets, index, references, storage, call, faults, overlapped, abandoned>>

Step(c) == Look(c) \/ Refer(c) \/ PutFile(c)
           \/ Save(c) \/ SaveVersion(c) \/ Clean(c)

Next ==
    \/ \E c \in Call :
           \/ Step(c)
           \/ \E x \in Content, v \in Version :
                  Upload(c, x, v) \/ \E a \in Asset : AddVersion(c, a, x, v)
    \/ \E a, b \in Asset : AddDependency(a, b) \/ RemoveDependency(a, b)

Spec == Init /\ [][Next]_vars

-----------------------------------------------------------------------------
TypeOK ==
    /\ storage \subseteq Call /\ edges \subseteq Call \X Call /\ abandoned \subseteq Call
    /\ \A x \in Content : index[x] \in Call \cup {None}

\* Whatever call fails where, a file an asset names is in storage, and a file
\* in storage is named by an asset, belongs to a call under way, or is left
\* over from a clean-up that failed or that addVersion does not attempt.
FilesAccountedFor ==
    LET named == {f.file : f \in UNION {assets[a] : a \in Call}} IN
    /\ named \subseteq storage
    /\ storage \subseteq named \cup Busy \cup abandoned

\* What the duplicate detection finds for a content is an asset that has it.
IndexTrue ==
    \A x \in Content : index[x] # None =>
        \E f \in assets[index[x]] : f.content = x

\* Calls that do not overlap store a content in one asset only, and give the
\* versions of an asset different numbers.
SerialCallsNoDuplicates ==
    ~overlapped => \A a, b \in Call : \A f \in assets[a], g \in assets[b] :
        /\ f.content = g.content => a = b
        /\ a = b /\ f.version = g.version => f = g

\* Dependencies added and removed in any order never close a cycle.
Acyclic == \A a, b \in Call : <<a, b>> \in edges => ~Leads(b, a)
=============================================================================
