----------------------------- MODULE PulseChain -----------------------------
(***************************************************************************)
(* ConsensusNode (consensus/node/consensus-node.ts) with its               *)
(* PulseSynchronizer (pulse-sync/pulse-synchronizer.ts) and                *)
(* ValidatorSetManager (validator/validator-set.ts): what the nodes make   *)
(* of the commands the RaftEngine commits.                                 *)
(*                                                                         *)
(* The engine is seen from here as a log that all nodes agree on, of which *)
(* a node commits a growing prefix; every commit starts a loop that        *)
(* applies what is committed and not yet applied, and a loop waits for the *)
(* hash of a block and for its signature.  A hash stands for what it is    *)
(* made of.  Left out: the entries of a pulse, which come with the         *)
(* command, and times.                                                     *)
(***************************************************************************)
EXTENDS Naturals, Sequences, FiniteSets, SequencesExt

CONSTANTS Node, Leader, None,
          Logs,         \* the logs agreed on: commands [type, of]
          Initial,      \* initialValidators
          Loop,         \* bound: loops of a node under way at once
          MaxChain,     \* MAX_CHAIN
          MaxTerm, MaxStarts    \* bounds

VARIABLES
    log,        \* what is agreed on
    view,       \* RaftEngine: [term, leader] of a node
    commitIndex, lastApplied,
    loop,       \* the loops of _applyCommitted: [at], with the block they wait for
    chain,      \* PulseBlockChain
    store,      \* stores.pulse: pulse number -> set of at most one block
    keys,       \* ValidatorSetManager: nodes with a public key
    active,     \* those with isActive
    running, starts,
    overlapped  \* history: two loops of a node were under way at once

raft == <<log, view, commitIndex>>
node == <<running, starts>>
vars == <<log, view, commitIndex, lastApplied, loop, chain, store, keys, active,
          running, starts, overlapped>>

Init ==
    /\ log \in Logs
    /\ view = [n \in Node |-> [term |-> 0, leader |-> None]]
    /\ commitIndex = [n \in Node |-> 0] /\ lastApplied = [n \in Node |-> 0]
    /\ loop = [n \in Node |-> [l \in Loop |-> [at |-> "none"]]]
    /\ chain = [n \in Node |-> <<>>] /\ store = [n \in Node |-> [p \in 1..Len(log) |-> {}]]
    /\ keys = [n \in Node |-> Initial] /\ active = keys
    /\ running = [n \in Node |-> FALSE] /\ starts = [n \in Node |-> 0]
    /\ overlapped = [n \in Node |-> FALSE]

-----------------------------------------------------------------------------
Pulses == {log[i].of : i \in {j \in 1..Len(log) : log[j].type = "pulse"}}

\* The engine hears of a term or of a leader.
ViewChanges(n) ==
    /\ \E t \in view[n].term..MaxTerm, who \in Leader \cup {None} :
        /\ t = view[n].term => view[n].leader = None
        /\ view' = [view EXCEPT ![n] = [term |-> t, leader |-> who]]
        /\ view' # view
    /\ UNCHANGED <<log, commitIndex, lastApplied, loop, chain, store, keys, active,
                   node, overlapped>>

Idle(n) == {l \in Loop : loop[n][l].at = "none"}
Goes(n, l, r) == loop' = [loop EXCEPT ![n][l] = r]

\* The engine commits, which calls _applyCommitted.
Commits(n, l) ==
    /\ running[n] /\ l \in Idle(n) /\ commitIndex[n] < Len(log)
    /\ commitIndex' = [commitIndex EXCEPT ![n] = @ + 1]
    /\ Goes(n, l, [at |-> "loop"])
    /\ overlapped' = [overlapped EXCEPT ![n] = @ \/ Idle(n) # Loop]
    /\ UNCHANGED <<log, view, lastApplied, chain, store, keys, active, node>>

\* latest
Latest(n) == IF chain[n] = <<>> THEN None ELSE Last(chain[n])

\* What applyPulseCommit reads before the hash; a block's hash stands for all of it.
Block(n, i) ==
    [pulse |-> log[i].of, prev |-> Latest(n), index |-> i, term |-> view[n].term,
     leader |-> IF view[n].leader # None THEN view[n].leader ELSE n]

\* Mutant: the index is increased after the command.
TakesLate(n, l) ==
    LET i == lastApplied[n] + 1 IN
    /\ loop[n][l].at = "loop" /\ i <= commitIndex[n] /\ log[i].type = "pulse"
    /\ Goes(n, l, [at |-> "hash", block |-> Block(n, i)])
    /\ UNCHANGED <<lastApplied, raft, chain, store, keys, active, node, overlapped>>

\* One turn of the loop of _applyCommitted for a pulse: _applyCommand and
\* applyPulseCommit, up to the hash.
TakesPulse(n, l) ==
    LET i == lastApplied[n] + 1 IN
    /\ loop[n][l].at = "loop" /\ i <= commitIndex[n] /\ log[i].type = "pulse"
    /\ lastApplied' = [lastApplied EXCEPT ![n] = i]
    /\ Goes(n, l, [at |-> "hash", block |-> Block(n, i)])
    /\ UNCHANGED <<raft, chain, store, keys, active, node, overlapped>>

\* One turn for another command: _applyCommand, applyAdd, applyRemove.
TakesOther(n, l) ==
    LET i == lastApplied[n] + 1  cmd == log[i] IN
    /\ loop[n][l].at = "loop" /\ i <= commitIndex[n] /\ cmd.type # "pulse"
    /\ lastApplied' = [lastApplied EXCEPT ![n] = i]
    /\ CASE cmd.type = "add" -> /\ keys' = [keys EXCEPT ![n] = @ \cup {cmd.of}]
                                /\ active' = [active EXCEPT ![n] = @ \cup {cmd.of}]
         [] cmd.type = "remove" -> active' = [active EXCEPT ![n] = @ \ {cmd.of}]
                                   /\ UNCHANGED keys
         [] OTHER -> UNCHANGED <<keys, active>>
    /\ UNCHANGED <<raft, loop, chain, store, node, overlapped>>

Ends(n, l) ==
    /\ loop[n][l].at = "loop" /\ lastApplied[n] = commitIndex[n]
    /\ Goes(n, l, [at |-> "none"])
    /\ UNCHANGED <<raft, lastApplied, chain, store, keys, active, node, overlapped>>

\* PulseBlockChain.append
Appended(c, b) == IF Len(c) = MaxChain THEN Append(Tail(c), b) ELSE Append(c, b)

\* applyPulseCommit from the hash to the signature.
Hashed(n, l) ==
    LET r == loop[n][l] IN
    /\ r.at = "hash"
    /\ chain' = [chain EXCEPT ![n] = Appended(@, r.block)]
    /\ Goes(n, l, [r EXCEPT !.at = "sign"])
    /\ UNCHANGED <<raft, lastApplied, store, keys, active, node, overlapped>>

\* applyPulseCommit after the signature: stores.pulse.put.
Signed(n, l) ==
    LET r == loop[n][l] IN
    /\ r.at = "sign"
    /\ store' = [store EXCEPT ![n][r.block.pulse] = {r.block}]
    /\ Goes(n, l, [at |-> "loop"])
    /\ UNCHANGED <<raft, lastApplied, chain, keys, active, node, overlapped>>

\* syncFromPeers appends the blocks of the store, by their numbers, to a chain
\* that may have them already.
SyncedFromPeers(n) ==
    LET numbers == SetToSortSeq({p \in Pulses : store[n][p] # {}}, <)
        blocks == [i \in 1..Len(numbers) |-> CHOOSE b \in store[n][numbers[i]] : TRUE]
    IN FoldSeq(LAMBDA b, c : Appended(c, b), chain[n], Reverse(blocks))

Start(n) ==
    /\ ~running[n] /\ starts[n] < MaxStarts
    /\ running' = [running EXCEPT ![n] = TRUE] /\ starts' = [starts EXCEPT ![n] = @ + 1]
    /\ chain' = [chain EXCEPT ![n] = SyncedFromPeers(n)]
    /\ UNCHANGED <<raft, lastApplied, loop, store, keys, active, overlapped>>

Stop(n) ==
    /\ running[n] /\ starts[n] < MaxStarts /\ running' = [running EXCEPT ![n] = FALSE]
    /\ UNCHANGED <<raft, lastApplied, loop, chain, store, keys, active, starts, overlapped>>

\* verifyBlockSignatures, by whose signatures: any node with a key counts, also
\* one that was removed, while the quorum is of those that were not.
QuorumSize(n) == Cardinality(active[n]) \div 2 + 1
VerifyBlockSignatures(n, by) == Cardinality(by \cap keys[n]) >= QuorumSize(n)

Next == \E n \in Node :
    \/ ViewChanges(n) \/ Start(n) \/ Stop(n)
    \/ \E l \in Loop : \/ Commits(n, l) \/ TakesPulse(n, l) \/ TakesOther(n, l) \/ Ends(n, l)
                       \/ Hashed(n, l) \/ Signed(n, l)

Spec == Init /\ [][Next]_vars

-----------------------------------------------------------------------------
Orderly(n) == ~overlapped[n] /\ starts[n] <= 1
Chained(n) == \A i \in 2..Len(chain[n]) : chain[n][i].prev = chain[n][i - 1]

\* verify finds nothing broken on a node whose loops never overlapped (two
\* commits close together read the same last block) and that was started once
\* (a second start appends the stored blocks again).
ChainUnbroken == \A n \in Node : Orderly(n) => Chained(n)

Numbers(n) == [i \in 1..Len(chain[n]) |-> chain[n][i].index]

\* Such nodes have the same commands in the same order, as far as both have
\* come and both still keep them.
SameOrder ==
    \A n \in Node : Orderly(n) =>
        \A i \in 2..Len(chain[n]) :
            /\ chain[n][i - 1].index < chain[n][i].index
            /\ \A j \in chain[n][i - 1].index + 1..chain[n][i].index - 1 : log[j].type # "pulse"

\* Whatever overlaps, a node appends the block of a command once and leaves none
\* out: when its loops are done its chain has all the pulses it applied, but for
\* those that were shifted out.
EachOnce ==
    \A n \in Node : starts[n] <= 1 =>
        LET mine == {i \in 1..lastApplied[n] : log[i].type = "pulse"}
            pending == {l \in Loop : loop[n][l].at = "hash"}
        IN /\ ToSet(Numbers(n)) \subseteq mine /\ IsInjective(Numbers(n))
           /\ Cardinality(mine) <= MaxChain =>
                  Len(chain[n]) + Cardinality(pending) = Cardinality(mine)

\* The validators of a node are those the applied prefix of the log makes,
\* however its loops overlap; all nodes that applied as much have the same.
ValidatorsOfPrefix ==
    \A n \in Node :
        active[n] = {v \in Initial \cup {log[i].of : i \in 1..lastApplied[n]} :
            LET about == {i \in 1..lastApplied[n] : log[i].type # "pulse" /\ log[i].of = v} IN
            IF about = {} THEN v \in Initial
            ELSE \E i \in about : (\A j \in about : j <= i) /\ log[i].type = "add"}

\* Two blocks that a node finds signed by enough validators have a signer in
\* common, unless one it has removed signed.
QuorumsMeet ==
    \A n \in Node : \A A, B \in SUBSET keys[n] :
        VerifyBlockSignatures(n, A) /\ VerifyBlockSignatures(n, B) /\ A \cap B = {}
        => ~(A \cup B \subseteq active[n])
=============================================================================
