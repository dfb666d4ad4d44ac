--------------------------- MODULE TransferProofs ---------------------------
(***************************************************************************)
(* Proofs about Transfer, for any number of downloads, providers, chunks,  *)
(* permits and attempts.                                                   *)
(***************************************************************************)
EXTENDS Transfer, FiniteSetTheorems, SequenceTheorems, TLAPS

Calls == [at : {"idle", "running", "ok", "failed"},
          data : {"none", "right", "wrong"}, cached : BOOLEAN]

Holding(f) == {k \in Chunk : f[k].at \in {"ready", "asking", "got"}}

\* What holds of one download: its call c, its fetches f, the n permits left and
\* the queue q of its semaphore.
Owned(c, f, n, q) ==
    /\ c \in Calls
    /\ f \in [Chunk -> Fetch]
    /\ n \in 0..Concurrency
    /\ q \in Seq(Chunk)
    /\ n + Cardinality(Holding(f)) = Concurrency
    /\ q # <<>> => n = 0
    /\ c.at = "idle" => n = Concurrency /\ q = <<>> /\ \A k \in Chunk : f[k].at = "off"
    /\ \A i \in 1..Len(q) : f[q[i]].at = "queued"
    /\ \A i, j \in 1..Len(q) : q[i] = q[j] => i = j
    /\ \A k \in Chunk : f[k].at \in {"asking", "got"} => f[k].try < MaxTries

LEMMA ChunksFinite == IsFiniteSet(Chunk)
  BY TransferAssumption, FS_Interval DEF Chunk

LEMMA HoldingFinite ==
    ASSUME NEW f
    PROVE  IsFiniteSet(Holding(f)) /\ Cardinality(Holding(f)) \in Nat
  BY ChunksFinite, FS_Subset, FS_CardinalityType DEF Holding

\* A chunk that holds a permit keeps it while it asks and while it has its answer.
LEMMA StillHolding ==
    ASSUME NEW c, NEW f, NEW n, NEW q, Owned(c, f, n, q),
           NEW k \in Chunk, f[k].at \in {"ready", "asking", "got"},
           NEW g \in Fetch, g.at \in {"asking", "got"}, g.try < MaxTries
    PROVE  Owned(c, [f EXCEPT ![k] = g], n, q)
<1> DEFINE h == [f EXCEPT ![k] = g]
<1>1. f \in [Chunk -> Fetch] /\ h \in [Chunk -> Fetch]
    BY DEF Owned
<1>2. h[k] = g /\ \A x \in Chunk : x # k => h[x] = f[x]
    BY <1>1
<1>. HIDE DEF h
<1>3. Holding(h) = Holding(f)
    BY <1>2 DEF Holding
<1>4. q \in Seq(Chunk) /\ \A i \in 1..Len(q) : f[q[i]].at = "queued"
    BY DEF Owned
<1>5. \A i \in 1..Len(q) : q[i] \in Chunk
    BY <1>4
<1>6. \A i \in 1..Len(q) : h[q[i]].at = "queued"
    BY <1>2, <1>4, <1>5
<1>7. c.at # "idle"
    BY DEF Owned
<1>8. \A x \in Chunk : h[x].at \in {"asking", "got"} => h[x].try < MaxTries
    BY <1>2 DEF Owned
<1>9. Owned(c, h, n, q)
    BY <1>1, <1>3, <1>6, <1>7, <1>8 DEF Owned
<1>. QED BY <1>9 DEF h

\* A chunk that ends with nobody waiting gives its permit back.
LEMMA PermitReturned ==
    ASSUME NEW c, NEW f, NEW n, Owned(c, f, n, <<>>),
           NEW k \in Chunk, f[k].at \in {"ready", "got"},
           NEW g \in Fetch, g.at \in {"done", "gaveup"}
    PROVE  Owned(c, [f EXCEPT ![k] = g], n + 1, <<>>)
<1> DEFINE h == [f EXCEPT ![k] = g]
<1>1. f \in [Chunk -> Fetch] /\ h \in [Chunk -> Fetch]
    BY DEF Owned
<1>2. h[k] = g /\ \A x \in Chunk : x # k => h[x] = f[x]
    BY <1>1
<1>. HIDE DEF h
<1>3. Holding(h) = Holding(f) \ {k} /\ k \in Holding(f)
    BY <1>2 DEF Holding
<1>4. Cardinality(Holding(h)) = Cardinality(Holding(f)) - 1
    BY <1>3, HoldingFinite, FS_RemoveElement
<1>5. Cardinality(Holding(h)) \in Nat /\ Cardinality(Holding(f)) \in Nat
    BY HoldingFinite
<1>6. n \in 0..Concurrency /\ n + Cardinality(Holding(f)) = Concurrency /\ Concurrency \in Nat
    BY TransferAssumption DEF Owned
<1>7. n + 1 \in 0..Concurrency /\ n + 1 + Cardinality(Holding(h)) = Concurrency
    BY <1>4, <1>5, <1>6
<1>8. c \in Calls /\ c.at # "idle"
    BY DEF Owned
<1>9. \A x \in Chunk : h[x].at \in {"asking", "got"} => h[x].try < MaxTries
    BY <1>2 DEF Owned
<1>10. <<>> \in Seq(Chunk) /\ Len(<<>>) = 0
    OBVIOUS
<1>11. Owned(c, h, n + 1, <<>>)
    BY <1>1, <1>7, <1>8, <1>9, <1>10 DEF Owned
<1>. QED BY <1>11 DEF h

\* A chunk that ends with others waiting hands its permit to the first of them.
LEMMA PermitHandedOver ==
    ASSUME NEW c, NEW f, NEW n, NEW q, Owned(c, f, n, q), q # <<>>,
           NEW k \in Chunk, f[k].at \in {"ready", "got"},
           NEW g \in Fetch, g.at \in {"done", "gaveup"}
    PROVE  Owned(c, [f EXCEPT ![k] = g, ![Head(q)].at = "ready"], n, Tail(q))
<1> DEFINE w == Head(q)
           h == [f EXCEPT ![k] = g, ![w].at = "ready"]
           t == Tail(q)
<1>1. f \in [Chunk -> Fetch] /\ q \in Seq(Chunk) /\ Len(q) \in Nat \ {0}
    BY DEF Owned
<1>2. w = q[1] /\ w \in Chunk /\ t \in Seq(Chunk) /\ Len(t) = Len(q) - 1
      /\ \A i \in 1..Len(t) : t[i] = q[i + 1]
    BY <1>1
<1>. HIDE DEF w, t
<1>3. f[w].at = "queued" /\ w # k
    BY <1>1, <1>2 DEF Owned
<1>4. h = [x \in Chunk |-> IF x = k THEN g
                           ELSE IF x = w THEN [f[w] EXCEPT !.at = "ready"] ELSE f[x]]
    BY <1>1, <1>2, <1>3
<1>. HIDE DEF h
<1>5. f[w] \in Fetch
    BY <1>1, <1>2
<1>6. [f[w] EXCEPT !.at = "ready"] \in Fetch /\ [f[w] EXCEPT !.at = "ready"].at = "ready"
    BY <1>5 DEF Fetch
<1>7. h \in [Chunk -> Fetch]
    BY <1>1, <1>4, <1>6
<1>8. h[k] = g /\ h[w].at = "ready" /\ \A x \in Chunk : x # k /\ x # w => h[x] = f[x]
    BY <1>2, <1>3, <1>4, <1>6
<1>9. Holding(h) = (Holding(f) \ {k}) \cup {w} /\ k \in Holding(f) /\ w \notin Holding(f) \ {k}
    BY <1>2, <1>3, <1>8 DEF Holding
<1>10. /\ IsFiniteSet(Holding(f) \ {k})
       /\ Cardinality(Holding(f) \ {k}) = Cardinality(Holding(f)) - 1
    BY <1>9, HoldingFinite, FS_RemoveElement
<1>11. Cardinality((Holding(f) \ {k}) \cup {w}) = Cardinality(Holding(f) \ {k}) + 1
    BY <1>9, <1>10, FS_AddElement
<1>12. Cardinality(Holding(f)) \in Nat
    BY HoldingFinite
<1>13. Cardinality(Holding(h)) = Cardinality(Holding(f))
    BY <1>9, <1>10, <1>11, <1>12
<1>14. \A i \in 1..Len(t) : i + 1 \in 1..Len(q) /\ i + 1 # 1
    BY <1>1, <1>2
<1>15. \A i \in 1..Len(t) : t[i] \in Chunk /\ t[i] # w /\ f[t[i]].at = "queued"
  <2>1. TAKE i \in 1..Len(t)
  <2>2. t[i] = q[i + 1] /\ i + 1 \in 1..Len(q) /\ i + 1 # 1 /\ 1 \in 1..Len(q)
    BY <1>1, <1>2, <1>14
  <2>3. q[i + 1] # q[1] /\ f[q[i + 1]].at = "queued"
    BY <2>2 DEF Owned
  <2>4. q[i + 1] \in Chunk
    BY <1>1, <2>2
  <2>. QED BY <1>2, <2>2, <2>3, <2>4
<1>16. \A i \in 1..Len(t) : h[t[i]].at = "queued"
    BY <1>8, <1>15
<1>17. \A i, j \in 1..Len(t) : t[i] = t[j] => i = j
  <2>1. TAKE i, j \in 1..Len(t)
  <2>2. t[i] = q[i + 1] /\ t[j] = q[j + 1] /\ i + 1 \in 1..Len(q) /\ j + 1 \in 1..Len(q)
    BY <1>2, <1>14
  <2>3. q[i + 1] = q[j + 1] => i + 1 = j + 1
    BY <2>2 DEF Owned
  <2>. QED BY <2>2, <2>3
<1>18. \A x \in Chunk : h[x].at \in {"asking", "got"} => h[x].try < MaxTries
    BY <1>8 DEF Owned
<1>19. c \in Calls /\ c.at # "idle" /\ n \in 0..Concurrency /\ n = 0
       /\ n + Cardinality(Holding(f)) = Concurrency
    BY DEF Owned
<1>20. Owned(c, h, n, t)
    BY <1>2, <1>7, <1>13, <1>16, <1>17, <1>18, <1>19 DEF Owned
<1>. QED BY <1>20 DEF h, t, w

\* The first chunks of a download share out the permits; the others queue in order.
LEMMA PermitsSharedOut ==
    ASSUME NEW c, NEW f, Owned(c, f, Concurrency, <<>>)
    PROVE  Owned([c EXCEPT !.at = "running"],
                 [k \in Chunk |-> [Off EXCEPT !.at = IF k \in AtOnce THEN "ready" ELSE "queued"]],
                 Concurrency - Cardinality(AtOnce), From(Cardinality(AtOnce)))
<1> DEFINE m == IF Chunks < Concurrency THEN Chunks ELSE Concurrency
           h == [k \in Chunk |-> [Off EXCEPT !.at = IF k \in AtOnce THEN "ready" ELSE "queued"]]
           q == From(m)
<1>1. Chunks \in Nat \ {0} /\ Concurrency \in Nat \ {0} /\ MaxTries \in Nat
    BY TransferAssumption
<1>2. m \in Nat /\ m <= Chunks /\ m <= Concurrency /\ (m < Chunks => m = Concurrency)
    BY <1>1
<1>3. AtOnce = 0..(m - 1)
    BY <1>1 DEF AtOnce, Chunk
<1>. HIDE DEF m
<1>4. Cardinality(0..(m - 1)) = m
  <2>1. 0 \in Int /\ m - 1 \in Int /\ (0 > m - 1 => m = 0)
    BY <1>2
  <2>2. Cardinality(0..(m - 1)) = IF 0 > m - 1 THEN 0 ELSE m - 1 - 0 + 1
    BY <2>1, FS_Interval
  <2>. QED BY <1>2, <2>1, <2>2
<1>5. Off \in Fetch /\ Off.try = 0
    BY <1>1 DEF Off, Fetch
<1>6. \A k \in Chunk : h[k] \in Fetch /\ h[k].at = IF k \in AtOnce THEN "ready" ELSE "queued"
  <2>1. TAKE k \in Chunk
  <2>2. h[k] = [Off EXCEPT !.at = IF k \in AtOnce THEN "ready" ELSE "queued"]
    OBVIOUS
  <2>. QED BY <1>1, <2>2 DEF Off, Fetch
<1>7. h \in [Chunk -> Fetch]
    BY <1>6
<1>. HIDE DEF h
<1>8. Holding(h) = AtOnce
    BY <1>6 DEF Holding, AtOnce
<1>9. q \in Seq(Chunk) /\ Len(q) = Chunks - m /\ \A i \in 1..Len(q) : q[i] = m + i - 1
  <2>1. Chunks - m \in Nat
    BY <1>1, <1>2
  <2>2. \A j \in 1..(Chunks - m) : m + j - 1 \in Chunk
    BY <1>1, <1>2 DEF Chunk
  <2>. QED BY <2>1, <2>2 DEF From
<1>. HIDE DEF q
<1>10. q # <<>> => Concurrency - m = 0
  <2>1. Len(q) = 0 => q = <<>>
    BY <1>9
  <2>. QED BY <1>1, <1>2, <1>9, <2>1
<1>11. \A i \in 1..Len(q) : h[q[i]].at = "queued"
  <2>1. TAKE i \in 1..Len(q)
  <2>2. q[i] \in Chunk /\ q[i] >= m /\ q[i] \in Int
    BY <1>2, <1>9
  <2>3. q[i] \notin AtOnce
    BY <1>2, <1>3, <2>2
  <2>. QED BY <1>6, <2>2, <2>3
<1>12. \A i, j \in 1..Len(q) : q[i] = q[j] => i = j
    BY <1>2, <1>9
<1>13. [c EXCEPT !.at = "running"] \in Calls /\ [c EXCEPT !.at = "running"].at = "running"
    BY DEF Owned, Calls
<1>14. Concurrency - m \in 0..Concurrency /\ Concurrency - m + m = Concurrency
    BY <1>1, <1>2
<1>15. \A k \in Chunk : ~(h[k].at \in {"asking", "got"})
    BY <1>6
<1>16. Owned([c EXCEPT !.at = "running"], h, Concurrency - m, q)
    BY <1>3, <1>4, <1>7, <1>8, <1>9, <1>10, <1>11, <1>12, <1>13, <1>14, <1>15 DEF Owned
<1>. QED BY <1>3, <1>4, <1>16 DEF h, q

-----------------------------------------------------------------------------
\* What holds of the engine: every download's part of it, and what they share.
Shared ==
    /\ peers \in Seq(Peer)
    /\ store \in [Chunk -> {"none", "right", "wrong"}]
    /\ pending \in [Chunk -> SUBSET (Download \X Nat)]
    /\ timers \in Seq(Download \X Chunk \X Nat)
    /\ msgs \subseteq Message

\* The state of every download; who has begun found a provider listed.
Downloads ==
    /\ call \in [Download -> Calls]
    /\ fetch \in [Download -> [Chunk -> Fetch]]
    /\ free \in [Download -> 0..Concurrency]
    /\ queue \in [Download -> Seq(Chunk)]
    /\ \A d \in Download : Owned(call[d], fetch[d], free[d], queue[d])
    /\ \A d \in Download : \A k \in Chunk : fetch[d][k].at # "off" => peers # <<>>

IInv == Shared /\ Downloads /\ ResolverServes

\* Initially no call has been made.
LEMMA InitInv == Init => IInv
<1>. SUFFICES ASSUME Init PROVE IInv
    OBVIOUS
<1>1. Concurrency \in Nat /\ MaxTries \in Nat /\ Known \in Seq(Peer)
    BY TransferAssumption
<1>2. Idle \in Calls /\ Idle.at = "idle"
    BY DEF Idle, Calls
<1>3. Off \in Fetch /\ Off.at = "off"
    BY <1>1 DEF Off, Fetch
<1> DEFINE f == [k \in Chunk |-> Off]
<1>4. f \in [Chunk -> Fetch] /\ \A k \in Chunk : f[k].at = "off"
    BY <1>3
<1>. HIDE DEF f
<1>5. Holding(f) = {}
    BY <1>4 DEF Holding
<1>6. Cardinality(Holding(f)) = 0
    BY <1>5, FS_EmptySet
<1>7. Concurrency \in 0..Concurrency /\ Concurrency + 0 = Concurrency
    BY <1>1
<1>8. <<>> \in Seq(Chunk) /\ Len(<<>>) = 0
    OBVIOUS
<1>9. Owned(Idle, f, Concurrency, <<>>)
    BY <1>2, <1>4, <1>6, <1>7, <1>8 DEF Owned
<1>10. call = [d \in Download |-> Idle] /\ fetch = [d \in Download |-> f]
       /\ free = [d \in Download |-> Concurrency] /\ queue = [d \in Download |-> <<>>]
    BY DEF Init, f
<1>11. Downloads
    BY <1>2, <1>4, <1>7, <1>8, <1>9, <1>10 DEF Downloads
<1>12. Shared
    BY <1>1 DEF Init, Shared
<1>13. ResolverServes
    BY DEF Init, ResolverServes
<1>. QED BY <1>11, <1>12, <1>13 DEF IInv

\* A step of one download, told by what it makes of that download's part.
LEMMA OneDownload ==
    ASSUME IInv, NEW d \in Download, NEW c, NEW f, NEW n, NEW q,
           Owned(c, f, n, q),
           \A k \in Chunk : f[k].at # "off" => peers # <<>>,
           call' = [call EXCEPT ![d] = c], fetch' = [fetch EXCEPT ![d] = f],
           free' = [free EXCEPT ![d] = n], queue' = [queue EXCEPT ![d] = q],
           peers' = peers
    PROVE  Downloads'
<1>1. c \in Calls /\ f \in [Chunk -> Fetch] /\ n \in 0..Concurrency /\ q \in Seq(Chunk)
    BY DEF Owned
<1>2. /\ call \in [Download -> Calls]
      /\ fetch \in [Download -> [Chunk -> Fetch]]
      /\ free \in [Download -> 0..Concurrency]
      /\ queue \in [Download -> Seq(Chunk)]
    BY DEF IInv, Downloads
<1>3. /\ call' \in [Download -> Calls]
      /\ fetch' \in [Download -> [Chunk -> Fetch]]
      /\ free' \in [Download -> 0..Concurrency]
      /\ queue' \in [Download -> Seq(Chunk)]
    BY <1>1, <1>2
<1>4. call'[d] = c /\ fetch'[d] = f /\ free'[d] = n /\ queue'[d] = q
    BY <1>2
<1>5. \A e \in Download : e # d =>
        call'[e] = call[e] /\ fetch'[e] = fetch[e] /\ free'[e] = free[e] /\ queue'[e] = queue[e]
    BY <1>2
<1>6. \A e \in Download : Owned(call'[e], fetch'[e], free'[e], queue'[e])
  <2>1. TAKE e \in Download
  <2>2. CASE e = d
    BY <1>4, <2>2
  <2>3. CASE e # d
    <3>1. Owned(call[e], fetch[e], free[e], queue[e])
        BY DEF IInv, Downloads
    <3>. QED BY <1>5, <2>3, <3>1
  <2>. QED BY <2>2, <2>3
<1>7. \A e \in Download : \A k \in Chunk : fetch'[e][k].at # "off" => peers' # <<>>
    BY <1>4, <1>5 DEF IInv, Downloads
<1>. QED BY <1>3, <1>6, <1>7 DEF Downloads

\* A chunk that ends: the permit is kept, handed over, and no resolver was its own.
LEMMA SettleStep ==
    ASSUME IInv, NEW d \in Download, NEW k \in Chunk, NEW g \in Fetch,
           fetch[d][k].at \in {"ready", "got"}, g.at \in {"done", "gaveup"},
           Settle(d, k, g), UNCHANGED <<peers, call, pending>>
    PROVE  Downloads' /\ ResolverServes'
<1> DEFINE c == call[d]
           f == fetch[d]
           n == free[d]
           q == queue[d]
<1>1. /\ call \in [Download -> Calls]
      /\ fetch \in [Download -> [Chunk -> Fetch]]
      /\ free \in [Download -> 0..Concurrency]
      /\ queue \in [Download -> Seq(Chunk)]
      /\ Owned(c, f, n, q)
    BY DEF IInv, Downloads
<1>2. peers # <<>>
    BY DEF IInv, Downloads
<1>3. call' = [call EXCEPT ![d] = c]
    BY <1>1
<1>4. \A x \in Chunk : pending[x] \in SUBSET (Download \X Nat)
    BY DEF IInv, Shared
<1>5. pending' = pending
    OBVIOUS
<1>6. CASE q = <<>>
  <2> DEFINE h == [f EXCEPT ![k] = g]
  <2>1. fetch' = [fetch EXCEPT ![d][k] = g] /\ free' = [free EXCEPT ![d] = @ + 1]
        /\ queue' = queue
    BY <1>6 DEF Settle
  <2>2. fetch' = [fetch EXCEPT ![d] = h] /\ free' = [free EXCEPT ![d] = n + 1]
        /\ queue' = [queue EXCEPT ![d] = <<>>]
    BY <1>1, <1>6, <2>1
  <2>3. Owned(c, f, n, <<>>)
    BY <1>1, <1>6
  <2>4. Owned(c, h, n + 1, <<>>)
    BY <2>3, PermitReturned
  <2>5. h[k] = g /\ \A x \in Chunk : x # k => h[x] = f[x]
    BY <1>1
  <2>. HIDE DEF h
  <2>6. Downloads'
    BY <1>2, <1>3, <2>2, <2>4, OneDownload
  <2>7. fetch'[d] = h /\ \A e \in Download : e # d => fetch'[e] = fetch[e]
    BY <1>1, <2>2
  <2>8. ResolverServes'
    <3>1. SUFFICES ASSUME NEW x \in Chunk, NEW r \in pending[x]
                   PROVE  fetch'[r[1]][x].at = "asking" /\ fetch'[r[1]][x].try = r[2]
        BY <1>5 DEF ResolverServes
    <3>2. r[1] \in Download /\ fetch[r[1]][x].at = "asking" /\ fetch[r[1]][x].try = r[2]
        BY <1>4 DEF IInv, ResolverServes
    <3>3. fetch'[r[1]][x] = fetch[r[1]][x]
        BY <2>5, <2>7, <3>2
    <3>. QED BY <3>2, <3>3
  <2>. QED BY <2>6, <2>8
<1>7. CASE q # <<>>
  <2> DEFINE h == [f EXCEPT ![k] = g, ![Head(q)].at = "ready"]
  <2>1. Head(q) \in Chunk /\ f[Head(q)].at = "queued"
    <3>1. q \in Seq(Chunk) /\ 1 \in 1..Len(q) /\ Head(q) = q[1] /\ q[1] \in Chunk
        BY <1>1, <1>7
    <3>. QED BY <1>1, <3>1 DEF Owned
  <2>2. fetch' = [fetch EXCEPT ![d][k] = g, ![d][Head(q)].at = "ready"]
        /\ free' = free /\ queue' = [queue EXCEPT ![d] = Tail(@)]
    BY <1>7 DEF Settle
  <2>3. fetch' = [fetch EXCEPT ![d] = h]
    BY <1>1, <2>1, <2>2
  <2>4. free' = [free EXCEPT ![d] = n] /\ queue' = [queue EXCEPT ![d] = Tail(q)]
    BY <1>1, <2>2
  <2>5. Owned(c, h, n, Tail(q))
    BY <1>1, <1>7, PermitHandedOver
  <2>6. \A x \in Chunk : x # k /\ x # Head(q) => h[x] = f[x]
    BY <1>1
  <2>. HIDE DEF h
  <2>7. Downloads'
    BY <1>2, <1>3, <2>3, <2>4, <2>5, OneDownload
  <2>8. fetch'[d] = h /\ \A e \in Download : e # d => fetch'[e] = fetch[e]
    BY <1>1, <2>3
  <2>9. ResolverServes'
    <3>1. SUFFICES ASSUME NEW x \in Chunk, NEW r \in pending[x]
                   PROVE  fetch'[r[1]][x].at = "asking" /\ fetch'[r[1]][x].try = r[2]
        BY <1>5 DEF ResolverServes
    <3>2. r[1] \in Download /\ fetch[r[1]][x].at = "asking" /\ fetch[r[1]][x].try = r[2]
        BY <1>4 DEF IInv, ResolverServes
    <3>3. r[1] = d => x # k /\ x # Head(q)
        BY <2>1, <3>2
    <3>4. fetch'[r[1]][x] = fetch[r[1]][x]
        BY <2>6, <2>8, <3>2, <3>3
    <3>. QED BY <3>2, <3>4
  <2>. QED BY <2>7, <2>9
<1>. QED BY <1>6, <1>7

\* The provider of an attempt is one of those listed.
LEMMA ProviderListed ==
    ASSUME NEW k \in Chunk, NEW t \in Nat, peers \in Seq(Peer), peers # <<>>
    PROVE  Provider(k, t) \in Peer
<1>1. k \in Nat /\ Len(peers) \in Nat \ {0}
    BY TransferAssumption DEF Chunk
<1>2. k + t \in Nat
    BY <1>1
<1>3. (k + t) % Len(peers) \in 0..(Len(peers) - 1)
    BY <1>1, <1>2
<1>4. ((k + t) % Len(peers)) + 1 \in 1..Len(peers)
    BY <1>1, <1>3
<1>. QED BY <1>4 DEF Provider

\* An attempt: the chunk is asked for under its own resolver, or it is given up.
LEMMA AttemptStep ==
    ASSUME IInv, NEW d \in Download, NEW k \in Chunk, NEW t \in Nat, t <= MaxTries,
           fetch[d][k].at \in {"ready", "got"},
           Attempt(d, k, t), UNCHANGED <<peers, call>>
    PROVE  /\ Downloads' /\ ResolverServes'
           /\ pending' \in [Chunk -> SUBSET (Download \X Nat)]
           /\ timers' \in Seq(Download \X Chunk \X Nat)
           /\ msgs' \subseteq Message
<1>1. /\ call \in [Download -> Calls]
      /\ fetch \in [Download -> [Chunk -> Fetch]]
      /\ free \in [Download -> 0..Concurrency]
      /\ queue \in [Download -> Seq(Chunk)]
      /\ Owned(call[d], fetch[d], free[d], queue[d])
    BY DEF IInv, Downloads
<1>2. peers \in Seq(Peer) /\ peers # <<>>
    BY DEF IInv, Shared, Downloads
<1>3. /\ pending \in [Chunk -> SUBSET (Download \X Nat)]
      /\ timers \in Seq(Download \X Chunk \X Nat)
      /\ msgs \subseteq Message
    BY DEF IInv, Shared
<1>4. MaxTries \in Nat
    BY TransferAssumption
<1>5. fetch[d][k] \in Fetch
    BY <1>1
<1>6. CASE t < MaxTries
  <2> DEFINE p == Provider(k, t)
             g == [at |-> "asking", try |-> t, peer |-> p, got |-> "nothing"]
             h == [fetch[d] EXCEPT ![k] = g]
             m == [type |-> "request", peer |-> p, d |-> d, k |-> k, try |-> t]
  <2>1. p \in Peer
    BY <1>2, ProviderListed
  <2>2. /\ fetch' = [fetch EXCEPT ![d][k] = g]
        /\ pending' = [pending EXCEPT ![k] = {<<d, t>>}]
        /\ timers' = Append(timers, <<d, k, t>>)
        /\ msgs' = msgs \cup {m}
        /\ free' = free /\ queue' = queue
    BY <1>6 DEF Attempt
  <2>. HIDE DEF p
  <2>3. g \in Fetch /\ g.at = "asking" /\ g.try = t
    BY <1>4, <1>6, <2>1 DEF Fetch
  <2>4. m \in Message
    BY <2>1 DEF Message
  <2>. HIDE DEF g, m
  <2>5. pending' \in [Chunk -> SUBSET (Download \X Nat)]
        /\ timers' \in Seq(Download \X Chunk \X Nat) /\ msgs' \subseteq Message
    BY <1>3, <2>2, <2>4
  <2>6. fetch' = [fetch EXCEPT ![d] = h] /\ call' = [call EXCEPT ![d] = call[d]]
        /\ free' = [free EXCEPT ![d] = free[d]] /\ queue' = [queue EXCEPT ![d] = queue[d]]
    BY <1>1, <2>2
  <2>7. Owned(call[d], h, free[d], queue[d])
    BY <1>1, <1>6, <2>3, StillHolding
  <2>8. h[k] = g /\ \A x \in Chunk : x # k => h[x] = fetch[d][x]
    BY <1>1
  <2>. HIDE DEF h
  <2>9. Downloads'
    BY <1>2, <2>6, <2>7, OneDownload
  <2>10. fetch'[d] = h /\ \A e \in Download : e # d => fetch'[e] = fetch[e]
    BY <1>1, <2>6
  <2>11. pending'[k] = {<<d, t>>} /\ \A x \in Chunk : x # k => pending'[x] = pending[x]
    BY <1>3, <2>2
  <2>12. ResolverServes'
    <3>1. SUFFICES ASSUME NEW x \in Chunk, NEW r \in pending'[x]
                   PROVE  fetch'[r[1]][x].at = "asking" /\ fetch'[r[1]][x].try = r[2]
        BY DEF ResolverServes
    <3>2. CASE x = k
        BY <2>3, <2>8, <2>10, <2>11, <3>2
    <3>3. CASE x # k
      <4>1. r \in pending[x]
        BY <2>11, <3>3
      <4>2. r[1] \in Download /\ fetch[r[1]][x].at = "asking" /\ fetch[r[1]][x].try = r[2]
        BY <1>3, <4>1 DEF IInv, ResolverServes
      <4>3. fetch'[r[1]][x] = fetch[r[1]][x]
        BY <2>8, <2>10, <3>3, <4>2
      <4>. QED BY <4>2, <4>3
    <3>. QED BY <3>2, <3>3
  <2>. QED BY <2>5, <2>9, <2>12
<1>7. CASE ~(t < MaxTries)
  <2> DEFINE g == [fetch[d][k] EXCEPT !.at = "gaveup", !.try = t]
  <2>0. t \in 0..MaxTries
    BY <1>4
  <2>1. g \in Fetch /\ g.at = "gaveup"
    BY <1>5, <2>0 DEF Fetch
  <2>2. Settle(d, k, g) /\ pending' = pending /\ timers' = timers /\ msgs' = msgs
    BY <1>7 DEF Attempt
  <2>. HIDE DEF g
  <2>3. Downloads' /\ ResolverServes'
    BY <2>1, <2>2, SettleStep
  <2>. QED BY <1>3, <2>2, <2>3
<1>. QED BY <1>6, <1>7

\* A settled promise: nobody waits under the key any more.
LEMMA ResolveStep ==
    ASSUME IInv, NEW d \in Download, NEW t \in Nat, NEW k \in Chunk,
           NEW got \in Copy \cup {"nothing"},
           Resolve(<<d, t>>, k, got), pending' = [pending EXCEPT ![k] = {}],
           UNCHANGED <<peers, call, free, queue>>
    PROVE  Downloads' /\ ResolverServes'
<1> DEFINE g == IF fetch[d][k].at = "asking" /\ fetch[d][k].try = t
                THEN [fetch[d][k] EXCEPT !.at = "got", !.got = got] ELSE fetch[d][k]
           h == [fetch[d] EXCEPT ![k] = g]
<1>1. /\ call \in [Download -> Calls]
      /\ fetch \in [Download -> [Chunk -> Fetch]]
      /\ free \in [Download -> 0..Concurrency]
      /\ queue \in [Download -> Seq(Chunk)]
      /\ Owned(call[d], fetch[d], free[d], queue[d])
    BY DEF IInv, Downloads
<1>2. pending \in [Chunk -> SUBSET (Download \X Nat)]
    BY DEF IInv, Shared
<1>3. fetch' = [fetch EXCEPT ![d] = h]
    BY <1>1 DEF Resolve
<1>4. fetch[d][k] \in Fetch
    BY <1>1
<1>5. Owned(call[d], h, free[d], queue[d])
  <2>1. CASE fetch[d][k].at = "asking" /\ fetch[d][k].try = t
    <3>1. g \in Fetch /\ g.at = "got" /\ g.try = fetch[d][k].try
        BY <1>4, <2>1 DEF Fetch
    <3>2. g.try < MaxTries
        BY <1>1, <2>1, <3>1 DEF Owned
    <3>. HIDE DEF g
    <3>. QED BY <1>1, <2>1, <3>1, <3>2, StillHolding
  <2>2. CASE ~(fetch[d][k].at = "asking" /\ fetch[d][k].try = t)
    <3>1. h = fetch[d]
        BY <1>1, <2>2
    <3>. QED BY <1>1, <3>1
  <2>. QED BY <2>1, <2>2
<1>6. \A x \in Chunk : x # k => h[x] = fetch[d][x]
    BY <1>1
<1>7. h[k].at # "off" => fetch[d][k].at # "off"
    BY <1>1
<1>. HIDE DEF g, h
<1>8. h \in [Chunk -> Fetch]
    BY <1>5 DEF Owned
<1>9. fetch'[d] = h /\ \A e \in Download : e # d => fetch'[e] = fetch[e]
    BY <1>1, <1>3
<1>10. Downloads'
  <2>1. call' = call /\ free' = free /\ queue' = queue /\ peers' = peers
    OBVIOUS
  <2>2. fetch' \in [Download -> [Chunk -> Fetch]]
    BY <1>1, <1>3, <1>8
  <2>3. \A e \in Download : Owned(call[e], fetch'[e], free[e], queue[e])
    <3>1. TAKE e \in Download
    <3>2. Owned(call[e], fetch[e], free[e], queue[e])
        BY DEF IInv, Downloads
    <3>. QED BY <1>5, <1>9, <3>2
  <2>4. \A e \in Download : \A x \in Chunk : fetch'[e][x].at # "off" => peers # <<>>
    <3>1. \A e \in Download : \A x \in Chunk : fetch[e][x].at # "off" => peers # <<>>
        BY DEF IInv, Downloads
    <3>2. ASSUME NEW e \in Download, NEW x \in Chunk, fetch'[e][x].at # "off"
          PROVE  peers # <<>>
      <4>1. CASE e = d /\ x = k
          BY <1>7, <1>9, <3>1, <3>2, <4>1
      <4>2. CASE e = d /\ x # k
          BY <1>6, <1>9, <3>1, <3>2, <4>2
      <4>3. CASE e # d
          BY <1>9, <3>1, <3>2, <4>3
      <4>. QED BY <4>1, <4>2, <4>3
    <3>. QED BY <3>2
  <2>. QED BY <1>1, <2>1, <2>2, <2>3, <2>4 DEF Downloads
<1>11. ResolverServes'
  <2>0. pending'[k] = {} /\ \A x \in Chunk : x # k => pending'[x] = pending[x]
    BY <1>2
  <2>1. SUFFICES ASSUME NEW x \in Chunk, NEW s \in pending'[x]
                 PROVE  fetch'[s[1]][x].at = "asking" /\ fetch'[s[1]][x].try = s[2]
    BY DEF ResolverServes
  <2>2. x # k /\ s \in pending[x]
    BY <2>0
  <2>3. s[1] \in Download /\ fetch[s[1]][x].at = "asking" /\ fetch[s[1]][x].try = s[2]
    BY <1>2, <2>2 DEF IInv, ResolverServes
  <2>4. fetch'[s[1]][x] = fetch[s[1]][x]
    BY <1>6, <1>9, <2>2, <2>3
  <2>. QED BY <2>3, <2>4
<1>. QED BY <1>10, <1>11

-----------------------------------------------------------------------------
\* A download that starts.
LEMMA StartInv ==
    ASSUME IInv, NEW d \in Download, Start(d)
    PROVE  IInv'
<1>1. /\ call \in [Download -> Calls]
      /\ fetch \in [Download -> [Chunk -> Fetch]]
      /\ free \in [Download -> 0..Concurrency]
      /\ queue \in [Download -> Seq(Chunk)]
      /\ Owned(call[d], fetch[d], free[d], queue[d])
    BY DEF IInv, Downloads
<1>2. call[d].at = "idle" /\ call[d] \in Calls
    BY <1>1 DEF Start
<1>3. free[d] = Concurrency /\ queue[d] = <<>> /\ \A k \in Chunk : fetch[d][k].at = "off"
    BY <1>1, <1>2 DEF Owned
<1>4. peers' = peers /\ store' = store /\ pending' = pending /\ timers' = timers /\ msgs' = msgs
    BY DEF Start
<1>5. Shared'
    BY <1>4 DEF IInv, Shared
<1>6. \A k \in Chunk : \A r \in pending[k] : r[1] \in Download /\ r[1] # d
                        /\ fetch[r[1]][k].at = "asking" /\ fetch[r[1]][k].try = r[2]
    BY <1>3 DEF IInv, Shared, ResolverServes
<1>7. CASE peers = <<>> \/ Complete
  <2> DEFINE c == IF peers = <<>> THEN [call[d] EXCEPT !.at = "failed"]
                  ELSE [at |-> "ok", data |-> Assembled, cached |-> TRUE]
  <2>1. call' = [call EXCEPT ![d] = c] /\ fetch' = fetch /\ free' = free /\ queue' = queue
    BY <1>1, <1>7 DEF Start
  <2>2. c \in Calls /\ c.at # "idle"
    BY <1>2 DEF Calls, Assembled
  <2>. HIDE DEF c
  <2>3. Owned(c, fetch[d], free[d], queue[d])
    BY <1>1, <2>2 DEF Owned
  <2>4. call'[d] = c /\ \A e \in Download : e # d => call'[e] = call[e]
    BY <1>1, <2>1
  <2>5. Downloads'
    <3>1. call' \in [Download -> Calls]
        BY <1>1, <2>1, <2>2
    <3>2. \A e \in Download : Owned(call'[e], fetch[e], free[e], queue[e])
        BY <2>3, <2>4 DEF IInv, Downloads
    <3>3. \A e \in Download : \A k \in Chunk : fetch[e][k].at # "off" => peers # <<>>
        BY DEF IInv, Downloads
    <3>. QED BY <1>1, <1>4, <2>1, <3>1, <3>2, <3>3 DEF Downloads
  <2>6. ResolverServes'
    BY <1>4, <1>6, <2>1 DEF ResolverServes
  <2>. QED BY <1>5, <2>5, <2>6 DEF IInv
<1>8. CASE ~(peers = <<>> \/ Complete)
  <2> DEFINE c == [call[d] EXCEPT !.at = "running"]
             h == [k \in Chunk |-> [Off EXCEPT !.at = IF k \in AtOnce THEN "ready" ELSE "queued"]]
             n == Concurrency - Cardinality(AtOnce)
             q == From(Cardinality(AtOnce))
  <2>1. /\ call' = [call EXCEPT ![d].at = "running"]
        /\ fetch' = [fetch EXCEPT ![d] = h]
        /\ free' = [free EXCEPT ![d] = @ - Cardinality(AtOnce)]
        /\ queue' = [queue EXCEPT ![d] = q]
    BY <1>8 DEF Start
  <2>2. call' = [call EXCEPT ![d] = c] /\ free' = [free EXCEPT ![d] = n]
    BY <1>1, <1>3, <2>1
  <2>3. Owned(call[d], fetch[d], Concurrency, <<>>)
    BY <1>1, <1>3
  <2>4. Owned(c, h, n, q)
    BY <2>3, PermitsSharedOut
  <2>. HIDE DEF c, h, n, q
  <2>6. Downloads'
    BY <1>4, <1>8, <2>1, <2>2, <2>4, OneDownload
  <2>7. /\ call'[d] = c /\ \A e \in Download : e # d => call'[e] = call[e]
        /\ \A e \in Download : e # d => fetch'[e] = fetch[e]
    BY <1>1, <2>1, <2>2
  <2>8. ResolverServes'
    BY <1>4, <1>6, <2>7 DEF ResolverServes
  <2>. QED BY <1>5, <2>6, <2>8 DEF IInv
<1>. QED BY <1>7, <1>8

\* A download that ends.
LEMMA FinishInv ==
    ASSUME IInv, NEW d \in Download, Finish(d)
    PROVE  IInv'
<1>1. /\ call \in [Download -> Calls]
      /\ Owned(call[d], fetch[d], free[d], queue[d])
    BY DEF IInv, Downloads
<1>2. UNCHANGED <<peers, store, fetch, free, queue, pending, timers, msgs>>
    BY DEF Finish
<1> DEFINE c == IF Complete /\ Assembled = "right"
                THEN [at |-> "ok", data |-> Assembled, cached |-> FALSE]
                ELSE [call[d] EXCEPT !.at = "failed"]
<1>3. call' = [call EXCEPT ![d] = c]
    BY <1>1 DEF Finish
<1>4. c \in Calls /\ c.at # "idle"
    BY <1>1 DEF Calls
<1>. HIDE DEF c
<1>5. Owned(c, fetch[d], free[d], queue[d])
    BY <1>1, <1>4 DEF Owned
<1>6. call'[d] = c /\ \A e \in Download : e # d => call'[e] = call[e]
    BY <1>1, <1>3
<1>7. Downloads'
  <2>1. call' \in [Download -> Calls]
    BY <1>1, <1>3, <1>4
  <2>2. \A e \in Download : Owned(call'[e], fetch[e], free[e], queue[e])
    BY <1>5, <1>6 DEF IInv, Downloads
  <2>. QED BY <1>2, <2>1, <2>2 DEF IInv, Downloads
<1>8. Shared' /\ ResolverServes'
    BY <1>2 DEF IInv, Shared, ResolverServes
<1>. QED BY <1>7, <1>8 DEF IInv

\* A permit acquired.
LEMMA BeginInv ==
    ASSUME IInv, NEW d \in Download, NEW k \in Chunk, Begin(d, k)
    PROVE  IInv'
<1>1. 0 \in Nat /\ 0 <= MaxTries
    BY TransferAssumption
<1>2. fetch[d][k].at \in {"ready", "got"} /\ Attempt(d, k, 0)
      /\ peers' = peers /\ call' = call /\ store' = store
    BY DEF Begin
<1>3. /\ Downloads' /\ ResolverServes'
      /\ pending' \in [Chunk -> SUBSET (Download \X Nat)]
      /\ timers' \in Seq(Download \X Chunk \X Nat)
      /\ msgs' \subseteq Message
    BY <1>1, <1>2, AttemptStep
<1>4. Shared'
    BY <1>2, <1>3 DEF IInv, Shared
<1>. QED BY <1>3, <1>4 DEF IInv

\* A request that has returned.
LEMMA ProcessInv ==
    ASSUME IInv, NEW d \in Download, NEW k \in Chunk, Process(d, k)
    PROVE  IInv'
<1> DEFINE f == fetch[d][k]
<1>1. f \in Fetch /\ Owned(call[d], fetch[d], free[d], queue[d])
    BY DEF IInv, Downloads
<1>2. f.at = "got" /\ peers' = peers /\ call' = call
    BY DEF Process
<1>3. f.try \in Nat /\ f.try < MaxTries /\ MaxTries \in Nat
    BY <1>1, <1>2, TransferAssumption DEF Owned, Fetch
<1>4. CASE f.got \in {"nothing", "torn"}
  <2>1. Attempt(d, k, f.try + 1) /\ store' = store
    BY <1>4 DEF Process
  <2>2. f.try + 1 \in Nat /\ f.try + 1 <= MaxTries
    BY <1>3
  <2>3. /\ Downloads' /\ ResolverServes'
        /\ pending' \in [Chunk -> SUBSET (Download \X Nat)]
        /\ timers' \in Seq(Download \X Chunk \X Nat)
        /\ msgs' \subseteq Message
    BY <1>2, <2>1, <2>2, AttemptStep
  <2>4. Shared'
    BY <1>2, <2>1, <2>3 DEF IInv, Shared
  <2>. QED BY <2>3, <2>4 DEF IInv
<1>5. CASE f.got \notin {"nothing", "torn"}
  <2> DEFINE g == [f EXCEPT !.at = "done"]
  <2>1. store' = [store EXCEPT ![k] = f.got] /\ Settle(d, k, g)
        /\ pending' = pending /\ timers' = timers /\ msgs' = msgs
    BY <1>5 DEF Process
  <2>2. f.got \in {"right", "wrong"}
    BY <1>1, <1>5 DEF Fetch, Copy
  <2>3. g \in Fetch /\ g.at = "done"
    BY <1>1 DEF Fetch
  <2>. HIDE DEF g
  <2>4. Downloads' /\ ResolverServes'
    BY <1>2, <2>1, <2>3, SettleStep
  <2>5. Shared'
    BY <1>2, <2>1, <2>2 DEF IInv, Shared
  <2>. QED BY <2>4, <2>5 DEF IInv
<1>. QED BY <1>4, <1>5

\* A timer that fires.
LEMMA TimerInv == ASSUME IInv, TimerFires PROVE IInv'
<1> DEFINE d == Head(timers)[1]
           k == Head(timers)[2]
           t == Head(timers)[3]
<1>1. timers \in Seq(Download \X Chunk \X Nat) /\ timers # <<>>
    BY DEF IInv, Shared, TimerFires
<1>2. d \in Download /\ k \in Chunk /\ t \in Nat /\ Tail(timers) \in Seq(Download \X Chunk \X Nat)
    BY <1>1
<1>3. timers' = Tail(timers) /\ UNCHANGED <<peers, store, call, free, queue, msgs>>
    BY DEF TimerFires
<1>4. IF pending[k] = {} THEN UNCHANGED <<fetch, pending>>
      ELSE Resolve(<<d, t>>, k, "nothing") /\ pending' = [pending EXCEPT ![k] = {}]
    BY DEF TimerFires
<1>. HIDE DEF d, k, t
<1>5. Downloads' /\ ResolverServes'
  <2>1. CASE pending[k] = {}
    BY <1>3, <1>4, <2>1 DEF IInv, Downloads, ResolverServes
  <2>2. CASE pending[k] # {}
    <3>1. Resolve(<<d, t>>, k, "nothing") /\ pending' = [pending EXCEPT ![k] = {}]
        BY <1>4, <2>2
    <3>2. "nothing" \in Copy \cup {"nothing"}
        OBVIOUS
    <3>. QED BY <1>2, <1>3, <3>1, <3>2, ResolveStep
  <2>. QED BY <2>1, <2>2
<1>6. pending' \in [Chunk -> SUBSET (Download \X Nat)]
    BY <1>4 DEF IInv, Shared
<1>7. Shared'
    BY <1>2, <1>3, <1>6 DEF IInv, Shared
<1>. QED BY <1>5, <1>7 DEF IInv

\* A chunk that arrives.
LEMMA ReceiveInv ==
    ASSUME IInv, NEW m \in msgs, Receive(m)
    PROVE  IInv'
<1>1. m.type = "response" /\ m \in Message
    BY DEF IInv, Shared, Receive
<1>2. m.k \in Chunk /\ m.copy \in Copy \cup {"nothing"}
    BY <1>1 DEF Message
<1>3. msgs' \subseteq msgs /\ UNCHANGED <<peers, store, call, free, queue, timers>>
    BY DEF Receive
<1>4. Downloads' /\ ResolverServes'
  <2>1. CASE pending[m.k] = {}
    <3>1. UNCHANGED <<fetch, pending>>
        BY <2>1 DEF Receive
    <3>. QED BY <1>3, <3>1 DEF IInv, Downloads, ResolverServes
  <2>2. CASE pending[m.k] # {}
    <3>1. PICK r \in pending[m.k] : Resolve(r, m.k, m.copy)
        BY <2>2 DEF Receive
    <3>2. pending' = [pending EXCEPT ![m.k] = {}]
        BY <2>2 DEF Receive
    <3>3. r \in Download \X Nat
        BY <1>2, <3>1 DEF IInv, Shared
    <3>4. PICK d \in Download, t \in Nat : r = <<d, t>>
        BY <3>3
    <3>5. Resolve(<<d, t>>, m.k, m.copy)
        BY <3>1, <3>4
    <3>. QED BY <1>2, <1>3, <3>2, <3>5, ResolveStep
  <2>. QED BY <2>1, <2>2
<1>5. pending' \in [Chunk -> SUBSET (Download \X Nat)]
    BY DEF IInv, Shared, Receive
<1>6. Shared'
    BY <1>3, <1>5 DEF IInv, Shared
<1>. QED BY <1>4, <1>6 DEF IInv

\* A provider's answer.
LEMMA AnswerInv ==
    ASSUME IInv, NEW m \in msgs, Answer(m)
    PROVE  IInv'
<1>1. UNCHANGED <<peers, store, call, fetch, free, queue, pending, timers>>
    BY DEF Answer
<1>2. m \in Message /\ m.type = "request"
    BY DEF IInv, Shared, Answer
<1>3. m.d \in Download /\ m.k \in Chunk /\ m.try \in Nat
    BY <1>2 DEF Message
<1>4. CopyOf(m.peer) \in Copy
    BY DEF CopyOf, Copy
<1>5. [type |-> "response", copy |-> CopyOf(m.peer), d |-> m.d, k |-> m.k, try |-> m.try]
        \in Message
    BY <1>3, <1>4 DEF Message
<1>6. msgs' \subseteq Message
    BY <1>5 DEF IInv, Shared, Answer
<1>7. Shared' /\ Downloads' /\ ResolverServes'
    BY <1>1, <1>6 DEF IInv, Shared, Downloads, ResolverServes
<1>. QED BY <1>7 DEF IInv

\* A message that is lost.
LEMMA LoseInv ==
    ASSUME IInv, NEW m \in msgs, Lose(m)
    PROVE  IInv'
<1>1. msgs' \subseteq msgs /\ UNCHANGED <<peers, store, call, fetch, free, queue, pending, timers>>
    BY DEF Lose
<1>. QED BY <1>1 DEF IInv, Shared, Downloads, ResolverServes

\* A provider that makes itself known.
LEMMA AnnounceInv ==
    ASSUME IInv, NEW p \in Peer, Announce(p)
    PROVE  IInv'
<1>1. peers' = Append(peers, p) /\ UNCHANGED <<store, call, fetch, free, queue, pending, timers, msgs>>
    BY DEF Announce
<1>2. peers \in Seq(Peer)
    BY DEF IInv, Shared
<1>3. peers' \in Seq(Peer) /\ peers' # <<>>
    BY <1>1, <1>2
<1>4. Shared' /\ ResolverServes'
    BY <1>1, <1>3 DEF IInv, Shared, ResolverServes
<1>5. Downloads'
    BY <1>1, <1>3 DEF IInv, Downloads
<1>. QED BY <1>4, <1>5 DEF IInv

\* Every step keeps the invariant.
LEMMA NextInv == IInv /\ [Next]_vars => IInv'
<1>. SUFFICES ASSUME IInv, [Next]_vars PROVE IInv'
    OBVIOUS
<1>1. ASSUME NEW d \in Download, Start(d) PROVE IInv'
    BY <1>1, StartInv
<1>2. ASSUME NEW d \in Download, Finish(d) PROVE IInv'
    BY <1>2, FinishInv
<1>3. ASSUME NEW d \in Download, NEW k \in Chunk, Begin(d, k) PROVE IInv'
    BY <1>3, BeginInv
<1>4. ASSUME NEW d \in Download, NEW k \in Chunk, Process(d, k) PROVE IInv'
    BY <1>4, ProcessInv
<1>5. CASE TimerFires
    BY <1>5, TimerInv
<1>6. ASSUME NEW m \in msgs, Receive(m) PROVE IInv'
    BY <1>6, ReceiveInv
<1>7. ASSUME NEW m \in msgs, Answer(m) PROVE IInv'
    BY <1>7, AnswerInv
<1>8. ASSUME NEW m \in msgs, Lose(m) PROVE IInv'
    BY <1>8, LoseInv
<1>9. ASSUME NEW p \in Peer, Announce(p) PROVE IInv'
    BY <1>9, AnnounceInv
<1>10. CASE UNCHANGED vars
    BY <1>10 DEF vars, IInv, Shared, Downloads, ResolverServes
<1>. QED BY <1>1, <1>2, <1>3, <1>4, <1>5, <1>6, <1>7, <1>8, <1>9, <1>10 DEF Next

\* The invariant holds in every reachable state.
LEMMA Invariance == Spec => []IInv
  BY InitInv, NextInv, PTL DEF Spec

-----------------------------------------------------------------------------
\* Types are kept: what came torn is never stored, and a semaphore never has more
\* permits than it was made with (Semaphore, InMemoryChunkStore).
THEOREM TypeCorrect == Spec => []TypeOK
<1>1. IInv => TypeOK
    BY DEF IInv, Shared, Downloads, TypeOK, Calls
<1>. QED BY <1>1, Invariance, PTL

\* For any number of chunks, permits and attempts: no permit is lost or made, and
\* no chunk queues for a permit that is free (Semaphore, downloadOne).
THEOREM PermitsConserved == Spec => []PermitsKept
<1>1. \A d \in Download : Busy(d) = Holding(fetch[d])
    BY DEF Busy, Holding
<1>2. IInv => PermitsKept
    BY <1>1 DEF IInv, Downloads, Owned, PermitsKept
<1>. QED BY <1>2, Invariance, PTL

\* For any number of downloads that share the engine: a resolver under a chunk's key
\* belongs to the latest attempt of a request that still waits (TransferEngine.pending).
THEOREM ResolversServe == Spec => []ResolverServes
<1>1. IInv => ResolverServes
    BY DEF IInv
<1>. QED BY <1>1, Invariance, PTL

-----------------------------------------------------------------------------
\* Whatever a step does to chunk k of d, another chunk at most gets its permit.
OthersKept(d, k) ==
    \A e \in Download : \A x \in Chunk :
        e # d \/ x # k =>
            \/ fetch'[e][x] = fetch[e][x]
            \/ /\ fetch[e][x].at = "queued"
               /\ fetch'[e][x] = [fetch[e][x] EXCEPT !.at = "ready"]

\* What the end of one chunk makes of the fetches.
LEMMA SettleLeaves ==
    ASSUME IInv, NEW d \in Download, NEW k \in Chunk, NEW g,
           fetch[d][k].at \in {"ready", "got"}, Settle(d, k, g)
    PROVE  fetch'[d][k] = g /\ OthersKept(d, k)
<1>1. /\ fetch \in [Download -> [Chunk -> Fetch]]
      /\ Owned(call[d], fetch[d], free[d], queue[d])
    BY DEF IInv, Downloads
<1>2. CASE queue[d] = <<>>
    BY <1>1, <1>2 DEF Settle, OthersKept
<1>3. CASE queue[d] # <<>>
  <2> DEFINE w == Head(queue[d])
  <2>1. queue[d] \in Seq(Chunk) /\ \A i \in 1..Len(queue[d]) : fetch[d][queue[d][i]].at = "queued"
    BY <1>1 DEF Owned
  <2>2. w = queue[d][1] /\ 1 \in 1..Len(queue[d]) /\ queue[d][1] \in Chunk
    BY <1>3, <2>1
  <2>3. w \in Chunk /\ fetch[d][w].at = "queued" /\ w # k
    BY <2>1, <2>2
  <2>4. fetch' = [fetch EXCEPT ![d][k] = g, ![d][w].at = "ready"]
    BY <1>3 DEF Settle
  <2>. HIDE DEF w
  <2>5. fetch' = [fetch EXCEPT ![d] =
                     [fetch[d] EXCEPT ![k] = g, ![w] = [fetch[d][w] EXCEPT !.at = "ready"]]]
    BY <1>1, <2>3, <2>4
  <2>6. /\ fetch'[d] = [fetch[d] EXCEPT ![k] = g, ![w] = [fetch[d][w] EXCEPT !.at = "ready"]]
        /\ \A e \in Download : e # d => fetch'[e] = fetch[e]
    BY <1>1, <2>5
  <2>7. /\ fetch'[d][k] = g
        /\ fetch'[d][w] = [fetch[d][w] EXCEPT !.at = "ready"]
        /\ \A x \in Chunk : x # k /\ x # w => fetch'[d][x] = fetch[d][x]
    BY <1>1, <2>3, <2>6
  <2>. QED BY <2>3, <2>6, <2>7 DEF OthersKept
<1>. QED BY <1>2, <1>3

\* What an attempt makes of them.
LEMMA AttemptLeaves ==
    ASSUME IInv, NEW d \in Download, NEW k \in Chunk, NEW t,
           fetch[d][k].at \in {"ready", "got"}, Attempt(d, k, t)
    PROVE  /\ OthersKept(d, k)
           /\ fetch'[d][k].try = t
           /\ t < MaxTries =>
                 /\ fetch'[d][k].at = "asking"
                 /\ fetch'[d][k].got = "nothing"
                 /\ fetch'[d][k].peer = Provider(k, t)
           /\ ~(t < MaxTries) => /\ fetch'[d][k].at = "gaveup"
                                 /\ fetch'[d][k].got = fetch[d][k].got
<1>1. fetch \in [Download -> [Chunk -> Fetch]] /\ fetch[d][k] \in Fetch
    BY DEF IInv, Downloads
<1>2. CASE t < MaxTries
  <2>1. fetch' = [fetch EXCEPT ![d][k] =
                     [at |-> "asking", try |-> t, peer |-> Provider(k, t), got |-> "nothing"]]
    BY <1>2 DEF Attempt
  <2>. QED BY <1>1, <1>2, <2>1 DEF OthersKept
<1>3. CASE ~(t < MaxTries)
  <2>1. Settle(d, k, [fetch[d][k] EXCEPT !.at = "gaveup", !.try = t])
    BY <1>3 DEF Attempt
  <2>2. OthersKept(d, k) /\ fetch'[d][k] = [fetch[d][k] EXCEPT !.at = "gaveup", !.try = t]
    BY <2>1, SettleLeaves
  <2>. QED BY <1>1, <1>3, <2>2 DEF Fetch
<1>. QED BY <1>2, <1>3

\* What a settled promise makes of them.
LEMMA ResolveLeaves ==
    ASSUME IInv, NEW d \in Download, NEW k \in Chunk, NEW t, NEW got, Resolve(<<d, t>>, k, got)
    PROVE  /\ OthersKept(d, k)
           /\ \/ ~(fetch[d][k].at = "asking" /\ fetch[d][k].try = t) /\ fetch'[d][k] = fetch[d][k]
              \/ /\ fetch[d][k].at = "asking" /\ fetch[d][k].try = t
                 /\ fetch'[d][k].at = "got" /\ fetch'[d][k].got = got
                 /\ fetch'[d][k].try = t
<1>1. fetch \in [Download -> [Chunk -> Fetch]] /\ fetch[d][k] \in Fetch
    BY DEF IInv, Downloads
<1>2. OthersKept(d, k)
    BY <1>1 DEF Resolve, OthersKept
<1>3. fetch'[d][k] = IF fetch[d][k].at = "asking" /\ fetch[d][k].try = t
                     THEN [fetch[d][k] EXCEPT !.at = "got", !.got = got]
                     ELSE fetch[d][k]
    BY <1>1 DEF Resolve
<1>. QED BY <1>1, <1>2, <1>3 DEF Fetch

\* A timer that fires leaves the fetches alone, or resolves the request it belongs to.
LEMMA TimerLeaves ==
    ASSUME IInv, TimerFires
    PROVE  \E d \in Download : \E k \in Chunk : \E t \in Nat :
              /\ Head(timers) = <<d, k, t>>
              /\ \/ fetch' = fetch /\ pending' = pending /\ pending[k] = {}
                 \/ Resolve(<<d, t>>, k, "nothing") /\ pending[k] # {}
                    /\ pending' = [pending EXCEPT ![k] = {}]
<1>1. timers \in Seq(Download \X Chunk \X Nat) /\ timers # <<>>
    BY DEF IInv, Shared, TimerFires
<1>2. Head(timers) \in Download \X Chunk \X Nat
    BY <1>1
<1>3. PICK d \in Download, k \in Chunk, t \in Nat : Head(timers) = <<d, k, t>>
    BY <1>2
<1>4. Head(timers)[1] = d /\ Head(timers)[2] = k /\ Head(timers)[3] = t
    BY <1>3
<1>5. IF pending[k] = {} THEN UNCHANGED <<fetch, pending>>
      ELSE Resolve(<<d, t>>, k, "nothing") /\ pending' = [pending EXCEPT ![k] = {}]
    BY <1>4 DEF TimerFires
<1>6. \/ fetch' = fetch /\ pending' = pending /\ pending[k] = {}
      \/ Resolve(<<d, t>>, k, "nothing") /\ pending[k] # {} /\ pending' = [pending EXCEPT ![k] = {}]
    BY <1>5
<1>. QED BY <1>3, <1>6

\* A chunk that arrives does too, and what resolves is the request that waits.
LEMMA ReceiveLeaves ==
    ASSUME IInv, NEW m \in msgs, Receive(m)
    PROVE  /\ m.k \in Chunk /\ m.copy \in Copy
           /\ \/ fetch' = fetch /\ pending' = pending
              \/ \E d \in Download : \E t \in Nat :
                    /\ Resolve(<<d, t>>, m.k, m.copy)
                    /\ pending' = [pending EXCEPT ![m.k] = {}]
                    /\ fetch[d][m.k].at = "asking" /\ fetch[d][m.k].try = t
<1>1. m.type = "response" /\ m \in Message
    BY DEF IInv, Shared, Receive
<1>2. m.k \in Chunk /\ m.copy \in Copy
    BY <1>1 DEF Message
<1>3. CASE pending[m.k] = {}
    BY <1>2, <1>3 DEF Receive
<1>4. CASE pending[m.k] # {}
  <2>1. PICK r \in pending[m.k] : Resolve(r, m.k, m.copy)
    BY <1>4 DEF Receive
  <2>2. pending' = [pending EXCEPT ![m.k] = {}]
    BY <1>4 DEF Receive
  <2>3. r \in Download \X Nat
    BY <1>2, <2>1 DEF IInv, Shared
  <2>4. PICK d \in Download, t \in Nat : r = <<d, t>>
    BY <2>3
  <2>5. fetch[d][m.k].at = "asking" /\ fetch[d][m.k].try = t
    BY <1>2, <2>1, <2>4 DEF IInv, ResolverServes
  <2>6. Resolve(<<d, t>>, m.k, m.copy)
    BY <2>1, <2>4
  <2>. QED BY <1>2, <2>2, <2>5, <2>6
<1>. QED BY <1>3, <1>4

\* What a download that starts makes of its fetches.
LEMMA StartLeaves ==
    ASSUME IInv, NEW d \in Download, Start(d)
    PROVE  /\ \A k \in Chunk : fetch[d][k].at = "off"
           /\ \A e \in Download : e # d => fetch'[e] = fetch[e]
           /\ \/ fetch'[d] = fetch[d]
              \/ \A k \in Chunk : /\ fetch'[d][k].at \in {"ready", "queued"}
                                  /\ fetch'[d][k].got = "nothing"
<1>1. fetch \in [Download -> [Chunk -> Fetch]] /\ Owned(call[d], fetch[d], free[d], queue[d])
    BY DEF IInv, Downloads
<1>2. \A k \in Chunk : fetch[d][k].at = "off"
    BY <1>1 DEF Start, Owned
<1>3. CASE peers = <<>> \/ Complete
    BY <1>2, <1>3 DEF Start
<1>4. CASE ~(peers = <<>> \/ Complete)
  <2>1. fetch' = [fetch EXCEPT ![d] =
                     [k \in Chunk |->
                         [Off EXCEPT !.at = IF k \in AtOnce THEN "ready" ELSE "queued"]]]
    BY <1>4 DEF Start
  <2>2. \A k \in Chunk : fetch'[d][k] = [Off EXCEPT !.at = IF k \in AtOnce THEN "ready" ELSE "queued"]
    BY <1>1, <2>1
  <2>3. \A k \in Chunk : fetch'[d][k].at \in {"ready", "queued"} /\ fetch'[d][k].got = "nothing"
    BY <2>2 DEF Off
  <2>. QED BY <1>1, <1>2, <2>1, <2>3
<1>. QED BY <1>3, <1>4
-----------------------------------------------------------------------------
\* A chunk that is done is in the store; one given up was asked for as often as allowed.
EndsMean ==
    \A d \in Download : \A k \in Chunk :
        /\ fetch[d][k].at = "done" => store[k] # "none"
        /\ fetch[d][k].at = "gaveup" => fetch[d][k].try = MaxTries

\* A step that stores nothing and ends chunk k of d at most by giving it up.
LEMMA EndsMeanKept ==
    ASSUME EndsMean, NEW d \in Download, NEW k \in Chunk, OthersKept(d, k),
           \A x \in Chunk : store[x] # "none" => store'[x] # "none",
           fetch'[d][k].at = "done" => store'[k] # "none",
           fetch'[d][k].at = "gaveup" => fetch'[d][k].try = MaxTries
    PROVE  EndsMean'
<1>1. SUFFICES ASSUME NEW e \in Download, NEW x \in Chunk
               PROVE  /\ fetch'[e][x].at = "done" => store'[x] # "none"
                      /\ fetch'[e][x].at = "gaveup" => fetch'[e][x].try = MaxTries
    BY DEF EndsMean
<1>2. CASE e = d /\ x = k
    BY <1>2
<1>3. CASE e # d \/ x # k
  <2>1. CASE fetch'[e][x] = fetch[e][x]
    BY <2>1 DEF EndsMean
  <2>2. CASE /\ fetch[e][x].at = "queued"
             /\ fetch'[e][x] = [fetch[e][x] EXCEPT !.at = "ready"]
    <3>1. fetch'[e][x].at \notin {"done", "gaveup"} \/ fetch'[e][x].at = fetch[e][x].at
        BY <2>2
    <3>2. fetch[e][x].at = "queued" => fetch[e][x].at \notin {"done", "gaveup"}
        OBVIOUS
    <3>. QED BY <2>2, <3>1, <3>2
  <2>. QED BY <1>3, <2>1, <2>2 DEF OthersKept
<1>. QED BY <1>2, <1>3

\* Every step keeps it.
LEMMA EndsMeanNext == IInv /\ EndsMean /\ [Next]_vars => EndsMean'
<1>. SUFFICES ASSUME IInv, EndsMean, [Next]_vars PROVE EndsMean'
    OBVIOUS
<1>0. /\ fetch \in [Download -> [Chunk -> Fetch]]
      /\ store \in [Chunk -> {"none", "right", "wrong"}]
      /\ \A d \in Download : Owned(call[d], fetch[d], free[d], queue[d])
    BY DEF IInv, Shared, Downloads
<1>1. ASSUME NEW d \in Download, Start(d) PROVE EndsMean'
  <2>1. store' = store
    BY <1>1 DEF Start
  <2>2. /\ \A e \in Download : e # d => fetch'[e] = fetch[e]
        /\ \/ fetch'[d] = fetch[d]
           \/ \A k \in Chunk : fetch'[d][k].at \in {"ready", "queued"}
    BY <1>1, StartLeaves
  <2>. QED BY <2>1, <2>2 DEF EndsMean
<1>2. ASSUME NEW d \in Download, Finish(d) PROVE EndsMean'
    BY <1>2 DEF Finish, EndsMean
<1>3. ASSUME NEW d \in Download, NEW k \in Chunk, Begin(d, k) PROVE EndsMean'
  <2>1. fetch[d][k].at \in {"ready", "got"} /\ Attempt(d, k, 0) /\ store' = store
    BY <1>3 DEF Begin
  <2>2. /\ OthersKept(d, k) /\ fetch'[d][k].try = 0
        /\ (0 < MaxTries) => fetch'[d][k].at = "asking"
        /\ ~(0 < MaxTries) => fetch'[d][k].at = "gaveup"
    BY <2>1, AttemptLeaves
  <2>4. ~(0 < MaxTries) => MaxTries = 0
    BY TransferAssumption
  <2>5. /\ fetch'[d][k].at # "done"
        /\ fetch'[d][k].at = "gaveup" => fetch'[d][k].try = MaxTries
    BY <2>2, <2>4
  <2>. QED BY <2>1, <2>2, <2>5, EndsMeanKept
<1>4. ASSUME NEW d \in Download, NEW k \in Chunk, Process(d, k) PROVE EndsMean'
  <2> DEFINE f == fetch[d][k]
  <2>0. f \in Fetch /\ f.at = "got" /\ f.try < MaxTries /\ f.try \in Nat /\ MaxTries \in Nat
    BY <1>0, <1>4, TransferAssumption DEF Process, Owned, Fetch
  <2>1. CASE f.got \in {"nothing", "torn"}
    <3>1. Attempt(d, k, f.try + 1) /\ store' = store
        BY <1>4, <2>1 DEF Process
    <3>2. /\ OthersKept(d, k) /\ fetch'[d][k].try = f.try + 1
          /\ (f.try + 1 < MaxTries) => fetch'[d][k].at = "asking"
          /\ ~(f.try + 1 < MaxTries) => fetch'[d][k].at = "gaveup"
        BY <2>0, <3>1, AttemptLeaves
    <3>3. ~(f.try + 1 < MaxTries) => f.try + 1 = MaxTries
        BY <2>0
    <3>4. /\ fetch'[d][k].at # "done"
          /\ fetch'[d][k].at = "gaveup" => fetch'[d][k].try = MaxTries
        BY <3>2, <3>3
    <3>. QED BY <3>1, <3>2, <3>4, EndsMeanKept
  <2>2. CASE f.got \notin {"nothing", "torn"}
    <3>1. store' = [store EXCEPT ![k] = f.got] /\ Settle(d, k, [f EXCEPT !.at = "done"])
        BY <1>4, <2>2 DEF Process
    <3>2. OthersKept(d, k) /\ fetch'[d][k] = [f EXCEPT !.at = "done"]
        BY <2>0, <3>1, SettleLeaves
    <3>3. f.got \in {"right", "wrong"}
        BY <2>0, <2>2 DEF Fetch, Copy
    <3>4. store'[k] # "none" /\ \A x \in Chunk : store[x] # "none" => store'[x] # "none"
        BY <1>0, <3>1, <3>3
    <3>5. fetch'[d][k].at # "gaveup"
        BY <2>0, <3>2 DEF Fetch
    <3>. QED BY <3>2, <3>4, <3>5, EndsMeanKept
  <2>. QED BY <2>1, <2>2
<1>5. CASE TimerFires
  <2>1. PICK d \in Download, k \in Chunk, t \in Nat :
            fetch' = fetch \/ Resolve(<<d, t>>, k, "nothing")
    BY <1>5, TimerLeaves
  <2>2. store' = store
    BY <1>5 DEF TimerFires
  <2>3. CASE fetch' = fetch
    BY <2>2, <2>3 DEF EndsMean
  <2>4. CASE Resolve(<<d, t>>, k, "nothing")
    <3>1. OthersKept(d, k) /\ (fetch'[d][k].at = "got" \/ fetch'[d][k] = fetch[d][k])
        BY <2>4, ResolveLeaves
    <3>3. /\ fetch'[d][k].at = "done" => store'[k] # "none"
          /\ fetch'[d][k].at = "gaveup" => fetch'[d][k].try = MaxTries
        BY <2>2, <3>1 DEF EndsMean
    <3>. QED BY <2>2, <3>1, <3>3, EndsMeanKept
  <2>. QED BY <2>1, <2>3, <2>4
<1>6. ASSUME NEW m \in msgs, Receive(m) PROVE EndsMean'
  <2>0. store' = store
    BY <1>6 DEF Receive
  <2>1. m.k \in Chunk /\ (fetch' = fetch \/ \E d \in Download : \E t \in Nat :
                                              Resolve(<<d, t>>, m.k, m.copy))
    BY <1>6, ReceiveLeaves
  <2>2. CASE fetch' = fetch
    BY <2>0, <2>2 DEF EndsMean
  <2>3. ASSUME NEW d \in Download, NEW t \in Nat, Resolve(<<d, t>>, m.k, m.copy) PROVE EndsMean'
    <3>1. OthersKept(d, m.k) /\ (fetch'[d][m.k].at = "got" \/ fetch'[d][m.k] = fetch[d][m.k])
        BY <2>1, <2>3, ResolveLeaves
    <3>3. /\ fetch'[d][m.k].at = "done" => store'[m.k] # "none"
          /\ fetch'[d][m.k].at = "gaveup" => fetch'[d][m.k].try = MaxTries
        BY <2>0, <2>1, <3>1 DEF EndsMean
    <3>. QED BY <2>0, <2>1, <3>1, <3>3, EndsMeanKept
  <2>. QED BY <2>1, <2>2, <2>3
<1>7. ASSUME NEW m \in msgs, Answer(m) \/ Lose(m) PROVE EndsMean'
    BY <1>7 DEF Answer, Lose, EndsMean
<1>8. ASSUME NEW p \in Peer, Announce(p) PROVE EndsMean'
    BY <1>8 DEF Announce, EndsMean
<1>9. CASE UNCHANGED vars
    BY <1>9 DEF vars, EndsMean
<1>. QED BY <1>1, <1>2, <1>3, <1>4, <1>5, <1>6, <1>7, <1>8, <1>9 DEF Next

\* Why a download failed, as it can be told from the steps: once it has, its
\* chunks have all ended, and stay as they are.
Reasoned ==
    \A d \in Download : call[d].at = "failed" =>
        \/ \A k \in Chunk : fetch[d][k].at = "off"
        \/ /\ Settled(d)
           /\ \/ \E k \in Chunk : fetch[d][k].at = "gaveup"
              \/ \E k \in Chunk : store[k] = "wrong"

\* A step of the only download's chunks does not happen once it has failed.
LEMMA ReasonStays ==
    ASSUME NEW d, Download = {d}, IInv, Reasoned,
           call' = call,
           \/ fetch' = fetch /\ store' = store
           \/ \E k \in Chunk : fetch[d][k].at \in {"ready", "got", "asking"}
    PROVE  Reasoned'
<1>1. CASE fetch' = fetch /\ store' = store
    BY <1>1 DEF Reasoned, Settled
<1>2. CASE \E k \in Chunk : fetch[d][k].at \in {"ready", "got", "asking"}
  <2>1. call[d].at # "failed"
    BY <1>2 DEF Reasoned, Settled
  <2>. QED BY <2>1 DEF Reasoned
<1>. QED BY <1>1, <1>2

\* What is not right, with every chunk there, is wrong.
LEMMA NotRight ==
    ASSUME IInv, Complete, Assembled # "right"
    PROVE  \E k \in Chunk : store[k] = "wrong"
<1>1. store \in [Chunk -> {"none", "right", "wrong"}]
    BY DEF IInv, Shared
<1>. QED BY <1>1 DEF Complete, Assembled

\* Every step keeps the reason.
LEMMA ReasonedNext ==
    ASSUME NEW d, Download = {d}
    PROVE  IInv /\ EndsMean /\ Reasoned /\ [Next]_vars => Reasoned'
<1>. SUFFICES ASSUME IInv, EndsMean, Reasoned, [Next]_vars PROVE Reasoned'
    OBVIOUS
<1>0. /\ fetch \in [Download -> [Chunk -> Fetch]] /\ call \in [Download -> Calls] /\ d \in Download
    BY DEF IInv, Downloads
<1>1. CASE Start(d)
  <2>1. \A k \in Chunk : fetch[d][k].at = "off"
    BY <1>1, StartLeaves
  <2>2. CASE peers = <<>>
    <3>1. fetch' = fetch
        BY <1>1, <2>2 DEF Start
    <3>. QED BY <2>1, <3>1 DEF Reasoned
  <2>3. CASE peers # <<>>
    <3>1. call'[d].at # "failed"
        BY <1>0, <1>1, <2>3 DEF Start, Calls
    <3>. QED BY <3>1 DEF Reasoned
  <2>. QED BY <2>2, <2>3
<1>2. CASE Finish(d)
  <2>1. Settled(d) /\ fetch' = fetch /\ store' = store
    BY <1>2 DEF Finish
  <2>2. CASE Complete /\ Assembled = "right"
    <3>1. call'[d].at = "ok"
        BY <1>0, <1>2, <2>2 DEF Finish
    <3>. QED BY <3>1 DEF Reasoned
  <2>3. CASE ~(Complete /\ Assembled = "right")
    <3>1. \/ \E k \in Chunk : fetch[d][k].at = "gaveup"
          \/ \E k \in Chunk : store[k] = "wrong"
      <4>1. CASE Complete
        BY <2>3, <4>1, NotRight
      <4>2. CASE ~Complete
        <5>1. PICK k \in Chunk : store[k] = "none"
            BY <4>2 DEF Complete
        <5>2. fetch[d][k].at # "done"
            BY <1>0, <5>1 DEF EndsMean
        <5>. QED BY <2>1, <5>2 DEF Settled
      <4>. QED BY <4>1, <4>2
    <3>. QED BY <2>1, <3>1 DEF Reasoned, Settled
  <2>. QED BY <2>2, <2>3
<1>3. ASSUME NEW k \in Chunk, Begin(d, k) \/ Process(d, k) PROVE Reasoned'
  <2>1. call' = call /\ fetch[d][k].at \in {"ready", "got", "asking"}
    BY <1>3 DEF Begin, Process
  <2>. QED BY <2>1, ReasonStays
<1>4. CASE TimerFires
  <2>1. PICK k \in Chunk, t \in Nat : \/ fetch' = fetch
                                      \/ Resolve(<<d, t>>, k, "nothing")
    BY <1>4, TimerLeaves
  <2>2. call' = call /\ store' = store
    BY <1>4 DEF TimerFires
  <2>3. CASE fetch[d][k].at = "asking"
    BY <2>2, <2>3, ReasonStays
  <2>4. CASE fetch[d][k].at # "asking"
    <3>1. fetch' = fetch
        BY <1>0, <2>1, <2>4 DEF Resolve
    <3>. QED BY <2>2, <3>1, ReasonStays
  <2>. QED BY <2>3, <2>4
<1>5. ASSUME NEW m \in msgs, Receive(m) PROVE Reasoned'
  <2>1. call' = call /\ store' = store
    BY <1>5 DEF Receive
  <2>2. m.k \in Chunk /\ (fetch' = fetch \/ fetch[d][m.k].at = "asking")
    BY <1>5, ReceiveLeaves
  <2>. QED BY <2>1, <2>2, ReasonStays
<1>6. ASSUME NEW m \in msgs, Answer(m) \/ Lose(m) PROVE Reasoned'
    BY <1>6, ReasonStays DEF Answer, Lose
<1>7. ASSUME NEW p \in Peer, Announce(p) PROVE Reasoned'
    BY <1>7, ReasonStays DEF Announce
<1>8. CASE UNCHANGED vars
    BY <1>8, ReasonStays DEF vars
<1>. QED BY <1>1, <1>2, <1>3, <1>4, <1>5, <1>6, <1>7, <1>8 DEF Next

\* A lone download that failed did so because nobody was listed, because a chunk was
\* asked for as often as allowed, or because some provider has another version
\* (TransferEngine.download): never because of what the engine itself did.
THEOREM FailedForReason ==
    ASSUME NEW d, Download = {d}
    PROVE  Spec => []FailsForReason
<1>1. Init => EndsMean /\ Reasoned
  <2>1. Init => \A e \in Download : \A k \in Chunk : fetch[e][k].at = "off"
    BY DEF Init, Off
  <2>2. Init => \A e \in Download : call[e].at = "idle"
    BY DEF Init, Idle
  <2>. QED BY <2>1, <2>2 DEF EndsMean, Reasoned
<1>2. IInv /\ (EndsMean /\ Reasoned) /\ [Next]_vars => (EndsMean /\ Reasoned)'
    BY EndsMeanNext, ReasonedNext
<1>3. EndsMean /\ Reasoned => FailsForReason
    BY DEF EndsMean, Reasoned, FailsForReason
<1>. QED BY <1>1, <1>2, <1>3, Invariance, PTL DEF Spec
-----------------------------------------------------------------------------
\* A timer of attempt t fits a fetch that waits in this attempt, or comes too late:
\* the chunk has arrived.
Fits(f, t) ==
    \/ f.at = "asking" /\ f.try = t
    \/ f.at = "got" /\ f.got \notin {"nothing", "torn"}
    \/ f.at = "done"

TimersFit == \A i \in 1..Len(timers) : Fits(fetch[timers[i][1]][timers[i][2]], timers[i][3])

\* A chunk has at most one timer.
OneTimer == \A i, j \in 1..Len(timers) : timers[i][2] = timers[j][2] => i = j

\* No chunk comes torn.
Whole ==
    /\ \A m \in msgs : m.type = "response" => m.copy # "torn"
    /\ \A d \in Download : \A k \in Chunk : fetch[d][k].got # "torn"

\* What the timers of a lone download do: none takes another's resolver.
Timely == TimersFit /\ OneTimer /\ NoOrphan

\* What a step leaves of a fetch as far as its timer and its resolver are concerned.
LEMMA OthersFit ==
    ASSUME NEW d \in Download, NEW k \in Chunk, OthersKept(d, k),
           NEW e \in Download, NEW x \in Chunk, e # d \/ x # k
    PROVE  /\ \A t : Fits(fetch[e][x], t) => Fits(fetch'[e][x], t)
           /\ fetch'[e][x].at = "asking" => fetch'[e][x] = fetch[e][x]
           /\ fetch[e][x] \in Fetch => fetch'[e][x].got = fetch[e][x].got
<1>1. CASE fetch'[e][x] = fetch[e][x]
    BY <1>1
<1>2. CASE /\ fetch[e][x].at = "queued"
           /\ fetch'[e][x] = [fetch[e][x] EXCEPT !.at = "ready"]
  <2>1. \A t : ~Fits(fetch[e][x], t)
    BY <1>2 DEF Fits
  <2>2. fetch'[e][x].at # "asking" \/ fetch'[e][x] = fetch[e][x]
    BY <1>2
  <2>3. fetch[e][x] \in Fetch => fetch'[e][x].got = fetch[e][x].got
    BY <1>2 DEF Fetch
  <2>. QED BY <2>1, <2>2, <2>3
<1>. QED BY <1>1, <1>2 DEF OthersKept

\* A timer is a triple of the call, the chunk and the attempt.
LEMMA TimerTriple ==
    ASSUME IInv, NEW d, Download = {d}, NEW i \in 1..Len(timers)
    PROVE  /\ timers[i][1] = d /\ timers[i][2] \in Chunk /\ timers[i][3] \in Nat
           /\ timers[i] = <<d, timers[i][2], timers[i][3]>>
<1>1. timers[i] \in Download \X Chunk \X Nat
    BY DEF IInv, Shared
<1>. QED BY <1>1

\* A chunk without a timer is asked for once more, or given up.
LEMMA AttemptTimely ==
    ASSUME NEW d, Download = {d}, IInv, Timely, NEW k \in Chunk, NEW t \in Nat,
           fetch[d][k].at \in {"ready", "got"},
           fetch[d][k].at = "got" => fetch[d][k].got \in {"nothing", "torn"},
           Attempt(d, k, t)
    PROVE  Timely'
<1>0. /\ timers \in Seq(Download \X Chunk \X Nat) /\ d \in Download
      /\ pending \in [Chunk -> SUBSET (Download \X Nat)]
    BY DEF IInv, Shared
<1>1. \A i \in 1..Len(timers) : timers[i][1] = d /\ timers[i][2] \in Chunk \ {k}
  <2>1. TAKE i \in 1..Len(timers)
  <2>2. timers[i][1] = d /\ timers[i][2] \in Chunk /\ Fits(fetch[d][timers[i][2]], timers[i][3])
    BY TimerTriple DEF Timely, TimersFit
  <2>3. ~Fits(fetch[d][k], timers[i][3])
    BY DEF Fits
  <2>. QED BY <2>2, <2>3
<1>2. /\ OthersKept(d, k) /\ fetch'[d][k].try = t
      /\ t < MaxTries => fetch'[d][k].at = "asking"
      /\ ~(t < MaxTries) => fetch'[d][k].at = "gaveup"
    BY <1>0, AttemptLeaves
<1>3. \A x \in Chunk \ {k} :
        /\ \A u : Fits(fetch[d][x], u) => Fits(fetch'[d][x], u)
        /\ fetch'[d][x].at = "asking" => fetch'[d][x] = fetch[d][x]
    BY <1>0, <1>2, OthersFit
<1>4. \A i \in 1..Len(timers) : Fits(fetch'[timers[i][1]][timers[i][2]], timers[i][3])
    BY <1>1, <1>3 DEF Timely, TimersFit
<1>5. \/ t < MaxTries /\ timers' = Append(timers, <<d, k, t>>)
         /\ pending' = [pending EXCEPT ![k] = {<<d, t>>}]
      \/ ~(t < MaxTries) /\ timers' = timers /\ pending' = pending
    BY DEF Attempt
<1>6. NoOrphan'
  <2>1. SUFFICES ASSUME NEW x \in Chunk, fetch'[d][x].at = "asking"
                 PROVE  pending'[x] = {<<d, fetch'[d][x].try>>}
    BY DEF NoOrphan
  <2>2. CASE x = k
    BY <1>0, <1>2, <1>5, <2>1, <2>2
  <2>3. CASE x # k
    <3>1. fetch'[d][x] = fetch[d][x] /\ pending'[x] = pending[x]
        BY <1>0, <1>3, <1>5, <2>1, <2>3
    <3>. QED BY <1>0, <2>1, <3>1 DEF Timely, NoOrphan
  <2>. QED BY <2>2, <2>3
<1>7. CASE timers' = timers
    BY <1>4, <1>6, <1>7 DEF Timely, TimersFit, OneTimer
<1>8. CASE t < MaxTries /\ timers' = Append(timers, <<d, k, t>>)
  <2> DEFINE n == Len(timers)
  <2>1. /\ Len(timers') = n + 1 /\ timers'[n + 1] = <<d, k, t>> /\ n \in Nat
        /\ \A i \in 1..n : timers'[i] = timers[i]
    BY <1>0, <1>8
  <2>2. \A i \in 1..(n + 1) : i = n + 1 \/ i \in 1..n
    BY <2>1
  <2>. HIDE DEF n
  <2>3. Fits(fetch'[d][k], t)
    BY <1>2, <1>8 DEF Fits
  <2>4. timers'[n + 1][1] = d /\ timers'[n + 1][2] = k /\ timers'[n + 1][3] = t
    BY <2>1
  <2>5. TimersFit'
    <3>1. SUFFICES ASSUME NEW i \in 1..(n + 1)
                   PROVE  Fits(fetch'[timers'[i][1]][timers'[i][2]], timers'[i][3])
        BY <2>1 DEF TimersFit
    <3>. QED BY <1>4, <2>1, <2>2, <2>3, <2>4 DEF n
  <2>6. OneTimer'
    <3>1. SUFFICES ASSUME NEW i \in 1..(n + 1), NEW j \in 1..(n + 1), timers'[i][2] = timers'[j][2]
                   PROVE  i = j
        BY <2>1 DEF OneTimer
    <3>2. CASE i \in 1..n /\ j \in 1..n
        BY <2>1, <3>1, <3>2 DEF Timely, OneTimer, n
    <3>3. CASE i \in 1..n /\ j = n + 1
        BY <1>1, <2>1, <2>4, <3>1, <3>3 DEF n
    <3>4. CASE i = n + 1 /\ j \in 1..n
        BY <1>1, <2>1, <2>4, <3>1, <3>4 DEF n
    <3>. QED BY <2>2, <3>2, <3>3, <3>4
  <2>. QED BY <1>6, <2>5, <2>6 DEF Timely
<1>. QED BY <1>5, <1>7, <1>8

\* A promise that settles while the timers stay: the chunk's timer comes too late now,
\* or there is none.
LEMMA ResolveTimely ==
    ASSUME NEW d, Download = {d}, IInv, TimersFit, NoOrphan, NEW k \in Chunk,
           OthersKept(d, k),
           fetch'[d][k].at # "asking",
           \A t : Fits(fetch[d][k], t) => Fits(fetch'[d][k], t),
           pending' = pending \/ pending' = [pending EXCEPT ![k] = {}],
           timers' = timers
    PROVE  TimersFit' /\ NoOrphan'
<1>0. d \in Download /\ pending \in [Chunk -> SUBSET (Download \X Nat)]
    BY DEF IInv, Shared
<1>1. \A x \in Chunk : \A t : Fits(fetch[d][x], t) => Fits(fetch'[d][x], t)
    BY <1>0, OthersFit
<1>2. \A x \in Chunk : fetch'[d][x].at = "asking" => x # k /\ fetch'[d][x] = fetch[d][x]
    BY <1>0, OthersFit
<1>3. TimersFit'
  <2>1. SUFFICES ASSUME NEW i \in 1..Len(timers)
                 PROVE  Fits(fetch'[timers[i][1]][timers[i][2]], timers[i][3])
    BY DEF TimersFit
  <2>2. timers[i][1] = d /\ timers[i][2] \in Chunk
    BY TimerTriple
  <2>. QED BY <1>1, <2>2 DEF TimersFit
<1>4. NoOrphan'
  <2>1. SUFFICES ASSUME NEW x \in Chunk, fetch'[d][x].at = "asking"
                 PROVE  pending'[x] = {<<d, fetch'[d][x].try>>}
    BY DEF NoOrphan
  <2>2. x # k /\ fetch'[d][x] = fetch[d][x]
    BY <1>2, <2>1
  <2>3. pending'[x] = pending[x]
    BY <1>0, <2>2
  <2>. QED BY <1>0, <2>1, <2>2, <2>3 DEF NoOrphan
<1>. QED BY <1>3, <1>4

\* The timer that fires was its chunk's only one.
LEMMA TimerTimely ==
    ASSUME NEW d, Download = {d}, IInv, Timely, TimerFires
    PROVE  Timely'
<1>0. /\ timers \in Seq(Download \X Chunk \X Nat) /\ timers # <<>> /\ d \in Download
      /\ pending \in [Chunk -> SUBSET (Download \X Nat)] /\ timers' = Tail(timers)
    BY DEF IInv, Shared, TimerFires
<1>1. PICK k \in Chunk, t \in Nat :
          /\ Head(timers) = <<d, k, t>>
          /\ \/ fetch' = fetch /\ pending' = pending /\ pending[k] = {}
             \/ Resolve(<<d, t>>, k, "nothing") /\ pending[k] # {}
                /\ pending' = [pending EXCEPT ![k] = {}]
    BY TimerLeaves
<1>2. timers[1] = <<d, k, t>> /\ 1 \in 1..Len(timers) /\ Len(timers) \in Nat
      /\ timers[1][1] = d /\ timers[1][2] = k /\ timers[1][3] = t
    BY <1>0, <1>1
<1>3. /\ Len(timers') = Len(timers) - 1
      /\ \A i \in 1..Len(timers') : timers'[i] = timers[i + 1] /\ i + 1 \in 1..Len(timers) /\ i + 1 # 1
    BY <1>0, <1>2
<1>4. OneTimer'
  <2>1. SUFFICES ASSUME NEW i \in 1..Len(timers'), NEW j \in 1..Len(timers'),
                        timers'[i][2] = timers'[j][2]
                 PROVE  i = j
    BY DEF OneTimer
  <2>2. i + 1 = j + 1
    BY <1>3, <2>1 DEF Timely, OneTimer
  <2>. QED BY <1>3, <2>2
<1>5. \A i \in 1..Len(timers') : timers'[i][1] = d /\ timers'[i][2] \in Chunk /\ timers'[i][2] # k
                                 /\ Fits(fetch[d][timers'[i][2]], timers'[i][3])
  <2>1. TAKE i \in 1..Len(timers')
  <2>2. timers'[i] = timers[i + 1] /\ i + 1 \in 1..Len(timers) /\ i + 1 # 1
    BY <1>3
  <2>3. timers[i + 1][1] = d /\ timers[i + 1][2] \in Chunk
    BY <2>2, TimerTriple
  <2>4. timers[i + 1][2] # k
    BY <1>2, <2>2 DEF Timely, OneTimer
  <2>. QED BY <2>2, <2>3, <2>4 DEF Timely, TimersFit
<1>6. Fits(fetch[d][k], t)
    BY <1>2 DEF Timely, TimersFit
<1>7. CASE fetch[d][k].at = "asking"
  <2>1. fetch[d][k].try = t
    BY <1>6, <1>7 DEF Fits
  <2>2. pending[k] # {}
    BY <1>0, <1>7 DEF Timely, NoOrphan
  <2>3. Resolve(<<d, t>>, k, "nothing") /\ pending' = [pending EXCEPT ![k] = {}]
    BY <1>1, <2>2
  <2>4. OthersKept(d, k) /\ fetch'[d][k].at = "got"
    BY <1>0, <1>7, <2>1, <2>3, ResolveLeaves
  <2>5. \A x \in Chunk : x # k =>
            /\ \A u : Fits(fetch[d][x], u) => Fits(fetch'[d][x], u)
            /\ fetch'[d][x].at = "asking" => fetch'[d][x] = fetch[d][x]
    BY <1>0, <2>4, OthersFit
  <2>6. TimersFit'
    BY <1>5, <2>5 DEF TimersFit
  <2>7. NoOrphan'
    <3>1. SUFFICES ASSUME NEW x \in Chunk, fetch'[d][x].at = "asking"
                   PROVE  pending'[x] = {<<d, fetch'[d][x].try>>}
        BY DEF NoOrphan
    <3>2. x # k /\ fetch'[d][x] = fetch[d][x] /\ pending'[x] = pending[x]
        BY <1>0, <2>3, <2>4, <2>5, <3>1
    <3>. QED BY <1>0, <3>1, <3>2 DEF Timely, NoOrphan
  <2>. QED BY <1>4, <2>6, <2>7 DEF Timely
<1>8. CASE fetch[d][k].at # "asking"
  <2>1. pending[k] = {}
    <3>1. SUFFICES ASSUME NEW r \in pending[k] PROVE FALSE
        OBVIOUS
    <3>2. r[1] = d
        BY <1>0
    <3>. QED BY <1>8, <3>2 DEF IInv, ResolverServes
  <2>2. fetch' = fetch /\ pending' = pending
    BY <1>1, <2>1
  <2>3. TimersFit'
    BY <1>5, <2>2 DEF TimersFit
  <2>4. NoOrphan'
    BY <2>2 DEF Timely, NoOrphan
  <2>. QED BY <1>4, <2>3, <2>4 DEF Timely
<1>. QED BY <1>7, <1>8

\* A chunk that arrives whole, at the request that waits for it.
LEMMA ReceiveTimely ==
    ASSUME NEW d, Download = {d}, IInv, Timely, Whole, NEW m \in msgs, Receive(m)
    PROVE  Timely'
<1>0. timers' = timers /\ m.type = "response" /\ m.copy # "torn"
    BY DEF Receive, Whole
<1>1. m.k \in Chunk /\ m.copy \in Copy /\ d \in Download
    BY ReceiveLeaves
<1>2. CASE fetch' = fetch /\ pending' = pending
    BY <1>0, <1>2 DEF Timely, TimersFit, OneTimer, NoOrphan
<1>3. ASSUME NEW t \in Nat,
             Resolve(<<d, t>>, m.k, m.copy), pending' = [pending EXCEPT ![m.k] = {}],
             fetch[d][m.k].at = "asking", fetch[d][m.k].try = t
      PROVE  Timely'
  <2>1. /\ OthersKept(d, m.k)
        /\ fetch'[d][m.k].at = "got" /\ fetch'[d][m.k].got = m.copy
    BY <1>1, <1>3, ResolveLeaves
  <2>2. \A u : Fits(fetch'[d][m.k], u)
    BY <1>0, <1>1, <2>1 DEF Fits, Copy
  <2>3. fetch'[d][m.k].at # "asking"
    BY <2>1
  <2>4. TimersFit' /\ NoOrphan'
    BY <1>0, <1>1, <1>3, <2>1, <2>2, <2>3, ResolveTimely DEF Timely
  <2>5. OneTimer'
    BY <1>0 DEF Timely, OneTimer
  <2>. QED BY <2>4, <2>5 DEF Timely
<1>. QED BY <1>2, <1>3, ReceiveLeaves

\* Every step keeps the timers in order while no chunk comes torn.
LEMMA TimelyNext ==
    ASSUME NEW d, Download = {d}
    PROVE  IInv /\ Whole /\ Timely /\ [Next]_vars => Timely'
<1>. SUFFICES ASSUME IInv, Whole, Timely, [Next]_vars PROVE Timely'
    OBVIOUS
<1>0. /\ fetch \in [Download -> [Chunk -> Fetch]] /\ d \in Download
      /\ \A e \in Download : Owned(call[e], fetch[e], free[e], queue[e])
    BY DEF IInv, Downloads
<1>1. CASE Start(d)
  <2>1. timers' = timers /\ pending' = pending
    BY <1>1 DEF Start
  <2>2. \A k \in Chunk : fetch[d][k].at = "off"
    BY <1>0, <1>1, StartLeaves
  <2>3. fetch'[d] = fetch[d] \/ \A k \in Chunk : fetch'[d][k].at \in {"ready", "queued"}
    BY <1>0, <1>1, StartLeaves
  <2>4. \A k \in Chunk : fetch'[d][k].at # "asking"
    BY <2>2, <2>3
  <2>5. \A i \in 1..Len(timers) : FALSE
    <3>1. TAKE i \in 1..Len(timers)
    <3>2. timers[i][1] = d /\ timers[i][2] \in Chunk
        BY TimerTriple
    <3>3. Fits(fetch[d][timers[i][2]], timers[i][3])
        BY <3>2 DEF Timely, TimersFit
    <3>. QED BY <2>2, <3>2, <3>3 DEF Fits
  <2>. QED BY <2>1, <2>4, <2>5 DEF Timely, TimersFit, OneTimer, NoOrphan
<1>2. CASE Finish(d)
    BY <1>2 DEF Finish, Timely, TimersFit, OneTimer, NoOrphan
<1>3. ASSUME NEW k \in Chunk, Begin(d, k) PROVE Timely'
  <2>1. fetch[d][k].at = "ready" /\ Attempt(d, k, 0) /\ 0 \in Nat
    BY <1>3 DEF Begin
  <2>. QED BY <2>1, AttemptTimely
<1>4. ASSUME NEW k \in Chunk, Process(d, k) PROVE Timely'
  <2> DEFINE f == fetch[d][k]
  <2>0. f \in Fetch /\ f.at = "got" /\ f.try \in Nat
    BY <1>0, <1>4 DEF Process, Fetch
  <2>1. CASE f.got \in {"nothing", "torn"}
    <3>1. Attempt(d, k, f.try + 1) /\ f.try + 1 \in Nat
        BY <1>4, <2>0, <2>1 DEF Process
    <3>. QED BY <2>0, <2>1, <3>1, AttemptTimely
  <2>2. CASE f.got \notin {"nothing", "torn"}
    <3>1. Settle(d, k, [f EXCEPT !.at = "done"]) /\ pending' = pending /\ timers' = timers
        BY <1>4, <2>2 DEF Process
    <3>2. OthersKept(d, k) /\ fetch'[d][k] = [f EXCEPT !.at = "done"]
        BY <1>0, <2>0, <3>1, SettleLeaves
    <3>3. fetch'[d][k].at = "done"
        BY <2>0, <3>2 DEF Fetch
    <3>4. \A t : Fits(fetch'[d][k], t)
        BY <3>3 DEF Fits
    <3>5. TimersFit' /\ NoOrphan'
        BY <3>1, <3>2, <3>3, <3>4, ResolveTimely DEF Timely
    <3>. QED BY <3>1, <3>5 DEF Timely, OneTimer
  <2>. QED BY <2>1, <2>2
<1>5. CASE TimerFires
    BY <1>5, TimerTimely
<1>6. ASSUME NEW m \in msgs, Receive(m) PROVE Timely'
    BY <1>6, ReceiveTimely
<1>7. ASSUME NEW m \in msgs, Answer(m) \/ Lose(m) PROVE Timely'
    BY <1>7 DEF Answer, Lose, Timely, TimersFit, OneTimer, NoOrphan
<1>8. ASSUME NEW p \in Peer, Announce(p) PROVE Timely'
    BY <1>8 DEF Announce, Timely, TimersFit, OneTimer, NoOrphan
<1>9. CASE UNCHANGED vars
    BY <1>9 DEF vars, Timely, TimersFit, OneTimer, NoOrphan
<1>. QED BY <1>1, <1>2, <1>3, <1>4, <1>5, <1>6, <1>7, <1>8, <1>9 DEF Next

\* A step that sends no answer keeps what is on its way whole.
LEMMA WholeKept ==
    ASSUME IInv, Whole, NEW d \in Download, NEW k \in Chunk, OthersKept(d, k),
           fetch'[d][k].got # "torn",
           \A m \in msgs' : m \in msgs \/ m.type = "request"
    PROVE  Whole'
<1>0. fetch \in [Download -> [Chunk -> Fetch]]
    BY DEF IInv, Downloads
<1>1. \A e \in Download : \A x \in Chunk : fetch'[e][x].got # "torn"
  <2>1. SUFFICES ASSUME NEW e \in Download, NEW x \in Chunk PROVE fetch'[e][x].got # "torn"
    OBVIOUS
  <2>2. fetch[e][x] \in Fetch /\ fetch[e][x].got # "torn"
    BY <1>0 DEF Whole
  <2>. QED BY <2>2, OthersFit
<1>2. \A m \in msgs' : m.type = "response" => m.copy # "torn"
    BY DEF Whole
<1>. QED BY <1>1, <1>2 DEF Whole

\* Providers that hold the chunks whole send them whole.
LEMMA WholeNext ==
    ASSUME Torn = {}
    PROVE  IInv /\ Whole /\ [Next]_vars => Whole'
<1>. SUFFICES ASSUME IInv, Whole, [Next]_vars PROVE Whole'
    OBVIOUS
<1>0. fetch \in [Download -> [Chunk -> Fetch]]
    BY DEF IInv, Downloads
<1>1. ASSUME NEW d \in Download, Start(d) PROVE Whole'
  <2>1. msgs' = msgs
    BY <1>1 DEF Start
  <2>2. /\ \A e \in Download : e # d => fetch'[e] = fetch[e]
        /\ \/ fetch'[d] = fetch[d]
           \/ \A k \in Chunk : fetch'[d][k].got = "nothing"
    BY <1>1, StartLeaves
  <2>. QED BY <2>1, <2>2 DEF Whole
<1>2. ASSUME NEW d \in Download, Finish(d) PROVE Whole'
    BY <1>2 DEF Finish, Whole
<1>3. ASSUME NEW d \in Download, NEW k \in Chunk, NEW t,
             Attempt(d, k, t), fetch[d][k].at \in {"ready", "got"}
      PROVE  Whole'
  <2>1. OthersKept(d, k)
        /\ (t < MaxTries => fetch'[d][k].got = "nothing")
        /\ (~(t < MaxTries) => fetch'[d][k].got = fetch[d][k].got)
    BY <1>3, AttemptLeaves
  <2>2. fetch'[d][k].got # "torn"
    BY <2>1 DEF Whole
  <2>3. \A m \in msgs' : m \in msgs \/ m.type = "request"
    BY <1>3 DEF Attempt
  <2>. QED BY <2>1, <2>2, <2>3, WholeKept
<1>4. ASSUME NEW d \in Download, NEW k \in Chunk, Begin(d, k) PROVE Whole'
    BY <1>3, <1>4 DEF Begin
<1>5. ASSUME NEW d \in Download, NEW k \in Chunk, Process(d, k) PROVE Whole'
  <2> DEFINE f == fetch[d][k]
  <2>1. f \in Fetch /\ f.at = "got" /\ f.got # "torn"
    BY <1>0, <1>5 DEF Process, Whole
  <2>2. CASE f.got \in {"nothing", "torn"}
    <3>1. Attempt(d, k, f.try + 1)
        BY <1>5, <2>2 DEF Process
    <3>. QED BY <1>3, <2>1, <3>1
  <2>3. CASE f.got \notin {"nothing", "torn"}
    <3>1. Settle(d, k, [f EXCEPT !.at = "done"]) /\ msgs' = msgs
        BY <1>5, <2>3 DEF Process
    <3>2. OthersKept(d, k) /\ fetch'[d][k] = [f EXCEPT !.at = "done"]
        BY <2>1, <3>1, SettleLeaves
    <3>3. fetch'[d][k].got # "torn"
        BY <2>1, <3>2 DEF Fetch
    <3>. QED BY <3>1, <3>2, <3>3, WholeKept
  <2>. QED BY <2>2, <2>3
<1>6. CASE TimerFires
  <2>1. PICK d \in Download, k \in Chunk, t \in Nat :
            fetch' = fetch \/ Resolve(<<d, t>>, k, "nothing")
    BY <1>6, TimerLeaves
  <2>2. msgs' = msgs
    BY <1>6 DEF TimerFires
  <2>3. CASE fetch' = fetch
    BY <2>2, <2>3 DEF Whole
  <2>4. CASE Resolve(<<d, t>>, k, "nothing")
    <3>1. OthersKept(d, k) /\ (fetch'[d][k].got = "nothing" \/ fetch'[d][k] = fetch[d][k])
        BY <2>4, ResolveLeaves
    <3>2. fetch'[d][k].got # "torn"
        BY <3>1 DEF Whole
    <3>. QED BY <2>2, <3>1, <3>2, WholeKept
  <2>. QED BY <2>1, <2>3, <2>4
<1>7. ASSUME NEW m \in msgs, Receive(m) PROVE Whole'
  <2>1. m.k \in Chunk /\ m.copy # "torn"
        /\ (fetch' = fetch \/ \E d \in Download : \E t \in Nat : Resolve(<<d, t>>, m.k, m.copy))
    BY <1>7, ReceiveLeaves DEF Receive, Whole
  <2>2. msgs' \subseteq msgs
    BY <1>7 DEF Receive
  <2>3. CASE fetch' = fetch
    BY <2>2, <2>3 DEF Whole
  <2>4. ASSUME NEW d \in Download, NEW t \in Nat, Resolve(<<d, t>>, m.k, m.copy) PROVE Whole'
    <3>1. OthersKept(d, m.k) /\ (fetch'[d][m.k].got = m.copy \/ fetch'[d][m.k] = fetch[d][m.k])
        BY <2>1, <2>4, ResolveLeaves
    <3>2. fetch'[d][m.k].got # "torn"
        BY <2>1, <3>1 DEF Whole
    <3>. QED BY <2>1, <2>2, <3>1, <3>2, WholeKept
  <2>. QED BY <2>1, <2>3, <2>4
<1>8. ASSUME NEW m \in msgs, Answer(m) PROVE Whole'
  <2>1. /\ fetch' = fetch
        /\ \A x \in msgs' : x \in msgs \/
              (m.peer \in Right \cup Wrong \cup Torn /\
               x = [type |-> "response", copy |-> CopyOf(m.peer), d |-> m.d, k |-> m.k, try |-> m.try])
    BY <1>8 DEF Answer
  <2>2. m.peer \in Right \cup Wrong \cup Torn => CopyOf(m.peer) # "torn"
    BY DEF CopyOf
  <2>. QED BY <2>1, <2>2 DEF Whole
<1>9. ASSUME NEW m \in msgs, Lose(m) PROVE Whole'
    BY <1>9 DEF Lose, Whole
<1>10. ASSUME NEW p \in Peer, Announce(p) PROVE Whole'
    BY <1>10 DEF Announce, Whole
<1>11. CASE UNCHANGED vars
    BY <1>11 DEF vars, Whole
<1>. QED BY <1>1, <1>2, <1>4, <1>5, <1>6, <1>7, <1>8, <1>9, <1>10, <1>11 DEF Next

\* A lone download's request that waits keeps its resolver, as long as no chunk reaches
\* us torn: its own timer or its own answer takes it (TransferEngine._requestChunk).
\* A torn chunk breaks it: the next attempt runs while the old timer still does.
THEOREM NeverOrphaned ==
    ASSUME NEW d, Download = {d}, Torn = {}
    PROVE  Spec => []NoOrphan
<1>1. Init => Whole /\ Timely
  <2>1. Init => \A e \in Download : \A k \in Chunk : fetch[e][k].at = "off" /\ fetch[e][k].got = "nothing"
    BY DEF Init, Off
  <2>2. Init => msgs = {} /\ timers = <<>> /\ Len(<<>>) = 0
    BY DEF Init
  <2>. QED BY <2>1, <2>2 DEF Whole, Timely, TimersFit, OneTimer, NoOrphan
<1>2. IInv /\ (Whole /\ Timely) /\ [Next]_vars => (Whole /\ Timely)'
    BY TimelyNext, WholeNext
<1>3. Timely => NoOrphan
    BY DEF Timely
<1>. QED BY <1>1, <1>2, <1>3, Invariance, PTL DEF Spec
-----------------------------------------------------------------------------
\* Nobody is listed twice.
Distinct == \A i, j \in 1..Len(peers) : peers[i] = peers[j] => i = j

\* A provider that announces itself is appended if it is not there yet.
LEMMA DistinctNext == IInv /\ Distinct /\ [Next]_vars => Distinct'
<1>. SUFFICES ASSUME IInv, Distinct, [Next]_vars PROVE Distinct'
    OBVIOUS
<1>1. ASSUME NEW p \in Peer, Announce(p) PROVE Distinct'
  <2>1. /\ peers \in Seq(Peer) /\ peers' = Append(peers, p)
        /\ \A i \in 1..Len(peers) : peers[i] # p
    BY <1>1 DEF IInv, Shared, Announce
  <2>. QED BY <2>1 DEF Distinct
<1>2. CASE peers' = peers
    BY <1>2 DEF Distinct
<1>. QED
    BY <1>1, <1>2 DEF Next, vars, Start, Finish, Begin, Process, TimerFires, Receive, Answer, Lose

\* Two numbers that follow each other leave different remainders.
LEMMA NextRemainder ==
    ASSUME NEW x \in Nat, NEW n \in Nat, n > 1
    PROVE  (x + 1) % n # x % n
<1> DEFINE a == x \div n
           b == (x + 1) \div n
<1>1. x = n * a + (x % n) /\ x + 1 = n * b + ((x + 1) % n) /\ a \in Int /\ b \in Int
    OBVIOUS
<1>2. SUFFICES ASSUME (x + 1) % n = x % n PROVE FALSE
    OBVIOUS
<1>. HIDE DEF a, b
<1>3. n * b - n * a = 1
  <2>1. x % n \in Int
    OBVIOUS
  <2>. QED BY <1>1, <1>2, <2>1
<1>4. n * (b - a) = 1
    BY <1>1, <1>3
<1>5. CASE b - a >= 1
  <2>1. n * (b - a) >= n
    BY <1>1, <1>5
  <2>. QED BY <1>4, <2>1
<1>6. CASE b - a <= 0
  <2>1. n * (b - a) <= 0
    BY <1>1, <1>6
  <2>. QED BY <1>4, <2>1
<1>. QED BY <1>1, <1>5, <1>6

\* The provider of the next attempt is another one.
LEMMA NextProvider ==
    ASSUME IInv, Distinct, Len(peers) > 1, NEW k \in Chunk, NEW t \in Nat
    PROVE  Provider(k, t + 1) # Provider(k, t)
<1> DEFINE n == Len(peers)
<1>1. peers \in Seq(Peer) /\ n \in Nat /\ n > 1 /\ k \in Nat
    BY TransferAssumption DEF IInv, Shared, Chunk
<1>2. k + t \in Nat /\ k + (t + 1) = (k + t) + 1
    BY <1>1
<1>. HIDE DEF n
<1>3. ((k + t) + 1) % n # (k + t) % n
    BY <1>1, <1>2, NextRemainder
<1>4. ((k + t) + 1) % n \in 0..(n - 1) /\ (k + t) % n \in 0..(n - 1)
    BY <1>1, <1>2
<1> DEFINE i == ((k + t) + 1) % n
           j == (k + t) % n
<1>5. i \in 0..(n - 1) /\ j \in 0..(n - 1) /\ i # j
    BY <1>3, <1>4
<1>6. Provider(k, t + 1) = peers[i + 1] /\ Provider(k, t) = peers[j + 1]
    BY <1>2 DEF Provider, n
<1>. HIDE DEF i, j
<1>7. i + 1 \in 1..n /\ j + 1 \in 1..n /\ i + 1 # j + 1
    BY <1>1, <1>5
<1>. QED BY <1>6, <1>7 DEF Distinct, n

\* What RetryElsewhere asks of a step, at one chunk.
Elsewhere(d, k) ==
    /\ fetch'[d][k].at = "asking"
    /\ fetch[d][k].try < fetch'[d][k].try
    /\ Len(peers) > 1
    /\ fetch[d][k].peer = Provider(k, fetch[d][k].try)
    => fetch'[d][k].peer # fetch[d][k].peer

\* A chunk that another's step leaves alone is not asked for again by it.
LEMMA OthersElsewhere ==
    ASSUME IInv, NEW d \in Download, NEW k \in Chunk, OthersKept(d, k), Elsewhere(d, k)
    PROVE  \A e \in Download : \A x \in Chunk : Elsewhere(e, x)
<1>1. SUFFICES ASSUME NEW e \in Download, NEW x \in Chunk, e # d \/ x # k PROVE Elsewhere(e, x)
    OBVIOUS
<1>2. fetch[e][x].try \in Nat
    BY TransferAssumption DEF IInv, Downloads, Fetch
<1>3. fetch'[e][x].at = "asking" => fetch'[e][x] = fetch[e][x]
    BY <1>1, OthersFit
<1>. QED BY <1>2, <1>3 DEF Elsewhere

\* Every step that asks again asks another provider.
LEMMA NextElsewhere ==
    IInv /\ Distinct /\ [Next]_vars => \A d \in Download : \A k \in Chunk : Elsewhere(d, k)
<1> DEFINE All == \A d \in Download : \A k \in Chunk : Elsewhere(d, k)
<1>. SUFFICES ASSUME IInv, Distinct, [Next]_vars PROVE All
    OBVIOUS
<1>0. /\ fetch \in [Download -> [Chunk -> Fetch]]
      /\ \A d \in Download : \A k \in Chunk : fetch[d][k].try \in Nat
    BY TransferAssumption DEF IInv, Downloads, Fetch
<1>1. CASE fetch' = fetch
    BY <1>0, <1>1 DEF Elsewhere
<1>2. ASSUME NEW d \in Download, Start(d) PROVE All
  <2>1. /\ \A e \in Download : e # d => fetch'[e] = fetch[e]
        /\ \/ fetch'[d] = fetch[d]
           \/ \A k \in Chunk : fetch'[d][k].at \in {"ready", "queued"}
    BY <1>2, StartLeaves
  <2>2. ASSUME NEW e \in Download, NEW x \in Chunk PROVE Elsewhere(e, x)
    <3>1. fetch[e][x].try \in Nat
      BY <1>0
    <3>2. fetch'[e][x].try = fetch[e][x].try \/ fetch'[e][x].at \in {"ready", "queued"}
      BY <2>1
    <3>. QED BY <3>1, <3>2 DEF Elsewhere
  <2>. QED BY <2>2
<1>3. ASSUME NEW d \in Download, NEW k \in Chunk, Begin(d, k) PROVE All
  <2>1. fetch[d][k].at \in {"ready", "got"} /\ Attempt(d, k, 0)
    BY <1>3 DEF Begin
  <2>2. OthersKept(d, k) /\ fetch'[d][k].try = 0
    BY <2>1, AttemptLeaves
  <2>3. Elsewhere(d, k)
    BY <1>0, <2>2 DEF Elsewhere
  <2>. QED BY <2>2, <2>3, OthersElsewhere
<1>4. ASSUME NEW d \in Download, NEW k \in Chunk, Process(d, k) PROVE All
  <2> DEFINE f == fetch[d][k]
  <2>1. f \in Fetch /\ f.at = "got" /\ f.try \in Nat
    BY <1>0, <1>4 DEF Process
  <2>2. CASE f.got \in {"nothing", "torn"}
    <3>1. Attempt(d, k, f.try + 1)
        BY <1>4, <2>2 DEF Process
    <3>2. /\ OthersKept(d, k)
          /\ f.try + 1 < MaxTries => fetch'[d][k].peer = Provider(k, f.try + 1)
          /\ ~(f.try + 1 < MaxTries) => fetch'[d][k].at = "gaveup"
        BY <2>1, <3>1, AttemptLeaves
    <3>3. Len(peers) > 1 => Provider(k, f.try + 1) # Provider(k, f.try)
        BY <2>1, NextProvider
    <3>4. Elsewhere(d, k)
        BY <3>2, <3>3 DEF Elsewhere
    <3>. QED BY <3>2, <3>4, OthersElsewhere
  <2>3. CASE f.got \notin {"nothing", "torn"}
    <3>1. Settle(d, k, [f EXCEPT !.at = "done"])
        BY <1>4, <2>3 DEF Process
    <3>2. OthersKept(d, k) /\ fetch'[d][k] = [f EXCEPT !.at = "done"]
        BY <2>1, <3>1, SettleLeaves
    <3>3. fetch'[d][k].at = "done"
        BY <2>1, <3>2 DEF Fetch
    <3>4. Elsewhere(d, k)
        BY <3>3 DEF Elsewhere
    <3>. QED BY <3>2, <3>4, OthersElsewhere
  <2>. QED BY <2>2, <2>3
<1>5. ASSUME NEW d \in Download, NEW k \in Chunk, NEW t, NEW got, Resolve(<<d, t>>, k, got)
      PROVE  All
  <2>1. OthersKept(d, k) /\ (fetch'[d][k].at = "got" \/ fetch'[d][k] = fetch[d][k])
    BY <1>5, ResolveLeaves
  <2>2. Elsewhere(d, k)
    BY <1>0, <2>1 DEF Elsewhere
  <2>. QED BY <2>1, <2>2, OthersElsewhere
<1>6. CASE TimerFires
    BY <1>1, <1>5, <1>6, TimerLeaves
<1>7. ASSUME NEW m \in msgs, Receive(m) PROVE All
    BY <1>1, <1>5, <1>7, ReceiveLeaves
<1>8. ASSUME NEW d \in Download, Finish(d) PROVE All
    BY <1>1, <1>8 DEF Finish
<1>9. ASSUME NEW m \in msgs, Answer(m) \/ Lose(m) PROVE All
    BY <1>1, <1>9 DEF Answer, Lose
<1>10. ASSUME NEW p \in Peer, Announce(p) PROVE All
    BY <1>1, <1>10 DEF Announce
<1>11. CASE UNCHANGED vars
    BY <1>1, <1>11 DEF vars
<1>. QED BY <1>2, <1>3, <1>4, <1>6, <1>7, <1>8, <1>9, <1>10, <1>11 DEF Next

\* For any number of downloads and providers: a chunk that failed is asked of another
\* provider than the round robin gave before (TransferEngine._downloadChunk).
THEOREM AskedElsewhere == Spec => RetryElsewhere
<1>1. Init => Distinct
    BY TransferAssumption DEF Init, Distinct
<1>2. Spec => []Distinct
    BY <1>1, DistinctNext, Invariance, PTL DEF Spec
<1>3. IInv /\ Distinct /\ [Next]_vars =>
        [\A d \in Download : \A k \in Chunk : Elsewhere(d, k)]_vars
    BY NextElsewhere
<1>4. Spec => [][\A d \in Download : \A k \in Chunk : Elsewhere(d, k)]_vars
    BY <1>2, <1>3, Invariance, PTL DEF Spec
<1>. QED BY <1>4 DEF RetryElsewhere, Elsewhere
=============================================================================
