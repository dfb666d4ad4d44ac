------------------------------ MODULE Channels ------------------------------
(***************************************************************************)
(* ChannelService, ReleaseService and FollowService                        *)
(* (channel/services/channel.services.ts) over their in-memory             *)
(* repositories (channel/repositories/channel.repository.ts).              *)
(*                                                                         *)
(* Every repository call is awaited: a call of a service is cut there, and *)
(* the calls of several requests interleave.  Each call does one           *)
(* operation; a channel and a release are named by the call that made      *)
(* them.  Left out: descriptions, tags and links, the versions' order,     *)
(* trust scores, and who asks (all requests are the owner's or a           *)
(* follower's, whom the guards let pass).                                  *)
(***************************************************************************)
EXTENDS Integers, Sequences, FiniteSets

CONSTANTS Call,         \* calls of the services
          Old,          \* the channels there are at first, without wallets
          Owner, Title,
          Address,      \* wallet addresses that are valid
          Version, Follower,
          MaxChannels,  \* MAX_CHANNELS
          MaxWallets    \* MAX_WALLETS

VARIABLES
    channels,   \* InMemoryChannelRepository.store: a set of [id, owner, slug, wallets, followers]
    releases,   \* InMemoryReleaseRepository.store: a set of [id, version, latest, deprecated]
    follows,    \* InMemoryFollowRepository.store: a set of <<follower, channel>>
    call,       \* the call's place and what it has read
    overlapped  \* history: two creations, or two changes of wallets, were under way at once

vars == <<channels, releases, follows, call, overlapped>>

Slug == Title \X (0 .. Cardinality(Call))
Here(i) == CHOOSE ch \in channels : ch.id = i
Taken(s, i) == \E ch \in channels : ch.slug = s /\ ch.id # i

Init ==
    /\ \E t \in Title, o \in Owner :
           channels = {[id |-> i, owner |-> o, slug |-> <<t, 0>>, wallets |-> {}, followers |-> 0] :
                           i \in Old}
    /\ releases = {} /\ follows = {} /\ overlapped = FALSE
    /\ call = [c \in Call |-> [at |-> "new"]]

-----------------------------------------------------------------------------
Goes(c, r) == call' = [call EXCEPT ![c] = r]
Ends(c) == Goes(c, [at |-> "end"])
Reads == UNCHANGED <<channels, releases, follows>>
Put(ch) == channels' = {x \in channels : x.id # ch.id} \cup {ch}
Keeps == UNCHANGED overlapped

Critical == {"slug", "owner", "create", "wallets"}
\* From its first read to its write a creation or a change of wallets is critical.
Starts(c, r) ==
    /\ call[c].at = "new" /\ Goes(c, r) /\ Reads
    /\ overlapped' = (overlapped \/ (r.at \in Critical /\ \E d \in Call : call[d].at \in Critical))

\* ChannelService.create: a free slug is looked for, one await for each, ...
Create(c, o, t) == Starts(c, [at |-> "slug", owner |-> o, slug |-> <<t, 0>>])
LookForSlug(c) ==
    LET r == call[c] IN
    /\ r.at = "slug" /\ Reads /\ Keeps
    /\ Goes(c, IF Taken(r.slug, c) THEN [r EXCEPT !.slug[2] = @ + 1] ELSE [r EXCEPT !.at = "owner"])

\* ... the owner's channels are counted, ...
CountOwned(c) ==
    LET r == call[c] IN
    /\ r.at = "owner" /\ Reads /\ Keeps
    /\ IF Cardinality({ch \in channels : ch.owner = r.owner}) >= MaxChannels
       THEN Ends(c) ELSE Goes(c, [r EXCEPT !.at = "create"])

\* Mutant: the repository trusts that the slug it was given is free.
StoreUnchecked(c) ==
    LET r == call[c] IN
    /\ r.at = "create"
    /\ Put([id |-> c, owner |-> r.owner, slug |-> r.slug, wallets |-> {}, followers |-> 0])
    /\ Ends(c) /\ UNCHANGED <<releases, follows, overlapped>>

\* ... and the repository stores the channel unless the slug is taken by now.
Store(c) ==
    LET r == call[c] IN
    /\ r.at = "create"
    /\ IF Taken(r.slug, c) THEN UNCHANGED channels
       ELSE Put([id |-> c, owner |-> r.owner, slug |-> r.slug, wallets |-> {}, followers |-> 0])
    /\ Ends(c) /\ UNCHANGED <<releases, follows, overlapped>>

\* ChannelService.update with a title: the channel is found, then the slug
\* changed, without a counter; a slug that is taken makes the call fail.
Update(c, i, t) == Starts(c, [at |-> "rename", id |-> i, slug |-> <<t, 0>>])
Rename(c) ==
    LET r == call[c] IN
    /\ r.at = "rename"
    /\ IF Taken(r.slug, r.id) THEN UNCHANGED channels ELSE Put([Here(r.id) EXCEPT !.slug = r.slug])
    /\ Ends(c) /\ UNCHANGED <<releases, follows, overlapped>>

\* addWallet and removeWallet: the wallets read are written back with one more
\* or one less.
AddWallet(c, i, a) ==
    /\ Cardinality(Here(i).wallets) < MaxWallets /\ a \notin Here(i).wallets
    /\ Starts(c, [at |-> "wallets", id |-> i, wallets |-> Here(i).wallets \cup {a}])
RemoveWallet(c, i, a) ==
    /\ a \in Here(i).wallets
    /\ Starts(c, [at |-> "wallets", id |-> i, wallets |-> Here(i).wallets \ {a}])
SaveWallets(c) ==
    /\ call[c].at = "wallets"
    /\ Put([Here(call[c].id) EXCEPT !.wallets = call[c].wallets])
    /\ Ends(c) /\ UNCHANGED <<releases, follows, overlapped>>

-----------------------------------------------------------------------------
\* ReleaseService.publish, of one project: a version that exists makes it fail; the
\* new release is latest from its creation on, the others until setLatest().
Publish(c, v) ==
    /\ call[c].at = "new" /\ Keeps
    /\ IF \E x \in releases : x.version = v THEN Ends(c) /\ Reads
       ELSE /\ releases' = releases \cup {[id |-> c, version |-> v, latest |-> TRUE, deprecated |-> FALSE]}
            /\ Goes(c, [at |-> "latest"])
            /\ UNCHANGED <<channels, follows>>

\* Mutant: setLatest only sets.
SetLatestOnly(c) ==
    /\ call[c].at = "latest"
    /\ releases' = {IF x.id = c THEN [x EXCEPT !.latest = TRUE] ELSE x : x \in releases}
    /\ Ends(c) /\ UNCHANGED <<channels, follows, overlapped>>

\* setLatest; the statistics that follow are the channel's releaseCount.
SetLatest(c) ==
    /\ call[c].at = "latest"
    /\ releases' = {[x EXCEPT !.latest = (x.id = c)] : x \in releases}
    /\ Ends(c) /\ UNCHANGED <<channels, follows, overlapped>>

\* deprecate: release and channel are read before.
Deprecate(c, x) ==
    /\ call[c].at = "new"
    /\ releases' = (releases \ {x}) \cup {[x EXCEPT !.deprecated = TRUE, !.latest = FALSE]}
    /\ Ends(c) /\ UNCHANGED <<channels, follows, overlapped>>

-----------------------------------------------------------------------------
\* Mutant: the follower is counted before the repository has taken it.
FollowCounted(c, f, i) ==
    /\ call[c].at = "new" /\ Keeps
    /\ follows' = follows \cup {<<f, i>>}
    /\ Goes(c, [at |-> "count", id |-> i, by |-> 1])
    /\ UNCHANGED <<channels, releases>>

\* FollowService.follow: the repository takes a follower once; unfollow.
Follow(c, f, i) ==
    /\ call[c].at = "new" /\ Keeps
    /\ follows' = follows \cup {<<f, i>>}
    /\ IF <<f, i>> \in follows THEN Ends(c) ELSE Goes(c, [at |-> "count", id |-> i, by |-> 1])
    /\ UNCHANGED <<channels, releases>>
Unfollow(c, f, i) ==
    /\ call[c].at = "new" /\ Keeps
    /\ follows' = follows \ {<<f, i>>}
    /\ IF <<f, i>> \notin follows THEN Ends(c) ELSE Goes(c, [at |-> "count", id |-> i, by |-> -1])
    /\ UNCHANGED <<channels, releases>>

\* incrementStat of followerCount
Count(c) ==
    LET r == call[c] IN
    /\ r.at = "count"
    /\ Put([Here(r.id) EXCEPT !.followers = @ + r.by])
    /\ Ends(c) /\ UNCHANGED <<releases, follows, overlapped>>

Step(c) ==
    \/ LookForSlug(c) \/ CountOwned(c) \/ Store(c) \/ Rename(c) \/ SaveWallets(c) \/ SetLatest(c) \/ Count(c)

Next ==
    \E c \in Call :
        \/ Step(c)
        \/ \E o \in Owner, t \in Title : Create(c, o, t)
        \/ \E ch \in channels :
               \/ \E t \in Title : Update(c, ch.id, t)
               \/ \E a \in Address : AddWallet(c, ch.id, a) \/ RemoveWallet(c, ch.id, a)
               \/ \E f \in Follower : Follow(c, f, ch.id) \/ Unfollow(c, f, ch.id)
        \/ \E v \in Version : Publish(c, v)
        \/ \E x \in releases : Deprecate(c, x)

Spec == Init /\ [][Next]_vars

-----------------------------------------------------------------------------
TypeOK ==
    /\ \A ch \in channels : ch.id \in Old \cup Call /\ ch.slug \in Slug /\ ch.wallets \subseteq Address
    /\ \A x \in releases : x.id \in Call /\ x.version \in Version
    /\ follows \subseteq Follower \X {ch.id : ch \in channels}

\* No two channels are found under one slug, however creations and renamings
\* interleave, though each looked for a free slug one await ago.
SlugsUnique == \A x, y \in channels : x.slug = y.slug => x = y

\* Once no publication is under way, at most one release is the latest.
OneLatest ==
    (\A c \in Call : call[c].at # "latest") =>
        \A x, y \in releases : x.latest /\ y.latest => x = y

\* A channel's count of followers is off only by the calls that have not
\* counted yet, never for good.
FollowersCounted ==
    \A ch \in channels :
        LET late == {c \in Call : call[c].at = "count" /\ call[c].id = ch.id}
        IN  ch.followers = Cardinality({f \in Follower : <<f, ch.id>> \in follows})
                           - Cardinality({c \in late : call[c].by = 1})
                           + Cardinality({c \in late : call[c].by = -1})

\* Calls that do not overlap keep the limits of channels and wallets.
SerialCallsKeepLimits ==
    ~overlapped =>
        /\ \A o \in Owner : Cardinality({ch \in channels : ch.owner = o}) <= MaxChannels
        /\ \A ch \in channels : Cardinality(ch.wallets) <= MaxWallets
=============================================================================
