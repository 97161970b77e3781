----------------------------- MODULE RateLimiter -----------------------------
(***************************************************************************)
(* The server's per-endpoint rate limits (src/server/                      *)
(* server_rate_limiter.h) and its table of endpoints that send media       *)
(* without having joined (record_unknown_audio_drop in server.cpp).        *)
(*                                                                         *)
(* Time is counted in ticks and tokens are whole: Rate[b] is what a bucket *)
(* gains in a tick.  The clock starts at 1, so that 0 is "never", the      *)
(* value-initialised time_point of the code.                               *)
(***************************************************************************)
EXTENDS Integers, Sequences, FiniteSets, FiniteSetsExt

CONSTANTS
    Endpoint,
    Member,        \* the endpoints that send as clients of a room ...
    Stranger,      \* ... and as unknown ones; both if they join or leave
    MAX_TRACKED_ENDPOINTS,
    MAX_UNKNOWN_ENDPOINTS,
    UNKNOWN_ENDPOINT_TTL,
    JOIN_REQUIRED_INTERVAL,
    PlainBucket,   \* buckets asked by one call and of a fixed rate: strict,
                   \* control, status, room_control, chat_send
    Rate, Burst,   \* of every bucket of a fixed rate, the global ones included
    AudioRate,     \* the rates that allow_authenticated_audio computes
    Counted,       \* the buckets whose grants the history counts
    MaxTime        \* bound: ticks

Bucket == PlainBucket \cup {"unknown", "secure_control", "audio"}
Global == {"unknown_global", "secure_control_global"}

LimiterAssumption ==
    /\ Member \cup Stranger \subseteq Endpoint
    /\ MAX_TRACKED_ENDPOINTS \in Nat \ {0}
    /\ MAX_UNKNOWN_ENDPOINTS \in Nat
    /\ UNKNOWN_ENDPOINT_TTL \in Nat
    /\ JOIN_REQUIRED_INTERVAL \in 1..UNKNOWN_ENDPOINT_TTL
    /\ "strict" \in PlainBucket
    /\ Rate \in [(Bucket \ {"audio"}) \cup Global -> Nat]
    /\ Burst \in [(Bucket \ {"audio"}) \cup Global -> Nat]
    /\ AudioRate \in SUBSET Nat
    /\ Counted \subseteq Bucket \cup Global
    /\ MaxTime \in Nat

Time == 0..MaxTime
TokenBucket == [tokens : Nat, last_refill : Time]

VARIABLES
    now,
    endpoints,         \* endpoint -> its buckets and last_seen
    recency,           \* the same endpoints, least recently seen first
    global,            \* unknown_global_, secure_control_global_
    unknownEndpoints,  \* endpoint -> last_seen, last_join_required_sent
    granted,           \* history: grants of each bucket of a tracked endpoint
                       \* since it was last entered, and of the global buckets
    since,             \* history: when it was entered
    required           \* history: when JOIN_REQUIRED was last sent, or TooSoon

vars == <<now, endpoints, recency, global, unknownEndpoints, granted, since, required>>

Tracked == DOMAIN endpoints
TooSoon == -1

TypeOK ==
    /\ now \in Time \ {0}
    /\ Tracked \subseteq Endpoint
    /\ \A e \in Tracked :
          endpoints[e] \in [last_seen : Time, bucket : [Bucket -> TokenBucket]]
    /\ Cardinality(Tracked) <= MAX_TRACKED_ENDPOINTS
    /\ recency \in Seq(Endpoint)
    /\ global \in [Global -> TokenBucket]
    /\ DOMAIN unknownEndpoints \subseteq Endpoint
    /\ \A e \in DOMAIN unknownEndpoints :
          unknownEndpoints[e] \in [last_seen : Time, last_join_required_sent : Time]
    /\ Cardinality(DOMAIN unknownEndpoints) <= MAX_UNKNOWN_ENDPOINTS
    /\ granted \in [Endpoint \cup {"global"} -> [Counted -> Nat]]
    /\ since \in [Endpoint -> Time]
    /\ required \in [Endpoint -> Time \cup {TooSoon}]

EmptyBucket == [tokens |-> 0, last_refill |-> 0]
NoGrants == [b \in Counted |-> 0]

Init ==
    /\ now = 1
    /\ endpoints = <<>>
    /\ recency = <<>>
    /\ global = [g \in Global |-> EmptyBucket]
    /\ unknownEndpoints = <<>>
    /\ granted = [e \in Endpoint \cup {"global"} |-> NoGrants]
    /\ since = [e \in Endpoint |-> 0]
    /\ required = [e \in Endpoint |-> 0]

-----------------------------------------------------------------------------
(* TokenBucket::allow                                                       *)

\* Mutant: the time of the refill is not noted.
Refilled_unnoted(b, rate, burst) ==
    IF b.last_refill = 0 THEN [tokens |-> burst, last_refill |-> now]
    ELSE [b EXCEPT !.tokens = Min({burst, @ + (now - b.last_refill) * rate})]

Refilled(b, rate, burst) ==
    IF b.last_refill = 0 THEN [tokens |-> burst, last_refill |-> now]
    ELSE [tokens |-> Min({burst, b.tokens + (now - b.last_refill) * rate}),
          last_refill |-> now]

Allows(b, rate, burst) == Refilled(b, rate, burst).tokens >= 1

Spent(b, rate, burst) ==
    IF Allows(b, rate, burst)
    THEN [Refilled(b, rate, burst) EXCEPT !.tokens = @ - 1]
    ELSE Refilled(b, rate, burst)

-----------------------------------------------------------------------------
(* ProtocolRateLimiter                                                      *)

Without(list, e) == SelectSeq(list, LAMBDA x : x # e)

Restriction(f, S) == [x \in S |-> f[x]]

\* Mutant: a full table grows.
Displaced_none(ep) == {}

\* An endpoint not tracked yet displaces, in a full table, the one that was
\* least recently seen.
Displaced(ep) ==
    IF ep \notin Tracked /\ Cardinality(Tracked) >= MAX_TRACKED_ENDPOINTS
    THEN {Head(recency)} ELSE {}

\* Mutant: a tracked endpoint keeps its place in the list.
recency_after_stale(ep) ==
    IF ep \in Tracked THEN recency
    ELSE Append(IF Displaced(ep) = {} THEN recency ELSE Tail(recency), ep)

recency_after(ep) ==
    IF ep \in Tracked THEN Append(Without(recency, ep), ep)
    ELSE Append(IF Displaced(ep) = {} THEN recency ELSE Tail(recency), ep)

BucketOf(ep, b) == IF ep \in Tracked THEN endpoints[ep].bucket[b] ELSE EmptyBucket

\* The table after allow(ep, now, b, rate, burst).
endpoints_after(ep, b, rate, burst) ==
    LET buckets == IF ep \in Tracked THEN endpoints[ep].bucket
                   ELSE [c \in Bucket |-> EmptyBucket]
    IN  [e \in (Tracked \ Displaced(ep)) \cup {ep} |->
            IF e = ep
            THEN [last_seen |-> now,
                  bucket |-> [buckets EXCEPT ![b] = Spent(@, rate, burst)]]
            ELSE endpoints[e]]

\* The history of allow: what a tracked endpoint was granted.  Evaluated with
\* the table of the next state.
Count(ep, b, rate, burst, globals) ==
    LET fresh == IF ep \in Tracked THEN granted[ep] ELSE NoGrants
        one == IF Allows(BucketOf(ep, b), rate, burst) THEN 1 ELSE 0
        counted == [c \in Counted |-> fresh[c] + IF c = b THEN one ELSE 0]
    IN  /\ granted' = [e \in Endpoint \cup {"global"} |->
                          CASE e = "global" -> globals
                            [] e = ep /\ e \in DOMAIN endpoints' -> counted
                            [] e # ep /\ e \in DOMAIN endpoints' -> granted[e]
                            [] OTHER -> NoGrants]
        /\ since' = [e \in Endpoint |->
                        CASE e \notin DOMAIN endpoints' -> 0
                          [] e \in DOMAIN endpoints' /\ e \in Tracked -> since[e]
                          [] OTHER -> now]

allow(ep, b, rate, burst) ==
    /\ endpoints' = endpoints_after(ep, b, rate, burst)
    /\ recency' = recency_after(ep)

Plus1(g) ==
    [c \in Counted |-> granted["global"][c] + IF c = g THEN 1 ELSE 0]

\* allow_strict, allow_control, allow_status, allow_room_control and
\* allow_chat_send: the packet is handled or dropped by what it returns.
allow_plain(ep, b) ==
    /\ allow(ep, b, Rate[b], Burst[b])
    /\ Count(ep, b, Rate[b], Burst[b], granted["global"])
    /\ UNCHANGED <<now, global, unknownEndpoints, required>>

allow_authenticated_audio(ep, allowed_rate) ==
    /\ allow(ep, "audio", allowed_rate, 2 * allowed_rate)
    /\ Count(ep, "audio", allowed_rate, 2 * allowed_rate, granted["global"])
    /\ UNCHANGED <<now, global, unknownEndpoints, required>>

\* The endpoint's bucket is charged even when the global one then refuses.
allow_authenticated_secure_control(ep) ==
    LET own == Allows(BucketOf(ep, "secure_control"),
                      Rate["secure_control"], Burst["secure_control"])
        g == "secure_control_global"
    IN  /\ allow(ep, "secure_control", Rate["secure_control"], Burst["secure_control"])
        /\ global' = IF own THEN [global EXCEPT ![g] = Spent(@, Rate[g], Burst[g])]
                     ELSE global
        /\ Count(ep, "secure_control", Rate["secure_control"], Burst["secure_control"],
                 IF own /\ Allows(global[g], Rate[g], Burst[g])
                 THEN Plus1(g) ELSE granted["global"])
        /\ UNCHANGED <<now, unknownEndpoints, required>>

\* erase(ep) on a kick or when a room is closed.
erase(ep) ==
    /\ ep \in Tracked
    /\ endpoints' = Restriction(endpoints, Tracked \ {ep})
    /\ recency' = Without(recency, ep)
    /\ granted' = [granted EXCEPT ![ep] = NoGrants]
    /\ since' = [since EXCEPT ![ep] = 0]
    /\ UNCHANGED <<now, global, unknownEndpoints, required>>

-----------------------------------------------------------------------------
(* Media from an endpoint that has not joined                               *)

\* allow_unknown when the global bucket is empty: nothing is entered.
allow_unknown_refused_globally(ep) ==
    LET g == "unknown_global"
    IN  /\ ~Allows(global[g], Rate[g], Burst[g])
        /\ global' = [global EXCEPT ![g] = Spent(@, Rate[g], Burst[g])]
        /\ UNCHANGED <<now, endpoints, recency, unknownEndpoints, granted, since,
                       required>>

allow_unknown_refused(ep) ==
    LET g == "unknown_global"
        rate == Rate["unknown"]
        burst == Burst["unknown"]
    IN  /\ Allows(global[g], Rate[g], Burst[g])
        /\ ~Allows(BucketOf(ep, "unknown"), rate, burst)
        /\ global' = [global EXCEPT ![g] = Spent(@, Rate[g], Burst[g])]
        /\ allow(ep, "unknown", rate, burst)
        /\ Count(ep, "unknown", rate, burst, Plus1(g))
        /\ UNCHANGED <<now, unknownEndpoints, required>>

\* expire: from the front of the list, up to the first endpoint seen lately.
Expired(table, list) ==
    LET lately == {k \in DOMAIN list :
                      now - table[list[k]].last_seen <= UNKNOWN_ENDPOINT_TTL}
    IN  IF lately = {} THEN Len(list) ELSE Min(lately) - 1

\* Mutant: the answer is not remembered.
EnterUnknown_unanswered(table, ep) ==
    LET room == Cardinality(DOMAIN table) < MAX_UNKNOWN_ENDPOINTS
        sent == IF ep \in DOMAIN table THEN table[ep].last_join_required_sent ELSE 0
    IN  IF ep \notin DOMAIN table /\ ~room THEN table
        ELSE [e \in DOMAIN table \cup {ep} |->
                 IF e = ep THEN [last_seen |-> now, last_join_required_sent |-> sent]
                 ELSE table[e]]

\* Whether ep, which sends media, is told to join: not when it was told less
\* than an interval ago, nor when it finds no room in the table.
MustBeTold(table, ep) ==
    IF ep \in DOMAIN table
    THEN LET sent == table[ep].last_join_required_sent
         IN  sent = 0 \/ now - sent >= JOIN_REQUIRED_INTERVAL
    ELSE Cardinality(DOMAIN table) < MAX_UNKNOWN_ENDPOINTS

EnterUnknown(table, ep) ==
    LET room == Cardinality(DOMAIN table) < MAX_UNKNOWN_ENDPOINTS
        sent == IF MustBeTold(table, ep) THEN now ELSE table[ep].last_join_required_sent
    IN  IF ep \notin DOMAIN table /\ ~room THEN table
        ELSE [e \in DOMAIN table \cup {ep} |->
                 IF e = ep THEN [last_seen |-> now, last_join_required_sent |-> sent]
                 ELSE table[e]]

ToldAgain(before) ==
    IF before # 0 /\ now - before < JOIN_REQUIRED_INTERVAL THEN TooSoon ELSE now

\* allow_unknown grants, and record_unknown_audio_drop follows: it first drops
\* stale unknown endpoints, with their buckets, and expires the limiter; ep
\* itself may be among the former.
record_unknown_audio_drop(ep) ==
    LET g == "unknown_global"
        rate == Rate["unknown"]
        burst == Burst["unknown"]
        stale == {e \in DOMAIN unknownEndpoints :
                     now - unknownEndpoints[e].last_seen > UNKNOWN_ENDPOINT_TTL}
        allowed == endpoints_after(ep, "unknown", rate, burst)
        erased == Restriction(allowed, DOMAIN allowed \ stale)
        list == SelectSeq(recency_after(ep), LAMBDA e : e \notin stale)
        kept == SubSeq(list, Expired(erased, list) + 1, Len(list))
        known == Restriction(unknownEndpoints, DOMAIN unknownEndpoints \ stale)
    IN  /\ Allows(global[g], Rate[g], Burst[g])
        /\ Allows(BucketOf(ep, "unknown"), rate, burst)
        /\ global' = [global EXCEPT ![g] = Spent(@, Rate[g], Burst[g])]
        /\ recency' = kept
        /\ endpoints' = Restriction(erased, {kept[k] : k \in DOMAIN kept})
        /\ unknownEndpoints' = EnterUnknown(known, ep)
        /\ required' = IF MustBeTold(known, ep)
                       THEN [required EXCEPT ![ep] = ToldAgain(@)] ELSE required
        /\ Count(ep, "unknown", rate, burst, Plus1(g))
        /\ UNCHANGED now

Tick ==
    /\ now < MaxTime
    /\ now' = now + 1
    /\ UNCHANGED <<endpoints, recency, global, unknownEndpoints, granted, since,
                   required>>

Next ==
    \/ \E ep \in Endpoint, b \in PlainBucket : allow_plain(ep, b)
    \/ \E ep \in Member :
          \/ \E r \in AudioRate : allow_authenticated_audio(ep, r)
          \/ allow_authenticated_secure_control(ep)
          \/ erase(ep)
    \/ \E ep \in Stranger :
          \/ allow_unknown_refused_globally(ep)
          \/ allow_unknown_refused(ep)
          \/ record_unknown_audio_drop(ep)
    \/ Tick

Spec == Init /\ [][Next]_vars

-----------------------------------------------------------------------------
(* Properties                                                               *)

\* The list and the table hold the same endpoints, each once, and the list is
\* in the order in which they were last seen: the one displaced is the least
\* recently seen, and expire, which stops at the first endpoint seen lately,
\* misses no stale one behind it.
RecencyOrdersTable ==
    /\ {recency[k] : k \in DOMAIN recency} = Tracked
    /\ Len(recency) = Cardinality(Tracked)
    /\ \A j, k \in DOMAIN recency :
          j < k => endpoints[recency[j]].last_seen <= endpoints[recency[k]].last_seen

\* However the calls fall within the ticks, a bucket grants no more than its
\* burst and what it gained since; this bounds unknown senders, whose
\* packets are answered, and what control traffic the room is sent in all.
GrantsWithinBudget ==
    /\ \A e \in Tracked, b \in (Bucket \cap Counted) \ {"audio"} :
          granted[e][b] <= Burst[b] + Rate[b] * (now - since[e])
    /\ \A e \in Tracked, b \in {"audio"} \cap Counted :
          \E r \in AudioRate \cup {0} :
              granted[e][b] <= 2 * r + r * (now - since[e])
    /\ \A g \in Global \cap Counted :
          granted["global"][g] <= Burst[g] + Rate[g] * (now - 1)

\* An endpoint that has not joined is told to join at most once an interval,
\* also when its entry was dropped and made again in between.
JoinRequiredSpaced == \A e \in Endpoint : required[e] # TooSoon
=============================================================================
