------------------------------ MODULE RateLimits ------------------------------
(* Rate limiting of what peers send (network-libp2p/src/rate_limiting.rs): a   *)
(* fixed window per peer and rate limit id, which outlives the connection of   *)
(* the peer until the window has passed. The structure is a record             *)
(*   rate_limits[p][i]  the RateLimit of peer p for id i (p and i may be       *)
(*                      missing): its last_reset and occurrences_counter;      *)
(*   by_key             PendingDeletion.by_peer_and_id;                        *)
(*   by_time            PendingDeletion.by_expiration_time.                    *)
(* A RateLimitConfig is [max, window]; it is copied into the RateLimit.        *)
EXTENDS Integers, FiniteSets, Functions

NoLimits == [rate_limits |-> <<>>, by_key |-> <<>>, by_time |-> {}]

EmptyMap == [k \in {} |-> 0]

Put(f, k, v) == [x \in DOMAIN f \cup {k} |-> IF x = k THEN v ELSE f[x]]

Drop(f, ks) == Restrict(f, DOMAIN f \ ks)

LimitsOf(rl, p) == IF p \in DOMAIN rl.rate_limits THEN rl.rate_limits[p] ELSE EmptyMap

next_reset_time(limit) == limit.last_reset + limit.window

can_delete(limit, now) == limit.count = 0 \/ next_reset_time(limit) <= now

(* RateLimit::increment_and_is_allowed(1): the limit after the call.           *)
increment(limit, now) ==
    IF next_reset_time(limit) <= now
      THEN [limit EXCEPT !.last_reset = now, !.count = 1]
      ELSE [limit EXCEPT !.count = @ + 1]

(* The limit of peer p for id i, created if it is the first request.           *)
LimitFor(rl, p, i, cfg, now) ==
    IF i \in DOMAIN LimitsOf(rl, p) THEN LimitsOf(rl, p)[i]
    ELSE [max |-> cfg.max, window |-> cfg.window, last_reset |-> now, count |-> 0]

(* RateLimits::exceeds_rate_limit: what it leaves, and what it returns.        *)
count_request(rl, p, i, cfg, now) ==
    [rl EXCEPT !.rate_limits =
        Put(@, p, Put(LimitsOf(rl, p), i, increment(LimitFor(rl, p, i, cfg, now), now)))]

exceeds_rate_limit(rl, p, i, cfg, now) ==
    increment(LimitFor(rl, p, i, cfg, now), now).count
        > LimitFor(rl, p, i, cfg, now).max

(* PendingDeletion::insert: an entry that is there already is replaced.        *)
Expiration(p, i, limit) == [peer |-> p, id |-> i, at |-> next_reset_time(limit)]

insert_pending(rl, p, i) ==
    LET limit == rl.rate_limits[p][i]
        old == IF <<p, i>> \in DOMAIN rl.by_key
                 THEN {Expiration(p, i, rl.by_key[<<p, i>>])} ELSE {}
    IN  [rl EXCEPT !.by_key = Put(@, <<p, i>>, limit),
                   !.by_time = (@ \ old) \cup {Expiration(p, i, limit)}]

(* RateLimits::clean_up: every expired entry leaves both pending structures,   *)
(* and its limit goes unless it was renewed since.                             *)
Expired(rl, now) == {e \in rl.by_time : e.at <= now}

Forget(rl, gone) ==
    [rl EXCEPT !.rate_limits =
        LET left == [p \in DOMAIN @ |-> Drop(@[p], {k[2] : k \in {g \in gone : g[1] = p}})]
        IN  Restrict(left, {p \in DOMAIN left : DOMAIN left[p] # {}
                                                  \/ \A k \in gone : k[1] # p})]

clean_up(rl, now) ==
    LET keys == {<<e.peer, e.id>> : e \in Expired(rl, now)}
        done == {k \in keys : k[2] \in DOMAIN LimitsOf(rl, k[1])
                                /\ can_delete(rl.rate_limits[k[1]][k[2]], now)}
    IN  Forget([rl EXCEPT !.by_key = Drop(@, keys), !.by_time = @ \ Expired(rl, now)], done)

(* RateLimits::remove_rate_limits, when the last connection of p is closed.    *)
remove_rate_limits_late_clean_up(rl, p, now) ==
    LET keys == {<<p, i>> : i \in DOMAIN LimitsOf(rl, p)}
        kept == {k \in keys : ~can_delete(rl.rate_limits[p][k[2]], now)}
    IN  FoldFunctionOnSet(LAMBDA k, r : insert_pending(r, p, k[2]), Forget(rl, keys \ kept),
                          [k \in kept |-> k], kept)

remove_rate_limits(rl, p, now) ==
    LET clean == clean_up(rl, now)
        keys == {<<p, i>> : i \in DOMAIN LimitsOf(clean, p)}
        kept == {k \in keys : ~can_delete(clean.rate_limits[p][k[2]], now)}
    IN  FoldFunctionOnSet(LAMBDA k, r : insert_pending(r, p, k[2]), Forget(clean, keys \ kept),
                          [k \in kept |-> k], kept)
===============================================================================
