---------------------------- MODULE MCAuthCache ----------------------------
(* One model is asked for, the other is its compress_model.                *)
EXTENDS AuthCache, TLC

CONSTANTS m1, m2, r1, r2, c1, a1

Plain(key) == [protocol |-> "auto", key |-> key, enabled |-> TRUE, compress |-> None]

MCBooted == Plain("k1")
MCSettings == m1 :> {MCBooted,
                     [protocol |-> "anthropic", key |-> "k2", enabled |-> TRUE,
                      compress |-> m2],
                     [MCBooted EXCEPT !.enabled = FALSE]}
              @@ m2 :> {MCBooted}
MCRequest == [model |-> m1, protocol |-> "anthropic", key |-> "k2", internal |-> FALSE]
MCRequests == {MCRequest}
=============================================================================
