---------------------------- MODULE PositionHash ----------------------------
(***************************************************************************)
(* PositionHashStrategy of bmpclient/virtual_media_strategy.py: the device *)
(* of a (layer, token) key, computed without metadata.                     *)
(***************************************************************************)
EXTENDS Integers

\* Trial division.
is_prime(n) ==
  /\ n >= 2
  /\ n % 2 = 0 => n = 2
  /\ \A i \in 3 .. n - 1 : i * i <= n => n % i # 0

\* The options the constructor accepts for n devices.
ValidSteps(n, step_idx, step_layer, prime) ==
  /\ is_prime(step_idx) /\ is_prime(step_layer) /\ is_prime(prime)
  /\ step_idx > n /\ step_layer > n /\ step_idx # step_layer
  /\ prime > step_idx /\ prime > step_layer

position_hash(n, step_idx, step_layer, prime, layer, token) ==
  ((token * step_idx + layer * step_layer) % prime) % n
=============================================================================
