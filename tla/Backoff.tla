-------------------------------- MODULE Backoff --------------------------------
(****************************************************************************)
(* The retries of one graph node and the delays between them:               *)
(* _next_agent_transition and _model_retry_backoff_seconds (workflow.py     *)
(* 145-188) under a BackoffConfig (types.py 38-44).                         *)
(*                                                                          *)
(* Seconds are whole numbers here.  A float product that overflows is the   *)
(* float infinity, which the last comparison cuts as it cuts a whole number *)
(* however large.  Left out is what only floats have: an infinite           *)
(* multiplier, which BackoffConfig admits, makes of an initial delay of     *)
(* zero a NaN, which no comparison cuts and no sleep follows.  The module   *)
(* is proved about (BackoffProofs) for every configuration and not run.     *)
(****************************************************************************)
EXTENDS Integers, Sequences

(* BackoffConfig: at least one attempt, and no multiplier below one.        *)
Config == [attempts : Nat \ {0}, initial : Nat, multiplier : Nat \ {0}, longest : Nat]

VARIABLES
    config,     \* request.model_retry
    stage,      \* what the loop does
    attempt,    \* model_attempt
    delay,      \* delay, while it is computed and slept
    step,       \* backoff_step
    naps,       \* history: the delays so far, 0 for a sleep that is skipped
    slept       \* history: their sum

vars == <<config, stage, attempt, delay, step, naps, slept>>

Stages == {"trying", "multiplying", "sleeping", "returned", "raised"}

Init ==
    /\ config \in Config
    /\ stage = "trying"
    /\ attempt = 1
    /\ delay = 0
    /\ step = 1
    /\ naps = <<>>
    /\ slept = 0

(* The node action answers.                                                 *)
Returns ==
    /\ stage = "trying"
    /\ stage' = "returned"
    /\ UNCHANGED <<config, attempt, delay, step, naps, slept>>

Exhausted == attempt >= config.attempts

GivesUp ==
    /\ stage = "trying"
    /\ Exhausted
    /\ stage' = "raised"
    /\ UNCHANGED <<config, attempt, delay, step, naps, slept>>

(* A transient error or a loss, with an attempt left.                       *)
Fails ==
    /\ stage = "trying"
    /\ ~Exhausted
    /\ delay' = config.initial
    /\ step' = 1
    /\ stage' = "multiplying"
    /\ UNCHANGED <<config, attempt, naps, slept>>

StepsLeft == step < attempt

Multiplies ==
    /\ stage = "multiplying"
    /\ StepsLeft
    /\ delay' = delay * config.multiplier
    /\ step' = step + 1
    /\ UNCHANGED <<config, stage, attempt, naps, slept>>

Capped(d) == IF d > config.longest THEN config.longest ELSE d

Cuts ==
    /\ stage = "multiplying"
    /\ ~StepsLeft
    /\ delay' = Capped(delay)
    /\ naps' = Append(naps, Capped(delay))
    /\ stage' = "sleeping"
    /\ UNCHANGED <<config, attempt, step, slept>>

(* The delay is slept, or skipped when it is zero; the next attempt begins. *)
TriesAgain ==
    /\ stage = "sleeping"
    /\ slept' = slept + delay
    /\ attempt' = attempt + 1
    /\ stage' = "trying"
    /\ UNCHANGED <<config, delay, step, naps>>

Terminated == stage \in {"returned", "raised"} /\ UNCHANGED vars

Next == Returns \/ GivesUp \/ Fails \/ Multiplies \/ Cuts \/ TriesAgain \/ Terminated

Spec == Init /\ [][Next]_vars

----------------------------------------------------------------------------
(* Properties.                                                              *)

(* Every variable has its type; one delay is recorded per failed attempt.   *)
TypeOK ==
    /\ config \in Config
    /\ stage \in Stages
    /\ attempt \in 1..config.attempts
    /\ delay \in Nat
    /\ step \in 1..attempt
    /\ naps \in Seq(Nat)
    /\ Len(naps) = IF stage = "sleeping" THEN attempt ELSE attempt - 1
    /\ slept \in Nat

Power(x) == LET power[n \in Nat] == IF n = 0 THEN 1 ELSE x * power[n - 1] IN power

(* What the docstring calls the delay: "the first failure uses              *)
(* initial_seconds and later failures multiply it", bounded (workflow.py    *)
(* 176-179).                                                                *)
Exponential ==
    \A k \in DOMAIN naps :
        LET exact == config.initial * Power(config.multiplier)[k - 1]
        IN  naps[k] = IF exact > config.longest THEN config.longest ELSE exact

(* However the node fails, a request waits at most the longest delay        *)
(* between two attempts, and never after the last: this bounds what a model *)
(* that is down can cost.                                                   *)
WaitsBounded ==
    slept + (IF stage = "sleeping" THEN delay ELSE 0) <=
        (config.attempts - 1) * config.longest

================================================================================
