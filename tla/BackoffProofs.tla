----------------------------- MODULE BackoffProofs -----------------------------
(****************************************************************************)
(* TypeOK, WaitsBounded and Exponential of Backoff for every set of         *)
(* configurations, with no bound on attempts or seconds.                    *)
(*                                                                          *)
(* The argument: before attempt k at most k - 1 delays were slept, each cut *)
(* to the longest, and a delay only begins while an attempt is left.  While *)
(* a delay is computed it has been multiplied once per step taken, and it   *)
(* is cut when the steps are as many as the attempts.                       *)
(****************************************************************************)
EXTENDS Backoff, WellFoundedInduction, TLAPS

(* A delay is computed and slept only while an attempt is left.             *)
AttemptLeft == stage \in {"multiplying", "sleeping"} => attempt < config.attempts

DelayCut == stage = "sleeping" => delay <= config.longest

SleptSoFar == slept <= (attempt - 1) * config.longest

IInv == TypeOK /\ AttemptLeft /\ DelayCut /\ SleptSoFar

----------------------------------------------------------------------------
(* More delays of one length are not shorter together.                      *)
LEMMA MoreIsLonger ==
    ASSUME NEW m \in Nat, NEW n \in Nat, NEW longest \in Nat, m <= n
    PROVE  m * longest <= n * longest
<1> DEFINE more == n - m
<1>1. more \in Nat /\ n = m + more
  OBVIOUS
<1>2. more * longest \in Nat
  BY <1>1
<1>3. n * longest = m * longest + more * longest
  BY <1>1
<1> QED BY <1>2, <1>3

(* A product of naturals is one.                                            *)
LEMMA ProductIsNat == ASSUME NEW m \in Nat, NEW n \in Nat PROVE m * n \in Nat
  OBVIOUS

(* The first attempt is made, and nothing was slept.                        *)
LEMMA InvInit == Init => IInv
  BY DEF Init, IInv, TypeOK, AttemptLeft, DelayCut, SleptSoFar, Config, Stages

(* Every step keeps the invariant.                                          *)
LEMMA InvStep == IInv /\ [Next]_vars => IInv'
<1> SUFFICES ASSUME IInv, [Next]_vars PROVE IInv' OBVIOUS
<1> USE DEF IInv, TypeOK, AttemptLeft, DelayCut, SleptSoFar
<1>1. config \in Config
  OBVIOUS
<1>2. /\ config.attempts \in Nat \ {0} /\ config.initial \in Nat
      /\ config.multiplier \in Nat \ {0} /\ config.longest \in Nat
  BY <1>1 DEF Config
<1>3. CASE Returns
  BY <1>2, <1>3 DEF Returns, Stages
<1>4. CASE GivesUp
  BY <1>2, <1>4 DEF GivesUp, Stages
<1>5. CASE Fails
  BY <1>2, <1>5 DEF Fails, Exhausted, Stages
<1>6. CASE Multiplies
  <2>1. delay' \in Nat
    BY <1>2, <1>6, ProductIsNat DEF Multiplies
  <2>2. step' \in 1..attempt'
    BY <1>2, <1>6 DEF Multiplies, StepsLeft
  <2> QED BY <1>2, <1>6, <2>1, <2>2 DEF Multiplies
<1>7. CASE Cuts
  <2>1. Capped(delay) \in Nat /\ Capped(delay) <= config.longest
    BY <1>2 DEF Capped
  <2>2. naps' \in Seq(Nat) /\ Len(naps') = Len(naps) + 1
    BY <1>7, <2>1 DEF Cuts
  <2>3. /\ stage = "multiplying" /\ stage' = "sleeping" /\ delay' = Capped(delay)
        /\ UNCHANGED <<config, attempt, step, slept>>
    BY <1>7 DEF Cuts
  <2> QED BY <1>2, <2>1, <2>2, <2>3 DEF Stages
<1>8. CASE TriesAgain
  <2>1. /\ stage = "sleeping" /\ stage' = "trying" /\ slept' = slept + delay
        /\ attempt' = attempt + 1
        /\ UNCHANGED <<config, delay, step, naps>>
    BY <1>8 DEF TriesAgain
  <2>2. slept' <= (attempt' - 1) * config'.longest
    <3>1. attempt \in Nat /\ attempt - 1 \in Nat
      BY <1>2
    <3>2. (attempt - 1) * config.longest + config.longest = attempt * config.longest
      BY <1>2, <3>1
    <3>3. (attempt - 1) * config.longest \in Nat /\ attempt * config.longest \in Nat
      BY <1>2, <3>1, ProductIsNat
    <3>4. slept + delay <= attempt * config.longest
      BY <1>2, <2>1, <3>2, <3>3
    <3> QED BY <2>1, <3>1, <3>4
  <2> QED BY <1>2, <2>1, <2>2 DEF Stages
<1>9. CASE UNCHANGED vars
  BY <1>2, <1>9 DEF vars
<1> QED BY <1>3, <1>4, <1>5, <1>6, <1>7, <1>8, <1>9 DEF Next, Terminated

(* The inductive invariant holds in every reachable state.                  *)
THEOREM Invariance == Spec => []IInv
<1> QED BY InvInit, InvStep, PTL DEF Spec

(* Every variable of the retry loop keeps its type: there is one delay per  *)
(* failed attempt, whatever the configuration.                              *)
THEOREM TypeCorrect == Spec => []TypeOK
<1>1. IInv => TypeOK
  BY DEF IInv
<1> QED BY <1>1, Invariance, PTL

(* However a node fails, its request never waits longer than the longest    *)
(* delay before each attempt but the first (_next_agent_transition).        *)
THEOREM WaitsAreBounded == Spec => []WaitsBounded
<1>1. IInv => WaitsBounded
  <2> SUFFICES ASSUME IInv PROVE WaitsBounded OBVIOUS
  <2> USE DEF IInv, TypeOK, AttemptLeft, DelayCut, SleptSoFar
  <2>1. /\ config.attempts \in Nat \ {0} /\ config.longest \in Nat
    BY DEF Config
  <2>2. /\ attempt \in Nat /\ attempt - 1 \in Nat /\ config.attempts - 1 \in Nat
        /\ attempt - 1 <= config.attempts - 1
    BY <2>1
  <2>3. /\ (attempt - 1) * config.longest \in Nat /\ attempt * config.longest \in Nat
        /\ (config.attempts - 1) * config.longest \in Nat
    BY <2>1, <2>2, ProductIsNat
  <2>4. CASE stage = "sleeping"
    <3>1. attempt <= config.attempts - 1
      BY <2>1, <2>2, <2>4
    <3>2. attempt * config.longest <= (config.attempts - 1) * config.longest
      BY <2>1, <2>2, <3>1, MoreIsLonger
    <3>3. (attempt - 1) * config.longest + config.longest = attempt * config.longest
      BY <2>1, <2>2
    <3> QED BY <2>1, <2>3, <2>4, <3>2, <3>3 DEF WaitsBounded
  <2>5. CASE stage # "sleeping"
    <3>1. (attempt - 1) * config.longest <= (config.attempts - 1) * config.longest
      BY <2>1, <2>2, MoreIsLonger
    <3> QED BY <2>1, <2>3, <2>5, <3>1 DEF WaitsBounded
  <2> QED BY <2>4, <2>5
<1> QED BY <1>1, Invariance, PTL

----------------------------------------------------------------------------
(* Powers.  That the recursion of Power has a solution is proved here by    *)
(* induction, from the least element of a set of naturals.                  *)

(* A set of naturals that is closed under successors, and has 0, is Nat.    *)
LEMMA SetInduction ==
    ASSUME NEW S \in SUBSET Nat, 0 \in S, \A n \in S : n + 1 \in S
    PROVE  S = Nat
<1> DEFINE below == {p \in Nat \X Nat : p[1] < p[2]}
           T == Nat \ S
<1> SUFFICES ASSUME T # {} PROVE FALSE
  OBVIOUS
<1>1. OpToRel(<, Nat) = below
  BY DEF OpToRel
<1>2. IsWellFoundedOn(below, Nat)
  BY <1>1, NatLessThanWellFounded
<1>3. T \subseteq Nat
  OBVIOUS
<1> HIDE DEF below, T
<1>4. PICK n \in T : \A m \in T : ~ (<<m, n>> \in below)
  BY <1>2, <1>3, WFMin
<1>5. n \in Nat \ {0} /\ n \notin S
  BY <1>4 DEF T
<1>6. n - 1 \in Nat /\ <<n - 1, n>> \in below
  BY <1>5 DEF below
<1>7. n - 1 \in S
  BY <1>4, <1>6 DEF T
<1> QED BY <1>5, <1>7

(* The powers of x up to the n-th.                                          *)
PowersTo(x, n) ==
    {g \in [0..n -> Nat] : g[0] = 1 /\ \A k \in 1..n : g[k] = x * g[k - 1]}

(* They exist.                                                              *)
LEMMA PowersExist ==
    ASSUME NEW x \in Nat, NEW n \in Nat
    PROVE  PowersTo(x, n) # {}
<1> DEFINE S == {m \in Nat : PowersTo(x, m) # {}}
<1>1. 0 \in S
  <2>1. [k \in 0..0 |-> 1] \in PowersTo(x, 0)
    BY DEF PowersTo
  <2> QED BY <2>1
<1>2. ASSUME NEW m \in S PROVE m + 1 \in S
  <2>1. PICK g : g \in PowersTo(x, m)
    OBVIOUS
  <2>2. m \in Nat /\ g \in [0..m -> Nat] /\ g[0] = 1 /\ \A k \in 1..m : g[k] = x * g[k - 1]
    BY <2>1 DEF PowersTo
  <2>3. PICK last \in Nat : last = x * g[m]
    BY <2>2, ProductIsNat
  <2> DEFINE h == [k \in 0..(m + 1) |-> IF k = m + 1 THEN last ELSE g[k]]
  <2>4. h \in [0..(m + 1) -> Nat]
    BY <2>2
  <2>5. h[0] = 1 /\ \A k \in 1..(m + 1) : h[k] = x * h[k - 1]
    <3>1. h[0] = 1 /\ h[m] = g[m] /\ h[m + 1] = last /\ \A k \in 0..m : h[k] = g[k]
      BY <2>2
    <3>2. ASSUME NEW k \in 1..m PROVE h[k] = x * h[k - 1]
      BY <2>2, <3>1
    <3>3. \A k \in 1..(m + 1) : k \in 1..m \/ k = m + 1
      BY <2>2
    <3> HIDE DEF h
    <3>4. (m + 1) - 1 = m
      BY <2>2
    <3> QED BY <2>3, <3>1, <3>2, <3>3, <3>4
  <2> HIDE DEF h
  <2>6. h \in PowersTo(x, m + 1)
    BY <2>4, <2>5 DEF PowersTo
  <2> QED BY <2>2, <2>6
<1> HIDE DEF S
<1>3. S = Nat
  BY <1>1, <1>2, SetInduction DEF S
<1> QED BY <1>3 DEF S

(* And agree.                                                               *)
LEMMA PowersAgree ==
    ASSUME NEW x \in Nat, NEW n \in Nat, NEW m \in Nat,
           NEW g \in PowersTo(x, n), NEW h \in PowersTo(x, m)
    PROVE  \A k \in 0..n \cap 0..m : g[k] = h[k]
<1> DEFINE S == {k \in Nat : k <= n /\ k <= m => g[k] = h[k]}
<1>1. /\ g[0] = 1 /\ \A k \in 1..n : g[k] = x * g[k - 1]
      /\ h[0] = 1 /\ \A k \in 1..m : h[k] = x * h[k - 1]
  BY DEF PowersTo
<1>2. 0 \in S
  BY <1>1
<1>3. ASSUME NEW k \in S PROVE k + 1 \in S
  <2> SUFFICES ASSUME k + 1 <= n, k + 1 <= m PROVE g[k + 1] = h[k + 1]
    OBVIOUS
  <2>1. k \in Nat /\ k + 1 \in 1..n /\ k + 1 \in 1..m /\ (k + 1) - 1 = k
    OBVIOUS
  <2>2. g[k] = h[k]
    BY <2>1
  <2>3. g[k + 1] = x * g[k] /\ h[k + 1] = x * h[k]
    BY <1>1, <2>1
  <2> QED BY <2>2, <2>3
<1> HIDE DEF S
<1>4. S = Nat
  BY <1>2, <1>3, SetInduction DEF S
<1> QED BY <1>4 DEF S

(* Power is what it says.                                                   *)
LEMMA PowersMultiply ==
    ASSUME NEW x \in Nat
    PROVE  /\ Power(x)[0] = 1
           /\ \A n \in Nat : Power(x)[n] \in Nat /\ Power(x)[n + 1] = Power(x)[n] * x
<1> DEFINE g(n) == CHOOSE h : h \in PowersTo(x, n)
           f == [n \in Nat |-> g(n)[n]]
           Solves(p) == p = [n \in Nat |-> IF n = 0 THEN 1 ELSE x * p[n - 1]]
<1>1. \A n \in Nat : g(n) \in PowersTo(x, n)
  BY PowersExist
<1> HIDE DEF g
<1>2. f[0] = 1
  BY <1>1 DEF PowersTo
<1>3. ASSUME NEW n \in Nat \ {0} PROVE f[n] = x * f[n - 1]
  <2>1. n - 1 \in Nat /\ g(n) \in PowersTo(x, n) /\ g(n - 1) \in PowersTo(x, n - 1)
    BY <1>1
  <2>2. n - 1 \in 0..n \cap 0..(n - 1)
    OBVIOUS
  <2>3. g(n)[n - 1] = g(n - 1)[n - 1]
    BY <2>1, <2>2, PowersAgree
  <2>4. g(n)[n] = x * g(n)[n - 1]
    BY <2>1 DEF PowersTo
  <2> QED BY <2>1, <2>3, <2>4
<1>4. \A n \in Nat : f[n] \in Nat
  <2> SUFFICES ASSUME NEW n \in Nat PROVE g(n)[n] \in Nat
    OBVIOUS
  <2> QED BY <1>1 DEF PowersTo
<1>5. Solves(f)
  <2>1. f = [n \in Nat |-> f[n]]
    OBVIOUS
  <2>2. \A n \in Nat : f[n] = IF n = 0 THEN 1 ELSE x * f[n - 1]
    BY <1>2, <1>3
  <2> HIDE DEF f
  <2> QED BY <2>1, <2>2
<1> HIDE DEF f
<1>6. Solves(Power(x))
  <2>1. Power(x) = CHOOSE p : Solves(p)
    BY DEF Power
  <2> HIDE DEF Solves
  <2> QED BY <1>5, <2>1
<1>7. \A n \in Nat : Power(x)[n] = IF n = 0 THEN 1 ELSE x * Power(x)[n - 1]
  BY <1>6
<1>8. \A n \in Nat : Power(x)[n] \in Nat
  <2> DEFINE S == {n \in Nat : Power(x)[n] \in Nat}
  <2>1. 0 \in S
    BY <1>7
  <2>2. ASSUME NEW n \in S PROVE n + 1 \in S
    <3>1. n \in Nat /\ n + 1 \in Nat /\ n + 1 # 0 /\ (n + 1) - 1 = n
      OBVIOUS
    <3>2. Power(x)[n + 1] = x * Power(x)[n]
      BY <1>7, <3>1
    <3> QED BY <3>1, <3>2, ProductIsNat
  <2> HIDE DEF S
  <2>3. S = Nat
    BY <2>1, <2>2, SetInduction DEF S
  <2> QED BY <2>3 DEF S
<1>9. ASSUME NEW n \in Nat PROVE Power(x)[n + 1] = Power(x)[n] * x
  <2>1. n + 1 \in Nat /\ n + 1 # 0 /\ (n + 1) - 1 = n /\ Power(x)[n] \in Nat
    BY <1>8
  <2>2. Power(x)[n + 1] = x * Power(x)[n]
    BY <1>7, <2>1
  <2> QED BY <2>1, <2>2
<1> QED BY <1>7, <1>8, <1>9

(* The delay after k failures, before it is cut.                            *)
Exact(k) == config.initial * Power(config.multiplier)[k - 1]

Multiplied == stage = "multiplying" => delay = Exact(step)

(* One more failure multiplies the delay once more.                         *)
LEMMA ExactGrows ==
    ASSUME config \in Config, NEW k \in Nat \ {0}
    PROVE  Exact(1) = config.initial /\ Exact(k + 1) = Exact(k) * config.multiplier
<1> DEFINE x == config.multiplier
           y == config.initial
           p == Power(x)[k - 1]
<1>1. x \in Nat /\ y \in Nat
  BY DEF Config
<1>2. k - 1 \in Nat /\ (k - 1) + 1 = k /\ (k + 1) - 1 = k /\ 1 - 1 = 0
  OBVIOUS
<1> HIDE DEF x, y
<1>3. Power(x)[0] = 1 /\ p \in Nat /\ Power(x)[k] = p * x
  BY <1>1, <1>2, PowersMultiply
<1>4. Exact(k + 1) = y * Power(x)[k] /\ Exact(k) = y * p /\ Exact(1) = y * Power(x)[0]
  BY <1>2 DEF Exact, x, y
<1> HIDE DEF p
<1>5. y * (p * x) = (y * p) * x /\ y * 1 = y
  BY <1>1, <1>3
<1> QED BY <1>3, <1>4, <1>5 DEF x, y

(* The loop multiplies the delay once per earlier failure, and cuts it.     *)
LEMMA DelaysStep ==
    ASSUME IInv, Multiplied, Exponential, [Next]_vars
    PROVE  Multiplied' /\ Exponential'
<1> USE DEF IInv, TypeOK
<1>1. config \in Config
  OBVIOUS
<1>2. CASE Fails
  <2>1. delay' = config.initial /\ step' = 1 /\ config' = config
    BY <1>2 DEF Fails
  <2>2. Exact(step)' = Exact(1)
    BY <2>1 DEF Exact
  <2> QED BY <1>1, <1>2, <2>1, <2>2, ExactGrows DEF Fails, Multiplied, Exponential
<1>3. CASE Multiplies
  <2>1. step \in Nat \ {0} /\ config' = config /\ step' = step + 1 /\ stage = "multiplying"
    BY <1>1, <1>3 DEF Multiplies, Config
  <2>2. Exact(step)' = Exact(step + 1)
    BY <2>1 DEF Exact
  <2> QED BY <1>1, <1>3, <2>1, <2>2, ExactGrows DEF Multiplies, Multiplied, Exponential
<1>4. CASE Cuts
  <2>1. /\ step = attempt /\ attempt \in Nat \ {0} /\ Len(naps) = attempt - 1
        /\ UNCHANGED config /\ stage' = "sleeping" /\ naps' = Append(naps, Capped(delay))
    BY <1>1, <1>4 DEF Cuts, StepsLeft, Config
  <2>2. delay = Exact(attempt) /\ Capped(delay) \in Nat
    BY <1>1, <1>4, <2>1 DEF Cuts, Multiplied, Capped, Config
  <2>3. /\ DOMAIN naps = 1..(attempt - 1) /\ DOMAIN naps' = 1..attempt
        /\ naps'[attempt] = Capped(Exact(attempt))
        /\ \A k \in 1..(attempt - 1) : naps'[k] = naps[k]
    BY <2>1, <2>2
  <2>4. \A k \in 1..attempt : k = attempt \/ k \in 1..(attempt - 1)
    BY <2>1
  <2>5. \A k \in 1..(attempt - 1) : naps[k] = Capped(Exact(k))
    BY <2>3 DEF Exponential, Exact, Capped
  <2>6. \A k \in DOMAIN naps' : naps'[k] = Capped(Exact(k))
    BY <2>3, <2>4, <2>5
  <2> QED BY <2>1, <2>6 DEF Multiplied, Exponential, Exact, Capped
<1>5. CASE Returns \/ GivesUp \/ TriesAgain
  BY <1>5 DEF Returns, GivesUp, TriesAgain, Multiplied, Exponential
<1>6. CASE UNCHANGED vars
  BY <1>6 DEF vars, Multiplied, Exponential, Exact
<1> QED BY <1>2, <1>3, <1>4, <1>5, <1>6 DEF Next, Terminated

(* The first failure waits initial_seconds and each later one multiplies    *)
(* the wait, cut to the longest: what the docstring says of the delays      *)
(* (_model_retry_backoff_seconds), for every configuration.                 *)
THEOREM DelaysExponential == Spec => []Exponential
<1>1. Init => Multiplied /\ Exponential
  BY DEF Init, Multiplied, Exponential
<1>2. IInv /\ Multiplied /\ Exponential /\ [Next]_vars => Multiplied' /\ Exponential'
  BY DelaysStep
<1> QED BY <1>1, <1>2, Invariance, PTL DEF Spec

================================================================================
