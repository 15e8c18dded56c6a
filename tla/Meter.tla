------------------------------- MODULE Meter --------------------------------
(***************************************************************************)
(* wuy_meter.h: a token bucket.  Time and tokens are whole numbers; the    *)
(* clock is the system's, which may be set back.                           *)
(***************************************************************************)
EXTENDS Integers, Sequences

CONSTANTS
  Rate, Burst,  \* struct wuy_meter_conf
  Costs,        \* of checks
  Start, MaxNow,\* the clock's time at first, and a bound on it
  MaxChecks     \* bound on the checks

\* The header asks for burst >= rate; the first check is long after 1970.
ASSUME MeterAssumption ==
  /\ Rate \in Nat /\ Burst \in Nat /\ Burst >= Rate
  /\ Start \in Nat /\ Start * Rate >= Burst
  /\ Costs \subseteq Int /\ MaxNow \in Int

VARIABLES
  now,             \* wuy_meter_now()
  reset, tokens,   \* struct wuy_meter_node
  checks           \* specification only: [time, cost, granted] of the checks

meterVars == <<now, reset, tokens, checks>>

MeterInit == now = Start /\ reset = 0 /\ tokens = 0 /\ checks = <<>>

\* The time goes on, or is set back.
Clock(t) == now' = t /\ UNCHANGED <<reset, tokens, checks>>

\* Mutant: tokens above the burst are dropped after the cost is taken.
FilledLate(cost) ==
  LET left == tokens + (now - reset) * Rate - cost IN IF left > Burst THEN Burst ELSE left

\* m->tokens after a check: what the time has earned, up to the burst, less the cost.
Filled(cost) ==
  LET earned == tokens + (now - reset) * Rate
  IN  (IF earned > Burst THEN Burst ELSE earned) - cost

\* wuy_meter_check(): what is refused costs as much as what is granted.
Check(cost) ==
  /\ Len(checks) < MaxChecks
  /\ tokens' = Filled(cost)
  /\ reset' = now
  /\ checks' = Append(checks, [time |-> now, cost |-> cost, granted |-> tokens' >= 0])
  /\ UNCHANGED now

MeterNext == (\E t \in Start .. MaxNow : Clock(t)) \/ (\E cost \in Costs : Check(cost))
MeterSpec == MeterInit /\ [][MeterNext]_meterVars

-----------------------------------------------------------------------------
\* What the first checks cost together.
Paid(seq) == LET paid[i \in 0 .. Len(seq)] == IF i = 0 THEN 0 ELSE paid[i - 1] + seq[i].cost
             IN  paid

\* A check is granted if and only if, over each period that ends with it, the
\* costs of all checks are no more than a burst and what the period earns: neither
\* checks close to each other nor a clock that is set back earn anything else.
GrantedAsEarned ==
  checks # <<>> =>
    LET n == Len(checks)
        paid == Paid(checks)
    IN  checks[n].granted <=>
          \A j \in 1 .. n :
            paid[n] - paid[j - 1] <= Burst + Rate * (checks[n].time - checks[j].time)
=============================================================================
