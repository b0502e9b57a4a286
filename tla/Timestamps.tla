----------------------------- MODULE Timestamps -----------------------------
(***************************************************************************)
(* Timestamps and time bases as libavutil defines them.  A time base is a  *)
(* pair <<num, den>>; AV_TIME_BASE is the number of units of a second in   *)
(* which the program keeps times that belong to no stream.                 *)
(***************************************************************************)
EXTENDS Integers

CONSTANTS
    AV_TIME_BASE,
    dts_delta_threshold, dts_error_threshold   \* options of the program, in seconds

ASSUME TimeBaseAssumption == AV_TIME_BASE \in Nat \ {0}

NOPTS == -1000000000      \* AV_NOPTS_VALUE, below every timestamp
Never == 1000000000       \* INT64_MAX where it means "no limit"

AV_TIME_BASE_Q == <<1, AV_TIME_BASE>>

Inv(q) == <<q[2], q[1]>>
Abs(n) == IF n < 0 THEN -n ELSE n
Larger(a, b)  == IF a > b THEN a ELSE b
Smaller(a, b) == IF a < b THEN a ELSE b
Clip(n, lo, hi) == Larger(lo, Smaller(n, hi))

FloorDiv(a, b) == a \div b
CeilDiv(a, b)  == -((-a) \div b)

\* AV_ROUND_NEAR_INF: to the nearest, halves away from zero.
NearDiv(a, b) == IF a >= 0 THEN (2 * a + b) \div (2 * b) ELSE -((b - 2 * a) \div (2 * b))

\* C's conversion of a double to an integer.
TruncDiv(a, b) == IF a >= 0 THEN a \div b ELSE -((-a) \div b)

\* llrint: to the nearest, halves to even.
EvenDiv(a, b) ==
    LET q == a \div b
        r == 2 * (a - b * q)
    IN  IF r > b \/ (r = b /\ q % 2 = 1) THEN q + 1 ELSE q

Scaled(ts, from, to, Div(_, _)) == Div(ts * from[1] * to[2], from[2] * to[1])

Rescale(ts, from, to)     == Scaled(ts, from, to, NearDiv)
RescaleUp(ts, from, to)   == Scaled(ts, from, to, CeilDiv)
RescaleDown(ts, from, to) == Scaled(ts, from, to, FloorDiv)

\* Conversions that leave a missing timestamp missing.
RescaleTs(ts, from, to) == IF ts = NOPTS THEN NOPTS ELSE Rescale(ts, from, to)

\* av_compare_ts(a, tba, b, tbb) < 0
Before(a, tba, b, tbb) == a * tba[1] * tbb[2] < b * tbb[1] * tba[2]

\* A timestamp and its time base, the type Timestamp of the program.
Stamp(ts, tb) == [ts |-> ts, tb |-> tb]

Gcd(a, b) ==
    CHOOSE g \in 1 .. a : /\ a % g = 0 /\ b % g = 0
                          /\ \A n \in (g + 1) .. a : ~(a % n = 0 /\ b % n = 0)

(***************************************************************************)
(* av_rescale_delta: converts the timestamps of consecutive audio frames   *)
(* without the jitter of a coarse time base.  last is the expected start   *)
(* of this frame in samples.                                               *)
(***************************************************************************)
RescaleDelta(in_tb, ts, fs_tb, samples, last, out_tb) ==
    LET Simple(a, b) == \/ last = NOPTS \/ samples = 0
                        \/ in_tb[1] * out_tb[2] <= out_tb[1] * in_tb[2]
                        \/ last < 2 * a - b \/ last > 2 * b - a
        Result(simple, this) ==
            [ts   |-> IF simple THEN Rescale(ts, in_tb, out_tb) ELSE Rescale(this, fs_tb, out_tb),
             last |-> this + samples]
        Between(a, b) ==
            IF Simple(a, b) THEN Result(TRUE, Rescale(ts, in_tb, fs_tb)) ELSE Result(FALSE, Clip(last, a, b))
    IN  Between(RescaleDown(2 * ts - 1, in_tb, fs_tb) \div 2, (RescaleUp(2 * ts + 1, in_tb, fs_tb) + 1) \div 2)
=============================================================================
