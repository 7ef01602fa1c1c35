----------------------------- MODULE TaskBackoff -----------------------------
(* The retry delay of the plugin task queue, plugins/host_taskqueue.go.      *)
(* The code shifts an int64 left without testing for overflow and repairs    *)
(* the result afterwards; integers keep their width here for that reason.    *)
EXTENDS Integers

CONSTANTS
    Width,         \* bits of the signed machine integer (64 in the code)
    MaxBackoffMs   \* maxBackoffMs, the cap on a retry delay

ASSUME WidthAssumption == Width \in Nat \ {0, 1}
ASSUME MaxBackoffAssumption == MaxBackoffMs \in Nat \ {0}

\* The powers of two a shift multiplies by, up to those beyond the width.
Pow2[k \in 0 .. Width + 1] == IF k = 0 THEN 1 ELSE 2 * Pow2[k - 1]

\* x reduced to a signed two's complement integer of Width bits.
Wrap(x) ==
    LET m == x % Pow2[Width]
    IN  IF m >= Pow2[Width - 1] THEN m - Pow2[Width] ELSE m

\* Go's b << k on a signed integer of Width bits: a shift of Width or more is 0.
ShiftLeft(b, k) == IF k >= Width THEN 0 ELSE Wrap(b * Pow2[k])

\* mutant: only the too large shifts are repaired
BackoffUnguarded(backoffMs, attempt) ==
    LET shifted == ShiftLeft(backoffMs, attempt - 1)
    IN  IF shifted > MaxBackoffMs THEN MaxBackoffMs ELSE shifted

\* The delay before the retry that follows attempt number `attempt`:
\* non-positive and too large shifts both become the cap.
Backoff(backoffMs, attempt) ==
    LET shifted == ShiftLeft(backoffMs, attempt - 1)
    IN  IF shifted \in 1..MaxBackoffMs THEN shifted ELSE MaxBackoffMs

CappedExponential(b, a) ==
    IF b * Pow2[a - 1] > MaxBackoffMs THEN MaxBackoffMs ELSE b * Pow2[a - 1]

\* "Exponential backoff: backoffMs * 2^(attempt-1)", cut off at one hour
\* (handleTaskFailure): a shift that overflows is never mistaken for a delay, for
\* every base whose product with the cap fits the integer (some 80 years in the
\* code, a larger base could overflow to a few milliseconds) and for attempts
\* beyond the width of the integer.
BackoffIsExponential ==
    \A b \in 1 .. Pow2[Width - 1] - 1, a \in 1 .. Width + 2 :
        b * MaxBackoffMs < Pow2[Width - 1] => Backoff(b, a) = CappedExponential(b, a)
=============================================================================
