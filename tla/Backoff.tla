------------------------------ MODULE Backoff ------------------------------
(***************************************************************************)
(* retryDelay and equalJitter of outbox.go: exponential backoff that       *)
(* doubles without overflowing, capped, with half of it random.            *)
(***************************************************************************)
EXTENDS Integers

\* The loop of retryDelay after the attempts 1..n: doubled while below max.
Doubled(base, max) ==
    LET d[n \in Nat] ==
            IF n <= 1 THEN base
            ELSE IF d[n - 1] >= max THEN d[n - 1]
            ELSE IF d[n - 1] > max \div 2 THEN max
            ELSE d[n - 1] * 2
    IN d

Capped(base, max, n) ==
    LET d == Doubled(base, max)[n] IN IF d > max THEN max ELSE d

\* The delays equalJitter may return: half plus 0..half at random.
equalJitter(delay) ==
    LET half == delay \div 2
    IN IF half <= 0 THEN {delay} ELSE half..(half + half)

retryDelay(base, max, n) == equalJitter(Capped(base, max, n))
=============================================================================
