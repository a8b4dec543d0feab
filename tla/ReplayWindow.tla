---------------------------- MODULE ReplayWindow ----------------------------
(***************************************************************************)
(* The sliding window that tells the numbers of received envelopes apart   *)
(* (internal/securechan/securechan.go, replayWindow).                      *)
(*                                                                         *)
(* bits is the set of the positions that are 1 in the bitmap: position i   *)
(* stands for the number max - i.  A shift to the left by d moves every    *)
(* position up by d and drops those that leave the word, all of them when  *)
(* d >= W, so that the two branches of the code are one expression.        *)
(***************************************************************************)
EXTENDS Naturals

CONSTANT W      \* windowSize, the width of the bitmap (64)

ASSUME WidthIsPositive == W \in Nat \ {0}

Windows(Numbers) == [max : Numbers, bits : SUBSET (0 .. W - 1)]

EmptyWindow == [max |-> 0, bits |-> {}]

\* The reference: w is the window of the numbers in S.  The bitmap says exactly
\* which of the last W numbers, counted from the highest, are among them.
Exact(w, S) ==
    /\ \A q \in S : q <= w.max
    /\ w.max = 0 \/ w.max \in S
    /\ \A i \in 0 .. W - 1 : i \in w.bits <=> i < w.max /\ w.max - i \in S

\* What Check answers for the number q.
Fresh(w, q) ==
    /\ q > 0
    /\ \/ q > w.max
       \/ w.max - q < W /\ w.max - q \notin w.bits

\* w.bitmap <<= shift
Shifted(bits, d) == {i + d : i \in bits} \cap (0 .. W - 1)

\* What Check makes of the window when it answers yes.
Mark(w, q) ==
    IF q > w.max
    THEN [max |-> q, bits |-> Shifted(w.bits, q - w.max) \cup {0}]
    ELSE [w EXCEPT !.bits = @ \cup {w.max - q}]
=============================================================================
