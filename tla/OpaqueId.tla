------------------------------ MODULE OpaqueId ------------------------------
(* The permutation of master/lib/opaqueid.ts: node sequence numbers become *)
(* opaque ids by an eight-round Feistel network on pairs of digits in      *)
(* radix Radix (100000 in the code) and come back by the same rounds in    *)
(* reverse.  The round function (HMAC-SHA256 modulo the radix) is a        *)
(* parameter: nothing but its range matters.                               *)
EXTENDS Integers

CONSTANT Radix

ASSUME RadixAssumption == Radix \in Nat \ {0}

Digit  == 0 .. (Radix - 1)
Domain == Radix * Radix
Ids    == 0 .. (Domain - 1)

\* What F(round, half, key, tweak) can be for one key and one tweak.
RoundFunctions == [0 .. 7 -> [Digit -> Digit]]

Split(x)  == <<x \div Radix, x % Radix>>
Joined(h) == h[1] * Radix + h[2]

\* One turn of the loop in encodeNodeId, and of the one in decodeNodeId.
Scramble(f, i, h)   == <<h[2], (h[1] + f[i][h[2]]) % Radix>>
Unscramble(f, i, h) == <<(h[2] - f[i][h[1]] + Radix) % Radix, h[1]>>

Forward(f, h) ==
  LET a == Scramble(f, 1, Scramble(f, 0, h))
      b == Scramble(f, 3, Scramble(f, 2, a))
      c == Scramble(f, 5, Scramble(f, 4, b))
  IN  Scramble(f, 7, Scramble(f, 6, c))

BackwardUpwards(f, h) ==
  LET a == Unscramble(f, 1, Unscramble(f, 0, h))
      b == Unscramble(f, 3, Unscramble(f, 2, a))
      c == Unscramble(f, 5, Unscramble(f, 4, b))
  IN  Unscramble(f, 7, Unscramble(f, 6, c))

Backward(f, h) ==
  LET c == Unscramble(f, 6, Unscramble(f, 7, h))
      b == Unscramble(f, 4, Unscramble(f, 5, c))
      a == Unscramble(f, 2, Unscramble(f, 3, b))
  IN  Unscramble(f, 0, Unscramble(f, 1, a))

\* The id of a node, and the node of an id; null for an id out of range.
EncodeNodeId(f, seq) == Joined(Forward(f, Split(seq % Domain)))
DecodeNodeId(f, y)   == IF y \in Ids THEN Joined(Backward(f, Split(y))) ELSE -1

\* An id the dashboard hands out leads back to the node it was made for, and
\* two nodes never share an id.
RoundTrips(f) ==
  \A seq \in Ids : /\ EncodeNodeId(f, seq) \in Ids
                   /\ DecodeNodeId(f, EncodeNodeId(f, seq)) = seq
=============================================================================
