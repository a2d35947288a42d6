-------------------------------- MODULE Lists --------------------------------
(***************************************************************************)
(* Array.prototype.filter(), as the window's lists use it.  It is written  *)
(* here, and not taken from SelectSeq, so that it can be reasoned about:   *)
(* the recursion is a function, unfolded one element at a time.            *)
(***************************************************************************)
EXTENDS Naturals, Sequences

\* The elements of seq that are in S, in their order.
Only(seq, S) ==
  LET chosen[n \in 0 .. Len(seq)] ==
        IF n = 0 THEN <<>>
        ELSE IF seq[n] \in S THEN Append(chosen[n - 1], seq[n]) ELSE chosen[n - 1]
  IN chosen[Len(seq)]

\* seq without the element x.
Without(seq, x) == Only(seq, {seq[i] : i \in DOMAIN seq} \ {x})
=============================================================================
