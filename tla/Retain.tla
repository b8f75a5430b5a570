--------------------------------- MODULE Retain ---------------------------------
(* What is left of a sequence when only some of its elements stay, in their   *)
(* order: retain() and filter() of Rust's Vec and VecDeque.  A recursive      *)
(* function, not SelectSeq, so that it can be reasoned about.                 *)
EXTENDS Naturals, Sequences

Retained(s, keep) ==
    LET left[n \in 0 .. Len(s)] ==
          IF n = 0 THEN <<>>
          ELSE IF s[n] \in keep THEN Append(left[n - 1], s[n]) ELSE left[n - 1]
    IN left[Len(s)]
=============================================================================
