-------------------------------- MODULE Lists --------------------------------
(***************************************************************************)
(* Array.filter as the connector uses it: what a list holds besides some   *)
(* elements, in its order.  It is SelectSeq, written as a function so that *)
(* it can be reasoned about.                                               *)
(***************************************************************************)
EXTENDS Naturals, Sequences

Dropping(list, these) ==
  LET kept[n \in 0 .. Len(list)] ==
        IF n = 0 THEN <<>>
        ELSE IF list[n] \in these THEN kept[n - 1] ELSE Append(kept[n - 1], list[n])
  IN  kept[Len(list)]
=============================================================================
