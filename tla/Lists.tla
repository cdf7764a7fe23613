-------------------------------- MODULE Lists --------------------------------
(***************************************************************************)
(* Lists of the program.                                                   *)
(***************************************************************************)
EXTENDS Integers, Sequences

\* [x for x in s if x in A]: the elements of s that are in A, in the order of s.
Filter(s, A) ==
  LET upTo[n \in 0 .. Len(s)] == IF n = 0 THEN <<>>
                                 ELSE IF s[n] \in A THEN Append(upTo[n - 1], s[n])
                                 ELSE upTo[n - 1]
  IN  upTo[Len(s)]

=============================================================================
