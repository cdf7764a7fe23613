--------------------------- MODULE BandwidthShare ---------------------------
(***************************************************************************)
(* The result of Interface.updateConnectionBwShare as a function of what   *)
(* the connections want.  The call does not read the wish of a connection  *)
(* again after it has set its share, so it is one step for a connection.   *)
(* The module Interface has the loops of the call step by step, and shows  *)
(* that this is what they compute (ReturnsShares).                         *)
(***************************************************************************)
EXTENDS Integers, SequencesExt, FiniteSetsExt, Lists

Sum(f, S) == SumFunctionOnSet(f, S)

\* Where the while loop is: the connections in bwb wait for their share, the others that
\* want any get what they want, lowSum together.
Loops(conns) == [bwb : Seq(conns), lowSum : Int, share : Int]

\* The for loop skips the connection behind one that it moves to the satisfied ones.
Moved(bwb, share, desired) ==
  LET moved[i \in 0 .. Len(bwb)] == i > 0 /\ desired[bwb[i]] <= share /\ ~moved[i - 1]
  IN  {bwb[i] : i \in {j \in DOMAIN bwb : moved[j]}}
ForLoop(desired) ==
  [loop \in Loops(DOMAIN desired) |->
     LET moved == Moved(loop.bwb, loop.share, desired)
     IN  [loop EXCEPT !.bwb = Filter(@, ToSet(@) \ moved), !.lowSum = @ + Sum(desired, moved)]]

EqualPart(loop, bandwidth) == (bandwidth - loop.lowSum) \div Len(loop.bwb)

\* A turn of the while loop.
LoopTurn(desired, bandwidth) ==
  [loop \in Loops(DOMAIN desired) |->
     IF loop.bwb = <<>> \/ loop.share = EqualPart(loop, bandwidth) THEN loop
     ELSE ForLoop(desired)[[loop EXCEPT !.share = EqualPart(loop, bandwidth)]]]

Begin(connections, desired) ==
  [bwb |-> Filter(connections, {c \in DOMAIN desired : desired[c] > 0}), lowSum |-> 0, share |-> 0]

\* The share of every connection in the list; others get 0.  The while loop makes no more
\* turns than there are connections.
Shares(connections, desired, bandwidth) ==
  LET after[n \in 0 .. Len(connections)] ==
        IF n = 0 THEN Begin(connections, desired) ELSE LoopTurn(desired, bandwidth)[after[n - 1]]
      End == after[Len(connections)]
  IN  [c \in DOMAIN desired |-> IF c \notin ToSet(connections) THEN 0
                                ELSE IF c \in ToSet(End.bwb) THEN End.share ELSE desired[c]]

=============================================================================
