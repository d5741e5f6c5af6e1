--------------------------------- MODULE Relay ---------------------------------
(***************************************************************************)
(* What a relay without acknowledgements promises: the messages of one     *)
(* source arrive in the order they were said, none of them twice and none  *)
(* that was not said; any of them may be missing.                          *)
(***************************************************************************)
EXTENDS Naturals, Sequences

CONSTANT Source

VARIABLES said,     \* how many messages each source has said
          arrived   \* what arrived, in order: the source and the number

Init == said = [c \in Source |-> 0] /\ arrived = << >>

Say(c) == said' = [said EXCEPT ![c] = @ + 1] /\ UNCHANGED arrived

Arrive(c, n) ==
  /\ n \in 1..said[c]
  /\ \A i \in DOMAIN arrived : arrived[i][1] = c => arrived[i][2] < n
  /\ arrived' = Append(arrived, <<c, n>>)
  /\ UNCHANGED said

Next == \E c \in Source : Say(c) \/ \E n \in 1..said[c] : Arrive(c, n)

Spec == Init /\ [][Next]_<<said, arrived>>
=============================================================================
