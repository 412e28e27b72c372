------------------------------- MODULE MCStorage -------------------------------
(***************************************************************************)
(* A small instance of Storage: the test pattern and two inputs, two       *)
(* profiles.  Table 1 is what any saved table reads back as.               *)
(***************************************************************************)
EXTENDS Storage

ReadBack == [t \in {0, 1, Erased} |-> 1]
EmptyCard == [e \in Entry |-> <<>>]
FullCard == [e \in Entry |-> IF e = MAX_USERDATA_ENTRY
                             THEN <<UDE_INITCFG, Length, 1, 0, 1, 1, 2, 3, 0>>
                             ELSE IF e = 1 THEN <<UDE_PROFILE, Length, 1, 2, 1>> ELSE <<>>]
SomeCards == {EmptyCard, FullCard}
================================================================================
