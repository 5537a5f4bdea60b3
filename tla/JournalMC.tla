----------------------------- MODULE JournalMC -----------------------------
(* Small instances of Journal for TLC. *)
EXTENDS Journal, TLC

CONSTANTS orig, cand, empty, other, none, nojournal

\* An amendment orig -> cand, an initialisation of an absent document, a record
\* without digests and a request the port refuses.
Amend == [authority |-> orig, original |-> orig, candidate |-> cand,
          replace |-> TRUE, admissible |-> TRUE]
Initialize == [authority |-> empty, original |-> empty, candidate |-> cand,
               replace |-> FALSE, admissible |-> TRUE]
Undigested == [authority |-> none, original |-> none, candidate |-> cand,
               replace |-> FALSE, admissible |-> TRUE]
Refused == [Amend EXCEPT !.admissible = FALSE]
Orphan == [authority |-> cand, original |-> cand, candidate |-> cand,
           replace |-> TRUE, admissible |-> TRUE]

AllIntents == {Amend, Initialize, Undigested, Refused, Orphan}
OneIntent == {Amend}

WorkerSymmetry == Permutations(Workers)
=============================================================================
