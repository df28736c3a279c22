---------------------------- MODULE MCBankCache ----------------------------
(* Instances of BankCache for TLC: two accounts with two cents each.       *)
EXTENDS BankCache, TLC

CONSTANTS a1, a2, nobody

MCAccounts == {a1, a2}
MCUnknown == {nobody}
MCInitBalance == [a \in MCAccounts |-> 2]

(* Amounts the two checks refuse, whole cents, and fractions of a cent.    *)
MCScale == 10
MCAmounts == {-10, 5, 10}
MCHalfCents == {5, 10}

(* Threads are interchangeable: no action and no safety property tells     *)
(* them apart.                                                             *)
Symmetry == Permutations(Workers)
=============================================================================
