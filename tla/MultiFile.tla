------------------------------ MODULE MultiFile ------------------------------
(***************************************************************************)
(* The numbered files of a log, src/nortlib2/src/mlf.c: directories of     *)
(* NFiles entries, NLevels deep, and the files in the deepest.  A position *)
(* m has a number for each level (-1: none yet), the index that counts     *)
(* files from 1, and MLF_INC_FIRST: the next file is not the one named.    *)
(***************************************************************************)
EXTENDS Integers, Sequences

CONSTANTS NLevels, NFiles

ASSUME MultiFileAssumption == NLevels \in Nat \ {0} /\ NFiles \in Nat \ {0, 1}

Deepest == NLevels - 1
Levels  == 0..Deepest

\* mlf_set_ixs
Value(ixs, n) == LET v[i \in 0..n] == IF i = 0 THEN 0 ELSE v[i - 1] * NFiles + ixs[i - 1] IN v[n]

mlf_set_ixs(ixs, writing) ==
  LET named == {i \in Levels : \A j \in 0..i : ixs[j] >= 0}
      n     == IF named = {} THEN 0 ELSE 1 + CHOOSE i \in named : \A j \in named : j <= i
  IN IF n < NLevels
     THEN [ix |-> [i \in Levels |-> IF i < n THEN ixs[i] ELSE -1],
           index |-> Value(ixs, n) * NFiles^(NLevels - n), inc |-> TRUE]
     ELSE [ix |-> ixs, index |-> Value(ixs, n) + 1, inc |-> writing]

\* mlf_set_index
mlf_set_index(index) ==
  LET ix == IF index > 0 THEN index - 1 ELSE 0
  IN [mlf_set_ixs([i \in Levels |->
        IF i = 0 THEN ix \div NFiles^Deepest
        ELSE (ix \div NFiles^(Deepest - i)) % NFiles], FALSE) EXCEPT !.inc = FALSE]

\* next_file; a level that is full carries into the one above
Carries(m, level) ==
  level > 0 /\ \/ m.ix[level] = 0 /\ m.ix[level - 1] < 0
               \/ m.ix[level] >= NFiles

RECURSIVE next_file(_, _)
next_file(m, level) ==
  LET up == [m EXCEPT !.ix[level] = @ + 1, !.index = IF level = Deepest THEN @ + 1 ELSE @]
  IN IF ~m.inc THEN [m EXCEPT !.inc = TRUE]
     ELSE IF Carries(up, level) THEN next_file([up EXCEPT !.ix[level] = 0], level - 1)
     ELSE up

Next_file(m) == next_file(m, Deepest)
==============================================================================
