----------------------------- MODULE MCBankBook -----------------------------
(* One account and two requests at a time: any pair of operations can      *)
(* interleave on its row.  A mandate of one unit starts on the last day of *)
(* a long month, a day that the short one after it does not have, and      *)
(* expires after its second cycle, which falls on the first of the third   *)
(* month.                                                                  *)
EXTENDS BankBook, TLC

MCOpening == [a \in Accounts |-> 300]
MCMonthLengths == <<3, 2>>
MCFirstDay == [month |-> 1, day |-> 1]
MCLastDay == [month |-> 2, day |-> 0]
MCTerms == {[amount |-> 100, cycle |-> 1, start |-> [month |-> 0, day |-> 2],
             end |-> [month |-> 2, day |-> 1]]}
MCAmounts == {100, 200}
Symmetry == Permutations(Requests) \cup Permutations(Mandates)
=============================================================================
