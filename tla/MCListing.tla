----------------------------- MODULE MCListing -----------------------------
(***************************************************************************)
(* Snapshots for the lists: with three names, every mixture of unknown,    *)
(* equal and different values that decides an order, and the empty one.    *)
(***************************************************************************)
EXTENDS Listing

B(name, used, percent, rate, atQuota, hot) ==
  [name |-> name, used |-> used, objects |-> 2 - used, percent |-> percent, rate |-> rate,
   atQuota |-> atQuota, hot |-> hot]

MCSnapshots ==
  { {},
    {B(1, 0, Nil, Nil, FALSE, FALSE), B(2, 1, 0, 0, FALSE, FALSE), B(3, 2, 100, -2, TRUE, TRUE)},
    {B(1, 1, 50, 1, FALSE, TRUE), B(2, 1, 50, -1, FALSE, TRUE), B(3, 1, Nil, Nil, FALSE, FALSE)},
    {B(1, 2, 100, 0, TRUE, FALSE), B(2, 2, 200, Nil, TRUE, FALSE), B(3, 0, Nil, 2, FALSE, TRUE)} }


MCLimitArgs == {Nil, 0, 1, 2, 3}
=============================================================================
