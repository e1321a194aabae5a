---------------------------- MODULE MCSlottedPage ----------------------------
(***************************************************************************)
(* Instances of SlottedPage for TLC.                                       *)
(***************************************************************************)
EXTENDS SlottedPage

\* Two short records and one longer than a slot.
SomeRecords == {<<1>>, <<2, 1>>, <<1, 2, 1, 2, 1>>}

=============================================================================
