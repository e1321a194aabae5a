--------------------------- MODULE MCNestedLoopJoin ---------------------------
(***************************************************************************)
(* An instance of NestedLoopJoin for TLC: tuples of two tables with an     *)
(* attribute in common, tables of no to three and of five pages, pages     *)
(* with free slots or none, and the result tuples of the pairs that agree, *)
(* one of them longer than a page.                                         *)
(***************************************************************************)
EXTENDS NestedLoopJoin

CONSTANTS fl, fr, ft, hl, hr, ht,   \* files and File objects
          l1, l2, r1, r2, r3, r4,   \* l1 joins r1 and r3, l2 joins r2 and r4
          j11, j13, j22, j24,
          none

ThreeFiles == hl :> fl @@ hr :> fr @@ ht :> ft
EmptyPage == [s \in Slots |-> NoTuple]

Agree(l, r) == CASE l = l1 /\ r = r1 -> j11
                 [] l = l1 /\ r = r3 -> j13
                 [] l = l2 /\ r = r2 -> j22
                 [] l = l2 /\ r = r4 -> j24
                 [] OTHER -> NoTuple
MCJoined == [l \in Tuples |-> [r \in Tuples |-> Agree(l, r)]]

Lefts == {<<>>, <<<<l1, l2>>>>, <<<<l1, NoTuple>>, <<l2, l1>>>>,
          <<<<l1, NoTuple>>, <<NoTuple, l2>>, <<l2, NoTuple>>>>,
          <<<<l1, NoTuple>>, <<NoTuple, NoTuple>>, <<l2, NoTuple>>,
            <<NoTuple, l1>>, <<NoTuple, l2>>>>}
Rights == {<<>>, <<<<r1, r2>>>>, <<<<NoTuple, r3>>, <<r2, r1>>>>,
           <<<<r2, NoTuple>>, <<r1, r3>>, <<NoTuple, NoTuple>>>>,
           <<<<r1, NoTuple>>, <<NoTuple, r4>>>>,
           <<<<r3, NoTuple>>, <<NoTuple, r2>>, <<NoTuple, NoTuple>>,
             <<NoTuple, NoTuple>>, <<r1, NoTuple>>>>}

\* A page has room for a tuple in each slot, and none for j24.
AllButOne == {d \in Contents : \E s \in Slots : d[s] = NoTuple} \X (Tuples \ {j24})

\* Filled is what allocatePage makes, page by page.
ASSUME FilledByAllocation ==
    \A pages \in Lefts \cup Rights :
        Filled(pages) =
            FoldLeft(LAMBDA f, d : [Allocated(f) EXCEPT !.page[NewPageNumber(f)].data = d],
                     NewFile, pages)

MCBlockPins == <<"s1", "s2", "s3", "s4", "s5">>
=============================================================================
