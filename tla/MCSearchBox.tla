----------------------------- MODULE MCSearchBox -----------------------------
(***************************************************************************)
(* Instances of SearchBox for TLC, with the sections of the real index: a  *)
(* text that five of them have pages for, the same with a space in it and  *)
(* without, and spaces only.                                               *)
(***************************************************************************)
EXTENDS SearchBox, SearchIndex

MCTexts == {"", "Search", " ", "page", "page n", "pagen"}

WithoutSpaces == [t \in MCTexts |-> CASE t = " " -> ""
                                      [] t = "page n" -> "pagen"
                                      [] OTHER -> t]
WithoutLeading == [t \in MCTexts |-> IF t = " " THEN "" ELSE t]

\* The first character, in lower case.
First(t) == IF t = "Search" THEN "s" ELSE SubSeq(t, 1, 1)

MCHasContent == {<<section, t>> \in (0..6) \X (MCTexts \ {"", " "}) :
                    First(t) \in IndexSectionsWithContent[section]}
=============================================================================
