--------------------------- MODULE MCSearchResults ---------------------------
(***************************************************************************)
(* An instance of SearchResults for TLC: searches of real pages.           *)
(***************************************************************************)
EXTENDS SearchResults

MCSearches == {<<all_66, "file ">>, <<all_66, "first_">>, <<all_70, "Page">>,
               <<all_70, "page_n">>, <<all_7e, "~b">>, <<all_65, "e">>, <<all_76, "vx">>}

\* All pages of the section: the names with the same beginning follow one
\* another, and of the rows with the same name one at most has children.  Names
\* and texts have lengths.
ASSUME IndexAssumption ==
    \A data \in {all_61, all_62, all_63, all_64, all_65, all_66, all_67, all_68,
                 all_69, all_6c, all_6d, all_6e, all_6f, all_70, all_72, all_73,
                 all_75, all_76, all_77, all_7e} :
        /\ NamesAdjoin(data)
        /\ \A i, j \in DOMAIN data :
              data[i][1] = data[j][1] /\ data[i][2] > 1 /\ data[j][2] > 1 => i = j
ASSUME LengthsAssumption == TextsHaveLength
=============================================================================
