---------------------------- MODULE SearchIndex ----------------------------
(***************************************************************************)
(* The index of the generated documentation, as its data files hold it:    *)
(* which sections have a results page for which first character, and the   *)
(* pages of the section "all".  A page is a sequence of symbols, each with *)
(* the name that it is found by and the number of its links; a symbol with *)
(* several links shows them as children.                                   *)
(***************************************************************************)
EXTENDS Naturals, Sequences

\* indexSectionsWithContent, by number of the section.
IndexSectionsWithContent ==
    [section \in 0..6 |->
        CASE section = 0 -> {"a", "b", "c", "d", "e", "f", "g", "h", "i", "l", "m",
                             "n", "o", "p", "r", "s", "u", "v", "w", "~"}
          [] section = 1 -> {"b", "f", "h", "i", "p", "r", "s"}
          [] section = 2 -> {"b"}
          [] section = 3 -> {"a", "b", "c", "d", "e", "f", "g", "h", "i", "l", "m",
                             "n", "o", "p", "r", "s", "u", "w", "~"}
          [] section = 4 -> {"a", "b", "c", "d", "f", "i", "m", "n", "p", "r", "s",
                             "u", "v"}
          [] section = 5 -> {"f", "p", "s"}
          [] section = 6 -> {"o"}]

-----------------------------------------------------------------------------
(* searchData of the pages all_61.js to all_7e.js *)

all_61 ==
    << <<"accesses", 1>>, <<"allocatepage", 1>>, <<"allocpage", 1>> >>

all_62 ==
    << <<"badbufferexception", 1>>, <<"badbufferexception", 1>>,
       <<"badgerdb", 1>>, <<"badgerdbexception", 1>>,
       <<"badgerdbexception", 1>>, <<"begin", 2>>, <<"bufdesc", 1>>,
       <<"bufferexceededexception", 1>>, <<"bufferexceededexception", 1>>,
       <<"bufhashtbl", 1>>, <<"bufhashtbl", 1>>, <<"bufmgr", 1>>,
       <<"bufmgr", 1>>, <<"bufpool", 1>>, <<"bufstats", 1>>,
       <<"bufstats", 1>> >>

all_63 ==
    << <<"clear", 1>>, <<"clearbufstats", 1>>, <<"create", 1>>,
       <<"current_5fpage_5fnumber", 1>> >>

all_64 ==
    << <<"data_5fsize", 1>>, <<"deletepage", 1>>, <<"deleterecord", 1>>,
       <<"dirty", 1>>, <<"diskreads", 1>>, <<"diskwrites", 1>>,
       <<"disposepage", 1>> >>

all_65 ==
    << <<"end", 2>>, <<"exists", 1>> >>

all_66 ==
    << <<"file", 1>>, <<"file", 2>>, <<"fileexistsexception", 1>>,
       <<"fileexistsexception", 1>>, <<"fileheader", 1>>,
       <<"fileiterator", 1>>, <<"fileiterator", 3>>, <<"filename", 5>>,
       <<"filename_5f", 4>>, <<"filenotfoundexception", 1>>,
       <<"filenotfoundexception", 1>>, <<"fileopenexception", 1>>,
       <<"fileopenexception", 1>>, <<"first_5ffree_5fpage", 1>>,
       <<"first_5fused_5fpage", 1>>, <<"flushfile", 1>>, <<"frameid", 1>>,
       <<"frameno", 5>>, <<"free_5fspace_5flower_5fbound", 1>>,
       <<"free_5fspace_5fupper_5fbound", 1>> >>

all_67 ==
    << <<"getbufstats", 1>>, <<"getfreespace", 1>>,
       <<"getnextusedslot", 1>>, <<"getrecord", 1>> >>

all_68 ==
    << <<"hashalreadypresentexception", 1>>,
       <<"hashalreadypresentexception", 1>>, <<"hashbucket", 1>>,
       <<"hashnotfoundexception", 1>>, <<"hashnotfoundexception", 1>>,
       <<"hashtableexception", 1>>, <<"hashtableexception", 1>>,
       <<"hasspaceforrecord", 1>> >>

all_69 ==
    << <<"insert", 1>>, <<"insertrecord", 1>>,
       <<"insufficientspaceexception", 1>>,
       <<"insufficientspaceexception", 1>>, <<"invalid_5fnumber", 1>>,
       <<"invalid_5fslot", 1>>, <<"invalidpageexception", 1>>,
       <<"invalidpageexception", 1>>, <<"invalidrecordexception", 1>>,
       <<"invalidrecordexception", 1>>, <<"invalidslotexception", 1>>,
       <<"invalidslotexception", 1>>, <<"isopen", 1>>,
       <<"item_5flength", 1>>, <<"item_5foffset", 1>> >>

all_6c ==
    << <<"lookup", 1>> >>

all_6d ==
    << <<"message", 1>>, <<"message_5f", 1>> >>

all_6e ==
    << <<"name", 4>>, <<"next", 1>>, <<"next_5fpage_5fnumber", 2>>,
       <<"num_5ffree_5fpages", 1>>, <<"num_5ffree_5fslots", 1>>,
       <<"num_5fpages", 1>>, <<"num_5fslots", 1>> >>

all_6f ==
    << <<"open", 1>>, <<"operator_21_3d", 1>>, <<"operator_2a", 2>>,
       <<"operator_2b_2b", 2>>, <<"operator_3c_3c", 1>>,
       <<"operator_3d", 1>>, <<"operator_3d_3d", 5>> >>

all_70 ==
    << <<"page", 1>>, <<"page", 1>>, <<"page_5fnumber", 7>>,
       <<"page_5fnumber_5f", 5>>, <<"pageheader", 1>>, <<"pageid", 1>>,
       <<"pageiterator", 3>>, <<"pageiterator", 1>>, <<"pageno", 5>>,
       <<"pagenotpinnedexception", 1>>, <<"pagenotpinnedexception", 1>>,
       <<"pagepinnedexception", 1>>, <<"pagepinnedexception", 1>>,
       <<"pageslot", 1>>, <<"printself", 1>> >>

all_72 ==
    << <<"readpage", 2>>, <<"record_5fid", 1>>, <<"record_5fid_5f", 1>>,
       <<"recordid", 1>>, <<"refbit", 1>>, <<"remove", 2>> >>

all_73 ==
    << <<"size", 1>>, <<"slot_5fnumber", 3>>, <<"slot_5fnumber_5f", 2>>,
       <<"slotid", 1>>, <<"slotinuseexception", 1>>,
       <<"slotinuseexception", 1>>, <<"space_5favailable", 1>>,
       <<"space_5favailable_5f", 1>>, <<"space_5frequested", 1>>,
       <<"space_5frequested_5f", 1>> >>

all_75 ==
    << <<"unpinpage", 1>>, <<"updaterecord", 1>>, <<"used", 1>> >>

all_76 ==
    << <<"valid", 1>> >>

all_77 ==
    << <<"what", 1>>, <<"writepage", 1>> >>

all_7e ==
    << <<"_7ebadgerdbexception", 1>>, <<"_7ebufhashtbl", 1>>,
       <<"_7ebufmgr", 1>>, <<"_7efile", 1>>,
       <<"_7einvalidpageexception", 1>> >>

=============================================================================
