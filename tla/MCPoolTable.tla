----------------------------- MODULE MCPoolTable ------------------------------
(***************************************************************************)
(* An instance of PoolTable for TLC: two File objects on one file, whose   *)
(* addresses make three of the four pages fall into one chain, one of them *)
(* by wrapping around.                                                     *)
(***************************************************************************)
EXTENDS PoolTable

CONSTANTS f1, h1, h2

SharedFile == h1 :> f1 @@ h2 :> f1

Addresses == h1 :> 14 @@ h2 :> 11
=============================================================================
