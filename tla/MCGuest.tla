------------------------------- MODULE MCGuest -------------------------------
(* A small instance of GuestService: two texts of two generations, spoken   *)
(* in two models of one language, or in one voice.                          *)
EXTENDS GuestService, TLC

CONSTANTS t1, t2, english, female, male

MCGenOf == (t1 :> 1) @@ (t2 :> 2)
MCLanguageOf == (t1 :> english) @@ (t2 :> english)
MCModelOf == (t1 :> female) @@ (t2 :> male)
MCOneModel == (t1 :> female) @@ (t2 :> female)
==============================================================================
