------------------------------- MODULE MCMachine -------------------------------
(***************************************************************************)
(* A small machine for TLC: tables of 16 entries and 128 pages below the   *)
(* transparent addresses; 16 MB of real RAM become 12 or 20 pages.         *)
(***************************************************************************)
EXTENDS Machine

CONSTANTS small, large, tiny

MCShapes == {[text |-> 1, image |-> 2, ram |-> 12], [text |-> 2, image |-> 3, ram |-> 13]}

(* Two blocks to a page: one device for all, one for some pages, one none.  *)
MCDevices == large :> 40 @@ small :> 9 @@ tiny :> 2

(* Four registers of two bytes that no swap leaves alone.                   *)
MCBus == 3 :> <<1, 2>> @@ 4 :> <<3, 4>> @@ 5 :> <<5, 6>> @@ 6 :> <<7, 8>>
=============================================================================
