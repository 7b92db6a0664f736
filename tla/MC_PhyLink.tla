----------------------------- MODULE MC_PhyLink -----------------------------
(***************************************************************************)
(* A gigabit PHY, two partners that share different modes with it, or      *)
(* none; an application that turns the gigabit modes off and on.           *)
(***************************************************************************)
EXTENDS PhyLink

MCSupported == Mode \ {<<10, "full">>}
MCPartners == {{}, {<<1000, "full">>, <<10, "full">>, <<10, "half">>},
               {<<1000, "half">>, <<100, "full">>}}
MCMasks == {{}, {<<1000, "full">>, <<1000, "half">>}}
=============================================================================
