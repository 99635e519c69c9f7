---------------------------- MODULE MCBootLoader ----------------------------
(***************************************************************************)
(* Model checking of BootLoader: images of one, three and four blocks in   *)
(* an area of two sectors of two blocks.                                   *)
(***************************************************************************)
EXTENDS BootLoader

MCSector == [b \in 1 .. Blocks |-> IF b <= 2 THEN 1 ELSE 2]
MCSize == [v \in Versions |-> IF v = 1 THEN 1 ELSE v + 1]
=============================================================================
