------------------------------- MODULE MCPMM -------------------------------
(* Small instances of PMM: ten pages of four bytes, the last of them beyond *)
(* total_pages and the one before it missed by the clearing loop.           *)
EXTENDS PMM

(* One available entry; two with a hole, so that the walk loses the grid;  *)
(* a reserved entry first; an area smaller than a page; one above 2^32.    *)
MCMaps ==
  { <<0, 40, 1,  0, 1>>,
    <<0, 8, 1,  12, 28, 1,  0, 1>>,
    <<20, 8, 2,  12, 28, 1,  0, 1>>,
    <<1, 1, 1,  0, 1>>,
    <<40, 8, 1,  0, 1>> }

MCGarbage == {{}, {8}, BitPages}

(* The plainest machine: low memory, a hole, high memory, and clean RAM.   *)
LowAndHighMemory == { <<0, 8, 1,  12, 16, 1,  0, 1>> }

CleanMemory == {{}}

NotCovered == {FALSE}

=============================================================================
