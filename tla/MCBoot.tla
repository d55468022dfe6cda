------------------------------- MODULE MCBoot -------------------------------
(* 64 pages of four bytes: a directory of eight tables of eight pages.  The *)
(* pool of tables begins at page 6, two pages below the end of the area    *)
(* that stands for the first 4 MB.                                         *)
EXTENDS Boot

(* Low RAM only; RAM large enough for tables beyond 4 MB, an end inside a  *)
(* page, and RAM above 2^32; areas too short for a page, below and above   *)
(* 4 MB, and one that starts exactly there; two areas that share a table.  *)
MCMaps ==
  { <<0, 2, 1,  4, 24, 1,  0, 1>>,
    <<0, 2, 1,  4, 158, 1,  200, 56, 2,  256, 40, 1,  0, 1>>,
    <<5, 2, 1,  33, 2, 1,  32, 9, 1,  4, 28, 1,  0, 1>>,
    <<2, 73, 1,  78, 12, 1,  100, 5, 1,  0, 1>> }

MCGarbage == {{}, BitPages}

Mmap == [type |-> "mmap"]
Other == [type |-> "other"]
Framebuffer(addr, size) == [type |-> "framebuffer", addr |-> addr, size |-> size]

(* No information; no map; a framebuffer in a 4 MB of its own, across two  *)
(* of them, next to RAM and above 2^32.                                    *)
MCTagLists ==
  { <<>>,
    <<Framebuffer(224, 12)>>,
    <<Mmap>>,
    <<Other, Framebuffer(218, 10), Mmap>>,
    <<Mmap, Framebuffer(162, 7), Other>>,
    <<Framebuffer(224, 12), Framebuffer(480, 10), Mmap>> }

MCBlockSizes == <<1, 2>>

=============================================================================
