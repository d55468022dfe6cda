----------------------------- MODULE MCKmalloc -----------------------------
(* Seven pages of twelve bytes, the first four the kernel's; caches of    *)
(* three blocks and of one block to a page.                                *)
EXTENDS Kmalloc

MCMaps == { <<0, 96, 1,  0, 1>> }

MCBlockSizes == <<3, 6>>

=============================================================================
