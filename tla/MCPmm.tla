-------------------------------- MODULE MCPmm -------------------------------
(* Pmm for TLC: two units to a page and 16 pages, the first two of them low  *)
(* memory, the next two the kernel's image (which ends inside a page).       *)
EXTENDS Pmm

Avail(a, l) == [addr |-> a, len |-> l, available |-> TRUE]
Taken(a, l) == [addr |-> a, len |-> l, available |-> FALSE]

\* A PC: low memory, a hole, the main region, ROM below 4G; a map with edges
\* inside pages, an empty and a bogus region and one past 4G; and one region
\* only that needs no trimming.
PC == <<Avail(0, 3), Taken(3, 1), Avail(4, 18), Taken(30, 2), Avail(32, 6)>>
Ragged == <<Avail(4, 7), Avail(12, 0), Avail(13, 1), Avail(15, 7), Avail(23, 7), Avail(31, 0), Taken(30, 2)>>
Plain == <<Avail(0, 24)>>

MCMemoryMaps == {PC, Ragged, Plain}

\* Memory up to 4G and past it: a region that starts below 4G, which is 32 in
\* these units, and ends behind it.
To4G == <<Avail(0, 12), Avail(22, 18)>>

MCMemoryMapsTo4G == {To4G}

\* What the theorems of PmmProofs suppose of the maps, which machines with
\* memory up to 4G do not have.
ASSUME MCTopReserved == MemoryMaps # MCMemoryMapsTo4G => TopReserved
=============================================================================
