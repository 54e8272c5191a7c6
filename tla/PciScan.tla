------------------------------ MODULE PciScan ------------------------------
(***************************************************************************)
(* The scan of the PCI buses (pci.cc): every function that answers is      *)
(* listed, and the size of each of its ranges of addresses is found out by *)
(* writing ones to the register that holds its base and reading back which *)
(* of them stay.                                                           *)
(*                                                                         *)
(* Configuration space maps places, pairs of a slot (of any bus) and a     *)
(* function, to devices: whether a device has several functions, and its   *)
(* base address registers.  Words are cut to 8 bits, the flags are the     *)
(* lowest 4 as in the code.                                                *)
(***************************************************************************)
EXTENDS Integers, Sequences

Words == 256
Functions == 0 .. 7

Low(x) == x % 16
High(x) == x - Low(x)

-----------------------------------------------------------------------------
(* The devices.  A register that is there decodes size addresses (a power  *)
(* of two) and keeps a base that is a multiple of it; the low bits say     *)
(* what kind of addresses, whatever is written.                            *)

NoBar == [base |-> 0, size |-> 0, kind |-> 0]

write_config(bar, x) == IF bar.size = 0 THEN bar ELSE [bar EXCEPT !.base = x - (x % bar.size)]

read_config(bar) == bar.base + bar.kind

-----------------------------------------------------------------------------
(* What init does to a register that is not zero, and what it prints.      *)

Sizing(bar) == write_config(bar, High(Words - 1) + Low(read_config(bar)))

\* Forgetting what the register held.
MutRestored(bar) == write_config(Sizing(bar), High(read_config(Sizing(bar))))

Restored(bar) == write_config(Sizing(bar), read_config(bar))

Probed(bar) == IF read_config(bar) = 0 THEN bar ELSE Restored(bar)

Report(bar) ==
  [at |-> High(read_config(bar)), io |-> read_config(bar) % 2 = 1,
   size |-> (Words - High(read_config(Sizing(bar)))) % Words]

\* Function 0 says whether there are more.
Listed(devices) ==
  {p \in DOMAIN devices :
     /\ <<p[1], 0>> \in DOMAIN devices
     /\ devices[<<p[1], 0>>].multi \/ p[2] = 0}

init(devices) ==
  [p \in DOMAIN devices |->
     IF p \in Listed(devices) THEN [devices[p] EXCEPT !.bars = [b \in DOMAIN @ |-> Probed(@[b])]]
     ELSE devices[p]]

Prints(devices) ==
  [p \in Listed(devices) |->
     {Report(devices[p].bars[b]) : b \in {i \in DOMAIN devices[p].bars : read_config(devices[p].bars[i]) # 0}}]

-----------------------------------------------------------------------------
\* The scan leaves every device where the BIOS has put it, whatever the ranges
\* and the functions, and reports each range's place and size, sizes below 16
\* as 16 (pci.cc:65-79).
ScanLaw(devices) ==
  /\ init(devices) = devices
  /\ \A p \in Listed(devices), b \in 1 .. 2 :
       LET bar == devices[p].bars[b]
           size == IF bar.size < 16 THEN 16 ELSE bar.size
       IN  bar.base + bar.kind # 0 =>
             [at |-> bar.base - (bar.base % 16), io |-> bar.kind = 1, size |-> size] \in Prints(devices)[p]
=============================================================================
