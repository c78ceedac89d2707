------------------------------- MODULE Memmap -------------------------------
(***************************************************************************)
(* The physical memory map the boot stub hands to the kernel (bootstub.h)  *)
(* and the page arithmetic every memory component shares (pmm.h).          *)
(*                                                                         *)
(* Physical addresses are at most 52 bits wide on x86-64, so the 64-bit    *)
(* sums base + length and address + PAGE_SIZE - 1 never wrap: they are     *)
(* plain natural numbers here.                                             *)
(***************************************************************************)
EXTENDS Integers, Sequences

PAGE_SIZE == 4096

(* The macros of pmm.h at alignment PAGE_SIZE, a power of two: masking off *)
(* the low bits is rounding to a multiple.                                 *)
ALIGN_UP(address)   == ((address + (PAGE_SIZE - 1)) \div PAGE_SIZE) * PAGE_SIZE
ALIGN_DOWN(address) == (address \div PAGE_SIZE) * PAGE_SIZE

MemmapType ==
  { "RESERVED", "ACPI_RECLAIMABLE", "EXECUTABLE_AND_MODULES", "ACPI_NVS",
    "BAD_MEMORY", "BOOTLOADER_RECLAIMABLE", "FRAMEBUFFER", "USABLE", "UNKNOWN" }

MemmapEntry == [base : Nat, length : Nat, type : MemmapType]

-----------------------------------------------------------------------------
(* What the properties say of a map, independently of how the kernel walks *)
(* it.  Entry e covers the addresses from e.base up to its limit.          *)
Limit(e) == e.base + e.length

(* The page at p lies wholly inside entry e.                               *)
WholePageOf(e, p) ==
  /\ p % PAGE_SIZE = 0
  /\ e.base <= p
  /\ p + PAGE_SIZE <= Limit(e)

Overlap(e, f) == e.base < Limit(f) /\ f.base < Limit(e)

(* The part of the boot protocol the kernel takes on trust (external to    *)
(* src/): no usable entry overlaps another usable one or reaches into page *)
(* 0, whose address palloc uses for "out of memory".                       *)
WellFormedMap(memmap) ==
  /\ memmap \in Seq(MemmapEntry)
  /\ \A i, j \in 1 .. Len(memmap) :
       /\ i # j
       /\ memmap[i].type = "USABLE"
       /\ memmap[j].type = "USABLE"
       => ~ Overlap(memmap[i], memmap[j])
  /\ \A i \in 1 .. Len(memmap) :
       memmap[i].type = "USABLE" => memmap[i].base >= PAGE_SIZE
=============================================================================
