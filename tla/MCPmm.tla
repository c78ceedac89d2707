------------------------------- MODULE MCPmm --------------------------------
(* Bounds for TLC: six pages of RAM and maps that between them hold every  *)
(* shape pmm_init rounds: aligned, ragged at either end, smaller than a    *)
(* page, empty, adjacent, and interleaved with entries it must skip.       *)
EXTENDS Pmm

PageAt(n) == n * PAGE_SIZE

MCFrames == {PageAt(n) : n \in 1 .. 6}

E(b, l, t) == [base |-> b, length |-> l, type |-> t]

MCMemmaps ==
  { << E(0, 4096, "RESERVED"), E(PageAt(1), 3 * 4096, "USABLE"),
       E(PageAt(4), 4096, "BOOTLOADER_RECLAIMABLE") >>,
    << E(PageAt(1), 5000, "USABLE"), E(PageAt(2) + 904, 3 * 4096, "USABLE"),
       E(PageAt(6) - 100, 50, "USABLE") >>,
    << E(PageAt(1) + 1, 4095 + 8192, "USABLE"), E(PageAt(4), 4096, "ACPI_NVS"),
       E(PageAt(5), 4096, "USABLE") >>,
    << E(PageAt(3), 0, "USABLE"), E(PageAt(3), 4096, "FRAMEBUFFER") >>,
    << E(PageAt(1), 4095, "USABLE"), E(PageAt(2) - 1, 4097, "RESERVED"),
       E(PageAt(3), 8192, "USABLE"), E(PageAt(5), 4097, "USABLE") >> }

MCJunk == { [base |-> 0, next |-> NULL],
            [base |-> PageAt(2), next |-> PageAt(3)] }
=============================================================================
