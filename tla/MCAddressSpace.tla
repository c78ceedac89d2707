--------------------------- MODULE MCAddressSpace ---------------------------
(* Three entries per table, nine pages of memory of which four are free:   *)
(* enough for one mapping with all its tables and a neighbour in the same, *)
(* the next or a far table, after which memory runs out.  Page 10 belongs  *)
(* to a device, outside memory and outside the direct map.                 *)
EXTENDS AddressSpace

PageAt(n) == n * PAGE_SIZE

MCFrames == {PageAt(n) : n \in 0 .. 8}
MCFreeFrames == <<PageAt(7), PageAt(4), PageAt(6), PageAt(3)>>
MCHhdm == Span(4)

R(p, v, f) == [physical_addr |-> p, virtual_addr |-> v, flags |-> f]

KernelFlags == PAGE_PRESENT + PAGE_READ_WRITE
FramebufferFlags ==
  PAGE_PRESENT + PAGE_READ_WRITE + PAGE_ATTRIBUTE_TABLE + PAGE_WRITE_THROUGH

MCRequests ==
  { R(PageAt(8), 0, KernelFlags),
    R(PageAt(8) + 100, PageAt(1) + 100, FramebufferFlags),
    R(PageAt(2), 0, PAGE_PRESENT),
    R(PageAt(8), PageAt(4), KernelFlags),
    R(PageAt(10), 2 * Span(4) + PageAt(2), FramebufferFlags),
    R(PageAt(8), 2 * Span(4) + 2 * Span(3), KernelFlags) }

MCGarbage == {PageAt(5) + 7}
=============================================================================
