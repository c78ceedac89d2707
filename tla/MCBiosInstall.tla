--------------------------- MODULE MCBiosInstall ---------------------------
(* Devices of every kind bios_install tells apart, with the image of the   *)
(* repository (19,150 bytes) and, where several transfers may fail, with   *)
(* one of five sectors.                                                    *)
EXTENDS BiosInstall

RealImage  == 19150
SmallImage == 512 + 2300
Old(c) == << "old", c >>
Cells(S_, v(_)) == [c \in S_ |-> v(c)]

(* Sector 0 with up to four partitions [active, type, start, count].       *)
Part(a, t, b, n) == [active |-> a, type |-> t, start |-> b, count |-> n]
None == Part(0, 0, 0, 0)
Sector0(parts) ==
  Cells({0, 3, 4, 54, 82, 218, 420, 422, 424, 432, 440, 510}, Old)
    @@ [c \in UNION {{b, b + 4, b + 8, b + 12} : b \in Slots} |->
          LET p == parts[((c - 446) \div 16) + 1] IN
          Num(CASE (c - 446) % 16 = 0 -> p.active [] (c - 446) % 16 = 4 -> p.type
                [] (c - 446) % 16 = 8 -> p.start  [] OTHER -> p.count)]
    @@ Cells(UNION {{b + 1, b + 5} : b \in Slots}, Old)

Blocks(first, last) == Cells({512 * b : b \in first .. last}, Old)

(* An MBR disk: the gap behind the MBR, then the partitions' first blocks. *)
Mbr(parts) ==
  Sector0(parts) @@ Blocks(1, 38) @@ Cells({1080}, Old)
    @@ Cells({512 * parts[i].start : i \in {j \in 1 .. 4 : parts[j].type # 0}}, Old)

(* A GPT disk: arrays at 2 and other - 32, headers at 1 and other.         *)
GptDisk(entries, other, cells) ==
  LET content == [i \in 1 .. 128 |-> IF i <= Len(entries) THEN entries[i] ELSE Zero]
      Array_(lba) == [c \in {(512 * lba) + (128 * i) : i \in 0 .. 55} |->
                        content[((c - (512 * lba)) \div 128) + 1]]
      Rest(lba) == Cells({512 * b : b \in lba + 14 .. lba + 31}, LAMBDA c : Zero)
  IN [c \in {512} |-> GptHeader(other, 2, 128, content)]
       @@ [c \in {512 * other} |-> GptHeader(1, other - 32, 128, content)]
       @@ Sector0(<< Part(0, 238, 1, other), None, None, None >>)
       @@ Array_(2) @@ Array_(other - 32) @@ Rest(2) @@ Rest(other - 32)
       @@ cells @@ Blocks(34, 35)

Many(n) == [i \in 1 .. n |-> GptEntry("Linux", 34 + (i % 50), 34 + (i % 50))]
Iso(entries, other) ==
  GptDisk(entries, other, Cells({32769}, LAMBDA c : Word("CD001")) @@ Blocks(60, 66) @@ Blocks(1000, 1000))

(* Blocks of 4096 bytes: arrays of four blocks at 2 and other - 4, so that *)
(* a partition may begin at 6 and end at other - 5.                        *)
LargeBlocks(blocks) == Cells({4096 * b : b \in blocks}, Old)
Gpt4k(entries, other, cells) ==
  LET content == [i \in 1 .. 128 |-> IF i <= Len(entries) THEN entries[i] ELSE Zero]
      Array_(lba) == [c \in {(4096 * lba) + (128 * i) : i \in 0 .. 127} |->
                        content[((c - (4096 * lba)) \div 128) + 1]]
  IN [c \in {4096} |-> GptHeader(other, 2, 128, content)]
       @@ [c \in {4096 * other} |-> GptHeader(1, other - 4, 128, content)]
       @@ Sector0(<< Part(0, 238, 1, other), None, None, None >>)
       @@ Array_(2) @@ Array_(other - 4) @@ cells @@ Cells({24704, 24832}, Old)
       @@ LargeBlocks((6 .. 40) \cup (other - 33 .. other - 5)) @@ Blocks(1, 38)

Iso4k(entries, other) ==
  Gpt4k(entries, other, Cells({32769}, LAMBDA c : Word("CD001")) @@ LargeBlocks({64, 200, other - 40}))

Case(d, image, force, convert, part, f) ==
  LET h == IF IsGpt(Value(d, 512)) THEN 512 ELSE 4096 IN
  [disk |-> d, size |-> IF IsGpt(Value(d, h)) THEN h * (alternate_lba(Value(d, h)) + 1) ELSE 512 * 160,
   image |-> image, force_mbr |-> force, convert |-> convert, part_ndx |-> part, faults |-> f]

TwoParts  == << Part(0, 12, 63, 40), Part(128, 131, 103, 10), None, None >>
Inactive  == << Part(0, 12, 63, 40), None, None, None >>
TooLow    == << Part(0, 12, 63, 40), None, Part(1, 131, 40, 20), None >>
BadFlag   == << Part(7, 12, 63, 40), None, None, None >>
Fs(at, name) == [Mbr(TwoParts) EXCEPT ![at] = Word(name)]
EfiParts  == << GptEntry("EFI system", 64, 70), Zero, GptEntry("Microsoft", 71, 1000) >>

(* A hybrid image on blocks of 4096 bytes whose partition ends where it    *)
(* may; a partition too small for stage 2, with another behind it.         *)
HybridOnLarge == Case(Iso4k(<< GptEntry("EFI system", 64, 395) >>, 400), SmallImage, FALSE, TRUE, 0, 0)
SmallTarget   == Case(GptDisk(<< GptEntry("Linux", 34, 39), GptEntry("Linux", 40, 80) >>, 120, Blocks(36, 80)),
                      RealImage, FALSE, TRUE, 1, 0)

MCScenarios ==
  {  Case(Mbr(TwoParts), RealImage, FALSE, TRUE, 0, 2),
     Case(Mbr(Inactive), SmallImage, FALSE, TRUE, 0, 5),
     Case(Mbr(TooLow), SmallImage, TRUE, TRUE, 0, 2),
     Case(Mbr(BadFlag), SmallImage, FALSE, TRUE, 0, 2),
     Case(Mbr(BadFlag), SmallImage, TRUE, TRUE, 0, 2),
     Case(Fs(3, "NTFS"), SmallImage, FALSE, TRUE, 0, 1),
     Case(Fs(3, "FAT32"), SmallImage, TRUE, TRUE, 0, 3),
     Case(Fs(1080, "ext"), SmallImage, TRUE, TRUE, 0, 2),
     Case(GptDisk(Many(49), 120, Empty), RealImage, FALSE, TRUE, 0, 1),
     Case(GptDisk(Many(52), 120, Empty), RealImage, FALSE, FALSE, 0, 1),
     Case(GptDisk(Many(53), 120, Empty), RealImage, FALSE, TRUE, 0, 1),
     Case(GptDisk(<< GptEntry("Linux", 34, 39), GptEntry("Linux", 40, 80) >>, 120, Blocks(36, 80)),
          RealImage, FALSE, TRUE, 2, 1),
     Case(GptDisk(Many(3), 120, Empty), RealImage, FALSE, TRUE, 7, 1),
     Case(GptDisk(Many(3), 120, Empty), RealImage, FALSE, TRUE, 200, 1),
     Case([GptDisk(Many(3), 120, Empty) EXCEPT ![512 * 120] = Old(0)], RealImage, FALSE, TRUE, 0, 1),
     Case(GptDisk(Many(3), 120, Empty), RealImage, TRUE, TRUE, 0, 1),
     Case(Iso(EfiParts, 1040), SmallImage, FALSE, TRUE, 0, 2),
     Case(Iso(<< GptEntry("EFI system", 60, 70) >>, 130), RealImage, FALSE, TRUE, 0, 1),
     Case(Iso(<< GptEntry("Linux", 64, 70) >>, 130), RealImage, FALSE, TRUE, 0, 0),
     Case(Iso(<< GptEntry("HFS", 64, 1001) >>, 1040), RealImage, FALSE, TRUE, 0, 0),
     SmallTarget, HybridOnLarge,
     Case(Gpt4k(<< GptEntry("Linux", 6, 300) >>, 400, Empty), RealImage, FALSE, TRUE, 0, 0),
     Case(Gpt4k(<< GptEntry("Linux", 6, 40), GptEntry("Linux", 41, 80) >>, 400, LargeBlocks(41 .. 46)),
          RealImage, FALSE, TRUE, 2, 1),
     Case(Iso4k(<< GptEntry("EFI system", 64, 200) >>, 400), SmallImage, FALSE, TRUE, 0, 1),
     Case(Iso4k(<< GptEntry("EFI system", 6, 90) >>, 400), SmallImage, FALSE, TRUE, 0, 0) }

Simple == {Case(Mbr(TwoParts), SmallImage, FALSE, TRUE, 0, 1)}
=============================================================================
