----------------------------- MODULE UmElfProofs -----------------------------
(***************************************************************************)
(* ElfInv is an invariant of UmElf, for all images laid out as LaidOut     *)
(* says, all page sizes and all slots: each loaded address is in one       *)
(* region with its permission, and finds there what the linker put there.  *)
(***************************************************************************)
EXTENDS UmElfInv, FiniteSetTheorems, TLAPS

-----------------------------------------------------------------------------
(* Pages.  The provers know division by the constant kPageSize by its      *)
(* quotient and remainder only.                                            *)

LEMMA PageSizeType == kPageSize \in Nat \ {0}
  BY ElfAssumption

LEMMA DivMod ==
    ASSUME NEW a \in Nat
    PROVE  /\ a = kPageSize * (a \div kPageSize) + (a % kPageSize)
           /\ a % kPageSize \in 0 .. kPageSize - 1
           /\ a \div kPageSize \in Nat
  BY PageSizeType

LEMMA NextMultiple ==
    ASSUME NEW p \in Nat, NEW q \in Nat, p < q
    PROVE  kPageSize * p + kPageSize <= kPageSize * q
<1>1. PICK d \in Nat : q = p + 1 + d
  <2>1. q - p - 1 \in Nat /\ q = p + 1 + (q - p - 1)
    OBVIOUS
  <2>. QED
    BY <2>1
<1>2. kPageSize * q = kPageSize * p + kPageSize + kPageSize * d
  BY PageSizeType, <1>1
<1>3. kPageSize * d \in Nat
  BY PageSizeType
<1>4. kPageSize * p \in Nat /\ kPageSize * q \in Nat
  BY PageSizeType
<1>. QED
  BY PageSizeType, <1>2, <1>3, <1>4

\* Quotient and remainder are unique.
LEMMA DivModUnique ==
    ASSUME NEW p \in Nat, NEW q \in Nat,
           NEW r \in 0 .. kPageSize - 1, NEW s \in 0 .. kPageSize - 1,
           kPageSize * p + r = kPageSize * q + s
    PROVE  p = q /\ r = s
<1>. kPageSize * p \in Nat /\ kPageSize * q \in Nat
  BY PageSizeType
<1>1. ~(p < q)
  <2>. SUFFICES ASSUME p < q PROVE FALSE
    OBVIOUS
  <2>1. kPageSize * p + kPageSize <= kPageSize * q
    BY NextMultiple
  <2>. QED
    BY <2>1, PageSizeType
<1>2. ~(q < p)
  <2>. SUFFICES ASSUME q < p PROVE FALSE
    OBVIOUS
  <2>1. kPageSize * q + kPageSize <= kPageSize * p
    BY NextMultiple
  <2>. QED
    BY <2>1, PageSizeType
<1>3. p = q
  BY <1>1, <1>2
<1>. QED
  BY <1>3, PageSizeType

LEMMA MultipleAligned ==
    ASSUME NEW q \in Nat
    PROVE  kPageSize * q \in Nat /\ (kPageSize * q) % kPageSize = 0
<1>. DEFINE a == kPageSize * q
<1>1. a \in Nat
  BY PageSizeType
<1>2. /\ a = kPageSize * (a \div kPageSize) + (a % kPageSize)
      /\ a % kPageSize \in 0 .. kPageSize - 1
      /\ a \div kPageSize \in Nat
  BY <1>1, DivMod
<1>3. a = kPageSize * q + 0 /\ 0 \in 0 .. kPageSize - 1
  BY <1>1, PageSizeType
<1>. HIDE DEF a
<1>4. a % kPageSize = 0
  BY <1>1, <1>2, <1>3, DivModUnique
<1>. QED
  BY <1>1, <1>4 DEF a

\* The page of an address.
LEMMA PageDownProperties ==
    ASSUME NEW a \in Nat
    PROVE  /\ PageDown(a) \in Nat
           /\ PageDown(a) % kPageSize = 0
           /\ PageDown(a) <= a /\ a < PageDown(a) + kPageSize
           /\ PageDown(a) = kPageSize * (a \div kPageSize)
<1>1. /\ a = kPageSize * (a \div kPageSize) + (a % kPageSize)
      /\ a % kPageSize \in 0 .. kPageSize - 1
      /\ a \div kPageSize \in Nat
  BY DivMod
<1>2. kPageSize * (a \div kPageSize) \in Nat /\ (kPageSize * (a \div kPageSize)) % kPageSize = 0
  BY <1>1, MultipleAligned
<1>3. PageDown(a) = kPageSize * (a \div kPageSize)
  BY <1>1, <1>2, PageSizeType DEF PageDown
<1>. QED
  BY <1>1, <1>2, <1>3, PageSizeType

\* Pages below an address are below its page.
LEMMA PageDownGreatest ==
    ASSUME NEW a \in Nat, NEW x \in Nat, x % kPageSize = 0, x <= a
    PROVE  x <= PageDown(a)
<1>1. /\ a = kPageSize * (a \div kPageSize) + (a % kPageSize)
      /\ a % kPageSize \in 0 .. kPageSize - 1
      /\ a \div kPageSize \in Nat
      /\ x = kPageSize * (x \div kPageSize) /\ x \div kPageSize \in Nat
  BY DivMod, PageSizeType
<1>2. PageDown(a) = kPageSize * (a \div kPageSize)
  BY PageDownProperties
<1>3. kPageSize * (a \div kPageSize) \in Nat /\ kPageSize * (x \div kPageSize) \in Nat
  BY <1>1, MultipleAligned
<1>4. CASE a \div kPageSize < x \div kPageSize
  <2>1. kPageSize * (a \div kPageSize) + kPageSize <= kPageSize * (x \div kPageSize)
    BY <1>1, <1>4, NextMultiple
  <2>. QED
    BY <1>1, <1>3, <2>1, PageSizeType
<1>5. CASE x \div kPageSize = a \div kPageSize
  BY <1>1, <1>2, <1>3, <1>5
<1>6. CASE x \div kPageSize < a \div kPageSize
  <2>1. kPageSize * (x \div kPageSize) + kPageSize <= kPageSize * (a \div kPageSize)
    BY <1>1, <1>6, NextMultiple
  <2>. QED
    BY <1>1, <1>2, <1>3, <2>1, PageSizeType
<1>. QED
  BY <1>1, <1>4, <1>5, <1>6

\* The first page that does not begin below an address.
LEMMA PageUpProperties ==
    ASSUME NEW a \in Nat
    PROVE  PageUp(a) \in Nat /\ PageUp(a) % kPageSize = 0 /\ a <= PageUp(a)
<1>1. a + kPageSize - 1 \in Nat
  BY PageSizeType
<1>2. /\ PageUp(a) \in Nat
      /\ PageUp(a) % kPageSize = 0
      /\ a + kPageSize - 1 < PageUp(a) + kPageSize
  BY <1>1, PageDownProperties DEF PageUp
<1>. QED
  BY <1>2, PageSizeType

LEMMA AlignedSum ==
    ASSUME NEW a \in Nat, NEW x \in Nat, NEW y \in Nat, x <= y,
           a % kPageSize = 0, x % kPageSize = 0, y % kPageSize = 0
    PROVE  (a + (y - x)) % kPageSize = 0
<1>1. /\ a = kPageSize * (a \div kPageSize) /\ a \div kPageSize \in Nat
      /\ x = kPageSize * (x \div kPageSize) /\ x \div kPageSize \in Nat
      /\ y = kPageSize * (y \div kPageSize) /\ y \div kPageSize \in Nat
  BY DivMod, PageSizeType
<1>2. x \div kPageSize <= y \div kPageSize
  <2>1. CASE y \div kPageSize < x \div kPageSize
    <3>1. kPageSize * (y \div kPageSize) + kPageSize <= kPageSize * (x \div kPageSize)
      BY <1>1, <2>1, NextMultiple
    <3>. QED
      BY <1>1, <3>1, PageSizeType
  <2>. QED
    BY <1>1, <2>1
<1>. DEFINE n == (a \div kPageSize) + ((y \div kPageSize) - (x \div kPageSize))
<1>3. n \in Nat
  BY <1>1, <1>2
<1>4. a + (y - x) = kPageSize * n
  BY <1>1, PageSizeType
<1>. QED
  BY <1>3, <1>4, MultipleAligned

\* A page that begins before another one's end begins no later.
LEMMA AlignedGap ==
    ASSUME NEW p \in Nat, NEW x \in Nat, p % kPageSize = 0, x % kPageSize = 0,
           x < p + kPageSize
    PROVE  x <= p
<1>1. /\ p = kPageSize * (p \div kPageSize) /\ p \div kPageSize \in Nat
      /\ x = kPageSize * (x \div kPageSize) /\ x \div kPageSize \in Nat
  BY DivMod, PageSizeType
<1>2. CASE p \div kPageSize < x \div kPageSize
  <2>1. kPageSize * (p \div kPageSize) + kPageSize <= kPageSize * (x \div kPageSize)
    BY <1>1, <1>2, NextMultiple
  <2>. QED
    BY <1>1, <2>1, PageSizeType
<1>3. CASE p \div kPageSize = x \div kPageSize
  BY <1>1, <1>3
<1>4. CASE x \div kPageSize < p \div kPageSize
  <2>1. kPageSize * (x \div kPageSize) + kPageSize <= kPageSize * (p \div kPageSize)
    BY <1>1, <1>4, NextMultiple
  <2>. QED
    BY <1>1, <2>1, PageSizeType
<1>. QED
  BY <1>1, <1>2, <1>3, <1>4

-----------------------------------------------------------------------------
(* The image                                                                *)

Names == {sht[k].sh_name : k \in DOMAIN sht}

LEMMA ImageType ==
    ASSUME TypeOK
    PROVE  /\ Len(sht) \in Nat \ {0} /\ DOMAIN sht = 1 .. Len(sht)
           /\ i \in Nat
           /\ \A k \in DOMAIN sht : sht[k] \in Shdr(Names)
           /\ \A k, l \in DOMAIN sht : sht[k].sh_name = sht[l].sh_name => k = l
           /\ ~sht[Len(sht)].alloc
           /\ LaidOut(sht)
<1>1. /\ sht \in Seq(Shdr(Names))
      /\ \A k, l \in DOMAIN sht : sht[k].sh_name = sht[l].sh_name => k = l
      /\ sht # <<>> /\ ~sht[Len(sht)].alloc
      /\ LaidOut(sht)
  BY ElfAssumption DEF TypeOK, Names
<1>2. Len(sht) \in Nat \ {0} /\ DOMAIN sht = 1 .. Len(sht)
  BY <1>1
<1>3. i \in Nat
  <2>1. i \in 1 .. Len(sht) + 2
    BY DEF TypeOK
  <2>. QED
    BY <2>1, <1>2
<1>. QED
  BY <1>1, <1>2, <1>3

\* The loop's index; what is loaded is not the last section.
LEMMA LoopIndex ==
    ASSUME TypeOK, i <= Len(sht)
    PROVE  /\ Len(sht) \in Nat \ {0} /\ DOMAIN sht = 1 .. Len(sht) /\ i \in DOMAIN sht
           /\ sht[i].alloc => i + 1 <= Len(sht)
<1>1. Len(sht) \in Nat \ {0} /\ DOMAIN sht = 1 .. Len(sht) /\ ~sht[Len(sht)].alloc
  BY ImageType
<1>2. i \in 1 .. Len(sht) + 2
  BY DEF TypeOK
<1>3. i \in 1 .. Len(sht)
  BY <1>1, <1>2
<1>. QED
  BY <1>1, <1>3

\* The fields of a section header.
LEMMA SectionType ==
    ASSUME TypeOK, NEW k \in DOMAIN sht
    PROVE  /\ sht[k].sh_addr \in Nat /\ sht[k].sh_size \in Nat /\ sht[k].sh_offset \in Nat
           /\ SectionEnd(sht[k]) \in Nat
           /\ sht[k].alloc \in BOOLEAN /\ sht[k].write \in BOOLEAN
           /\ sht[k].sh_name \in Names
           /\ sht[k].sh_type \in {"NULL", "PROGBITS", "NOBITS", "SYMTAB", "STRTAB"}
<1>1. sht[k] \in Shdr(Names)
  BY ImageType
<1>. QED
  BY <1>1 DEF Shdr, SectionEnd

\* .bss is the last loaded section.
LEMMA BssLast ==
    ASSUME TypeOK
    PROVE  \E b \in DOMAIN sht :
              /\ sht[b].sh_name = ".bss" /\ MakesRegion(sht[b])
              /\ \A k \in DOMAIN sht : sht[k].alloc =>
                    k <= b /\ SectionEnd(sht[k]) <= SectionEnd(sht[b])
              /\ PageUp(SectionEnd(sht[b])) \in Nat \ {0}
              /\ PageUp(SectionEnd(sht[b])) % kPageSize = 0
              /\ SectionEnd(sht[b]) <= PageUp(SectionEnd(sht[b]))
              /\ PageUp(SectionEnd(sht[b])) <= kSlotEndVAddr + 1
<1>1. PICK b \in DOMAIN sht :
        /\ sht[b].sh_name = ".bss" /\ MakesRegion(sht[b])
        /\ \A k \in b + 1 .. Len(sht) : ~sht[k].alloc
        /\ PageUp(SectionEnd(sht[b])) <= kSlotEndVAddr + 1
  BY ImageType DEF LaidOut
<1>2. b \in 1 .. Len(sht) /\ Len(sht) \in Nat
  BY ImageType
<1>3. ASSUME NEW k \in DOMAIN sht, sht[k].alloc
      PROVE  k <= b /\ SectionEnd(sht[k]) <= SectionEnd(sht[b])
  <2>1. k \in 1 .. Len(sht)
    BY ImageType
  <2>2. k <= b
    BY <1>1, <1>2, <1>3, <2>1
  <2>3. SectionEnd(sht[k]) \in Nat /\ SectionEnd(sht[b]) \in Nat
    BY SectionType
  <2>4. CASE k < b
    <3>1. SectionEnd(sht[k]) <= sht[b].sh_addr
      BY <1>1, <1>3, <2>4, ImageType DEF LaidOut, MakesRegion
    <3>2. sht[b].sh_addr \in Nat /\ sht[b].sh_size \in Nat
      BY SectionType
    <3>. QED
      BY <2>2, <2>3, <3>1, <3>2 DEF SectionEnd
  <2>. QED
    BY <1>2, <2>1, <2>2, <2>3, <2>4
<1>4. sht[b].sh_addr \in Nat /\ sht[b].sh_size \in Nat /\ SectionEnd(sht[b]) \in Nat
  BY SectionType
<1>5. SectionEnd(sht[b]) > 0
  BY <1>1, <1>4 DEF SectionEnd, MakesRegion
<1>6. /\ PageUp(SectionEnd(sht[b])) \in Nat
      /\ PageUp(SectionEnd(sht[b])) % kPageSize = 0
      /\ SectionEnd(sht[b]) <= PageUp(SectionEnd(sht[b]))
  BY <1>4, PageUpProperties
<1>7. PageUp(SectionEnd(sht[b])) \in Nat \ {0}
  BY <1>4, <1>5, <1>6
<1>. QED
  BY <1>1, <1>3, <1>6, <1>7

\* Which sections begin a region, and what is known of them.
LEMMA RegionSection ==
    ASSUME TypeOK, NEW k \in DOMAIN sht, MakesRegion(sht[k])
    PROVE  /\ sht[k].sh_addr % kPageSize = 0
           /\ sht[k].sh_type \in {"PROGBITS", "NOBITS"}
           /\ sht[k].sh_type = "NOBITS" <=> sht[k].sh_name = ".bss"
           /\ ~sht[k].write => /\ sht[k].sh_name \in {".text", ".rodata"}
                               /\ sht[k].sh_offset % kPageSize = 0
<1>1. /\ sht[k].sh_addr % kPageSize = 0
      /\ sht[k].sh_type = (IF sht[k].sh_name = ".bss" THEN "NOBITS" ELSE "PROGBITS")
      /\ ~sht[k].write => /\ sht[k].sh_name \in {".text", ".rodata"}
                          /\ sht[k].sh_offset % kPageSize = 0
  BY ImageType DEF LaidOut
<1>. QED
  BY <1>1

\* A special section continues the one in front of it.
LEMMA SpecialSection ==
    ASSUME TypeOK, NEW k \in DOMAIN sht, IsSpecial(sht[k])
    PROVE  k > 1 /\ k - 1 \in DOMAIN sht /\ sht[k].alloc /\ Continues(sht[k], sht[k - 1])
<1>1. k > 1 /\ Continues(sht[k], sht[k - 1])
  BY ImageType DEF LaidOut
<1>2. k \in 1 .. Len(sht) /\ Len(sht) \in Nat
  BY ImageType
<1>3. k - 1 \in 1 .. Len(sht)
  BY <1>1, <1>2
<1>. QED
  BY <1>1, <1>3, ImageType DEF Continues

-----------------------------------------------------------------------------
(* Regions                                                                  *)

LEMMA RegionType ==
    ASSUME NEW r \in Region(RegionNames)
    PROVE  /\ r.start \in Nat /\ r.length \in Nat /\ RegionEnd(r) \in Nat
           /\ r.writable \in BOOLEAN
           /\ r.name \in RegionNames
           /\ r.data \in Int
           /\ r.data # NoData => r.data \in Nat
  BY DEF Region, RegionEnd, NoData

\* The region under construction is the last one.
LEMMA RegionsType ==
    ASSUME TypeOK
    PROVE  /\ Regions \in Seq(Region(RegionNames))
           /\ Len(Regions) \in Nat /\ DOMAIN Regions = 1 .. Len(Regions)
           /\ \A j \in DOMAIN Regions : Regions[j] \in Region(RegionNames)
           /\ ~Making => Regions = region_list_
           /\ Making => /\ Len(Regions) = Len(region_list_) + 1
                        /\ Regions[Len(Regions)] = reg
                        /\ Regions = Append(region_list_, reg)
                        /\ \A j \in 1 .. Len(region_list_) : Regions[j] = region_list_[j]
<1>1. region_list_ \in Seq(Region(RegionNames)) /\ reg \in Region(RegionNames)
  BY DEF TypeOK
<1>2. Append(region_list_, reg) \in Seq(Region(RegionNames))
  BY <1>1
<1>3. Regions \in Seq(Region(RegionNames))
  BY <1>1, <1>2 DEF Regions
<1>4. /\ Len(Regions) \in Nat /\ DOMAIN Regions = 1 .. Len(Regions)
      /\ \A j \in DOMAIN Regions : Regions[j] \in Region(RegionNames)
  BY <1>3
<1>5. Making => /\ Len(Regions) = Len(region_list_) + 1
                /\ Regions[Len(Regions)] = reg
                /\ \A j \in 1 .. Len(region_list_) : Regions[j] = region_list_[j]
  BY <1>1 DEF Regions
<1>. QED
  BY <1>3, <1>4, <1>5 DEF Regions

\* Behind all sections that the loop has seen comes the next one.
LEMMA RegionsBelow ==
    ASSUME ElfInv, ~Loaded, NEW j \in DOMAIN Regions,
           NEW k \in DOMAIN sht, k >= i, sht[k].alloc
    PROVE  RegionEnd(Regions[j]) <= sht[k].sh_addr
<1>. TypeOK
  BY DEF ElfInv
<1>1. PICK m \in DOMAIN sht :
        m < i /\ sht[m].alloc /\ RegionEnd(Regions[j]) = SectionEnd(sht[m])
  BY DEF ElfInv, RegionsEnd
<1>2. m \in Nat /\ k \in Nat /\ i \in Nat
  BY ImageType
<1>3. m < k
  BY <1>1, <1>2
<1>. QED
  BY <1>1, <1>3, ImageType DEF LaidOut

-----------------------------------------------------------------------------
(* Sections that are passed over                                            *)

LEMMA PassOver ==
    ASSUME ElfInv, i <= Len(sht), ~Making,
           ~sht[i].alloc \/ sht[i].sh_size = 0,
           elf_symtab' \in 0 .. Len(sht), elf_strtab' \in 0 .. Len(sht),
           i' = i + 1,
           UNCHANGED <<sht, next_page_ptr, reg, region_list_, mapped, fault>>
    PROVE  ElfInv'
<1>. TypeOK
  BY DEF ElfInv
<1>1. Len(sht) \in Nat \ {0} /\ DOMAIN sht = 1 .. Len(sht) /\ i \in DOMAIN sht
  BY LoopIndex
<1>2. /\ Regions' = Regions /\ Making' = Making /\ ~Loaded /\ ~Loaded'
      /\ Usr' = Usr
  BY <1>1 DEF Regions, Making, Loaded, Usr
<1>3. TypeOK'
  <2>1. i' \in 1 .. Len(sht) + 2
    BY <1>1
  <2>. QED
    BY <2>1 DEF TypeOK, RegionNames
<1>4. RegionsOK' /\ RegionsInOrder'
  BY <1>2 DEF ElfInv, RegionsOK, RegionsInOrder
<1>5. SectionsHeld'
  <2>. SUFFICES ASSUME NEW k \in DOMAIN sht, k < i + 1, sht[k].alloc, sht[k].sh_size > 0
                PROVE  \E j \in DOMAIN Regions : Holds(Regions[j], sht[k])
    BY <1>2 DEF SectionsHeld
  <2>1. sht[i].sh_size \in Nat
    BY <1>1, SectionType
  <2>2. k # i
    BY <2>1
  <2>3. k < i
    BY <1>1, <2>2
  <2>. QED
    BY <2>3 DEF ElfInv, SectionsHeld
<1>6. RegionsEnd'
  <2>. SUFFICES ASSUME NEW j \in DOMAIN Regions
                PROVE  \E k \in DOMAIN sht :
                          /\ k < i + 1 /\ sht[k].alloc
                          /\ RegionEnd(Regions[j]) = SectionEnd(sht[k])
    BY <1>2 DEF RegionsEnd
  <2>1. PICK k \in DOMAIN sht :
          k < i /\ sht[k].alloc /\ RegionEnd(Regions[j]) = SectionEnd(sht[k])
    BY <1>2 DEF ElfInv, RegionsEnd
  <2>2. k < i + 1
    BY <1>1, <2>1
  <2>. QED
    BY <2>1, <2>2
<1>7. InnerLoop'
  BY <1>2 DEF InnerLoop
<1>8. OuterLoop'
  <2>. SUFFICES ASSUME i + 1 <= Len(sht), IsSpecial(sht[i + 1])
                PROVE  FALSE
    BY <1>2 DEF OuterLoop
  <2>1. i + 1 \in DOMAIN sht /\ (i + 1) - 1 = i
    BY <1>1
  <2>2. Continues(sht[i + 1], sht[i])
    BY <2>1, SpecialSection
  <2>3. ~IsSpecial(sht[i])
    BY DEF ElfInv, OuterLoop
  <2>4. sht[i].sh_size \in Nat
    BY <1>1, SectionType
  <2>. QED
    BY <2>2, <2>3, <2>4 DEF Continues
<1>9. BehindBss'
  <2>. SUFFICES ASSUME NEW b \in DOMAIN sht, b < i + 1,
                       sht[b].sh_name = ".bss", MakesRegion(sht[b])
                PROVE  next_page_ptr = PageUp(SectionEnd(sht[b]))
    BY <1>2 DEF BehindBss
  <2>1. sht[i].sh_size \in Nat
    BY <1>1, SectionType
  <2>2. b # i
    BY <2>1 DEF MakesRegion
  <2>3. b < i
    BY <1>1, <2>2
  <2>. QED
    BY <2>3 DEF ElfInv, BehindBss
<1>10. UsrLast'
  BY <1>2 DEF ElfInv, UsrLast
<1>11. LoadedAsLinked'
  BY DEF ElfInv, LoadedAsLinked, Addresses
<1>. QED
  BY <1>3, <1>4, <1>5, <1>6, <1>7, <1>8, <1>9, <1>10, <1>11 DEF ElfInv

LEMMA SkipSectionInv ==
    ASSUME ElfInv, SkipSection
    PROVE  ElfInv'
  BY PassOver DEF SkipSection, ElfInv, TypeOK

LEMMA SymbolSectionInv ==
    ASSUME ElfInv, SymbolSection
    PROVE  ElfInv'
<1>. TypeOK
  BY DEF ElfInv
<1>1. i \in DOMAIN sht
  BY LoopIndex DEF SymbolSection
<1>2. ~IsSpecial(sht[i])
  BY DEF ElfInv, OuterLoop, SymbolSection
<1>3. ~MakesRegion(sht[i])
  BY <1>1, RegionSection DEF SymbolSection, IsSymtab, IsStrtab
<1>4. ~sht[i].alloc
  BY <1>2, <1>3 DEF MakesRegion, SymbolSection
<1>5. i \in 0 .. Len(sht)
  BY <1>1, ImageType
<1>6. elf_symtab' \in 0 .. Len(sht) /\ elf_strtab' \in 0 .. Len(sht)
  BY <1>5 DEF SymbolSection, TypeOK
<1>. QED
  BY <1>4, <1>6, PassOver DEF SymbolSection

-----------------------------------------------------------------------------
(* Sections that go into the region under construction                      *)

\* The region under construction begins with, or grows by, the section at hand.
LEMMA Include ==
    ASSUME ElfInv, i <= Len(sht), sht[i].alloc,
           reg' \in Region(RegionNames), reg'.length > 0, RegionOK(reg'),
           Holds(reg', sht[i]), RegionEnd(reg') = SectionEnd(sht[i]),
           \A j \in DOMAIN region_list_ : RegionEnd(region_list_[j]) <= reg'.start,
           Making => \A k \in DOMAIN sht : Holds(reg, sht[k]) => Holds(reg', sht[k]),
           sht[i].sh_name = ".bss" /\ MakesRegion(sht[i]) => reg'.name = ".bss",
           i' = i + 1,
           UNCHANGED <<sht, elf_symtab, elf_strtab, next_page_ptr, region_list_, mapped, fault>>
    PROVE  ElfInv'
<1>. TypeOK
  BY DEF ElfInv
<1>1. /\ Len(sht) \in Nat \ {0} /\ DOMAIN sht = 1 .. Len(sht) /\ i \in DOMAIN sht
      /\ i + 1 <= Len(sht)
  BY LoopIndex
<1>2. /\ Making' /\ ~Loaded /\ ~Loaded'
      /\ Regions' = Append(region_list_, reg')
  BY <1>1 DEF Regions, Making, Loaded
<1>. DEFINE n == Len(region_list_)
<1>3. /\ region_list_ \in Seq(Region(RegionNames))
      /\ n \in Nat /\ DOMAIN region_list_ = 1 .. n
  BY DEF TypeOK
<1>4. /\ DOMAIN Regions' = 1 .. n + 1
      /\ Regions'[n + 1] = reg'
      /\ \A j \in 1 .. n : Regions'[j] = region_list_[j]
  BY <1>2, <1>3
<1>5. DOMAIN Regions = IF Making THEN 1 .. n + 1 ELSE 1 .. n
  BY <1>3, RegionsType
<1>6. \A j \in 1 .. n : j \in DOMAIN Regions /\ Regions[j] = region_list_[j]
  <2>1. CASE Making
    <3>1. \A j \in 1 .. n : Regions[j] = region_list_[j]
      BY <2>1, RegionsType
    <3>. QED
      BY <2>1, <3>1, <1>3, <1>5
  <2>2. CASE ~Making
    BY <2>2, <1>5, RegionsType
  <2>. QED
    BY <2>1, <2>2
<1>. HIDE DEF n
<1>7. TypeOK'
  <2>1. i' \in 1 .. Len(sht) + 2
    BY <1>1
  <2>2. RegionNames' = RegionNames
    BY DEF RegionNames
  <2>. QED
    BY <2>1, <2>2 DEF TypeOK
<1>8. RegionsOK'
  <2>. SUFFICES ASSUME NEW j \in 1 .. n + 1
                PROVE  RegionOK(Regions'[j])
    BY <1>4 DEF RegionsOK
  <2>1. CASE j = n + 1
    BY <2>1, <1>4
  <2>2. CASE j \in 1 .. n
    BY <2>2, <1>4, <1>6 DEF ElfInv, RegionsOK
  <2>. QED
    BY <2>1, <2>2, <1>3
<1>9. RegionsInOrder'
  <2>. SUFFICES ASSUME NEW j \in 1 .. n + 1, NEW l \in 1 .. n + 1, j < l
                PROVE  RegionEnd(Regions'[j]) <= Regions'[l].start
    BY <1>4 DEF RegionsInOrder
  <2>1. j \in 1 .. n
    BY <1>3
  <2>2. CASE l = n + 1
    BY <2>1, <2>2, <1>3, <1>4
  <2>3. CASE l \in 1 .. n
    BY <2>1, <2>3, <1>4, <1>6 DEF ElfInv, RegionsInOrder
  <2>. QED
    BY <2>2, <2>3, <1>3
<1>10. SectionsHeld'
  <2>. SUFFICES ASSUME NEW k \in DOMAIN sht, k < i + 1, sht[k].alloc, sht[k].sh_size > 0
                PROVE  \E j \in 1 .. n + 1 : Holds(Regions'[j], sht[k])
    BY <1>4 DEF SectionsHeld
  <2>1. n + 1 \in 1 .. n + 1
    BY <1>3
  <2>2. CASE k = i
    BY <2>1, <2>2, <1>4
  <2>3. CASE k < i
    <3>1. PICK j \in DOMAIN Regions : Holds(Regions[j], sht[k])
      BY <2>3 DEF ElfInv, SectionsHeld
    <3>2. CASE j \in 1 .. n
      BY <3>1, <3>2, <1>3, <1>4, <1>6
    <3>3. CASE j = n + 1 /\ Making
      <4>1. Regions[j] = reg
        BY <3>3, RegionsType DEF n
      <4>. QED
        BY <4>1, <3>1, <2>1, <1>4, <3>3
    <3>. QED
      BY <3>2, <3>3, <1>3, <1>5
  <2>. QED
    BY <2>2, <2>3, <1>1
<1>11. RegionsEnd'
  <2>. SUFFICES ASSUME NEW j \in 1 .. n + 1
                PROVE  \E k \in DOMAIN sht :
                          /\ k < i + 1 /\ sht[k].alloc
                          /\ RegionEnd(Regions'[j]) = SectionEnd(sht[k])
    BY <1>4 DEF RegionsEnd
  <2>1. CASE j = n + 1
    BY <2>1, <1>1, <1>4
  <2>2. CASE j \in 1 .. n
    <3>1. PICK k \in DOMAIN sht :
            k < i /\ sht[k].alloc /\ RegionEnd(Regions[j]) = SectionEnd(sht[k])
      BY <2>2, <1>2, <1>6 DEF ElfInv, RegionsEnd
    <3>2. k < i + 1
      BY <3>1, <1>1
    <3>. QED
      BY <2>2, <3>1, <3>2, <1>4, <1>6
  <2>. QED
    BY <2>1, <2>2, <1>3
<1>12. InnerLoop'
  <2>1. (i + 1) - 1 = i /\ i + 1 > 1
    BY <1>1
  <2>. QED
    BY <2>1, <1>1 DEF InnerLoop, Holds
<1>13. OuterLoop'
  BY <1>2 DEF OuterLoop
<1>14. BehindBss'
  <2>. SUFFICES ASSUME NEW b \in DOMAIN sht, b < i + 1,
                       sht[b].sh_name = ".bss", MakesRegion(sht[b])
                PROVE  reg'.name = ".bss" /\ RegionEnd(reg') = SectionEnd(sht[b])
    BY <1>2 DEF BehindBss
  <2>1. i <= b
    BY <1>1, BssLast, ImageType
  <2>2. b = i
    BY <1>1, <2>1
  <2>. QED
    BY <2>2
<1>15. UsrLast'
  BY <1>2 DEF ElfInv, UsrLast
<1>16. LoadedAsLinked'
  BY DEF ElfInv, LoadedAsLinked, Addresses
<1>. QED
  BY <1>7, <1>8, <1>9, <1>10, <1>11, <1>12, <1>13, <1>14, <1>15, <1>16 DEF ElfInv

LEMMA NewRegionInv ==
    ASSUME ElfInv, NewRegion
    PROVE  ElfInv'
<1>. TypeOK
  BY DEF ElfInv
<1>. DEFINE sh == sht[i]
<1>1. /\ i \in DOMAIN sht /\ i <= Len(sht) /\ ~Making
      /\ sh.sh_size > 0 /\ sh.alloc
  BY LoopIndex DEF NewRegion
<1>2. MakesRegion(sh)
  BY <1>1 DEF MakesRegion, ElfInv, OuterLoop
<1>3. /\ sh.sh_addr % kPageSize = 0
      /\ sh.sh_type \in {"PROGBITS", "NOBITS"}
      /\ sh.sh_type = "NOBITS" <=> sh.sh_name = ".bss"
      /\ ~sh.write => sh.sh_name \in {".text", ".rodata"} /\ sh.sh_offset % kPageSize = 0
  BY <1>1, <1>2, RegionSection
<1>4. /\ reg' = First(sh) /\ i' = i + 1
      /\ UNCHANGED <<sht, elf_symtab, elf_strtab, next_page_ptr, region_list_, mapped, fault>>
  BY <1>3 DEF NewRegion
<1>5. /\ sh.sh_addr \in Nat /\ sh.sh_size \in Nat /\ sh.sh_offset \in Nat
      /\ sh.write \in BOOLEAN /\ sh.sh_name \in RegionNames
  BY <1>1, SectionType DEF RegionNames, Names
<1>. DEFINE r == First(sh)
<1>6. /\ r.name = sh.sh_name /\ r.start = sh.sh_addr /\ r.length = sh.sh_size
      /\ r.writable = sh.write
      /\ r.data = IF sh.sh_type = "NOBITS" THEN NoData ELSE sh.sh_offset
  BY DEF First
<1>7. r \in Region(RegionNames) /\ r.length > 0
  BY <1>1, <1>5 DEF First, Region
<1>8. RegionEnd(r) = SectionEnd(sh)
  BY <1>6 DEF RegionEnd, SectionEnd
<1>9. sh.sh_offset # NoData
  BY <1>5 DEF NoData
<1>10. RegionOK(r)
  BY <1>3, <1>6, <1>9 DEF RegionOK
<1>11. Holds(r, sh)
  <2>1. RegionEnd(r) \in Nat
    BY <1>5, <1>6 DEF RegionEnd
  <2>. QED
    BY <2>1, <1>5, <1>6, <1>8, <1>9 DEF Holds, Agrees
<1>12. ASSUME NEW j \in DOMAIN region_list_
       PROVE  RegionEnd(region_list_[j]) <= r.start
  <2>1. Regions = region_list_
    BY <1>1, RegionsType
  <2>2. ~Loaded /\ i >= i
    BY <1>1, ImageType DEF Loaded
  <2>. QED
    BY <2>1, <2>2, <1>1, <1>6, RegionsBelow
<1>. HIDE DEF r, sh
<1>. QED
  BY <1>1, <1>4, <1>6, <1>7, <1>8, <1>10, <1>11, <1>12, Include DEF r, sh

LEMMA IncludeSectionInv ==
    ASSUME ElfInv, IncludeSection
    PROVE  ElfInv'
<1>. TypeOK
  BY DEF ElfInv
<1>. DEFINE sh == sht[i]
            prev == sht[i - 1]
            r == Merge(reg, sh)
<1>1. /\ i \in DOMAIN sht /\ i <= Len(sht) /\ Making /\ IsSpecial(sh)
      /\ reg' = r /\ i' = i + 1
      /\ UNCHANGED <<sht, elf_symtab, elf_strtab, next_page_ptr, region_list_, mapped, fault>>
  BY LoopIndex DEF IncludeSection
<1>2. /\ i - 1 \in DOMAIN sht /\ sh.alloc
      /\ sh.write = prev.write /\ sh.sh_type = prev.sh_type
      /\ sh.sh_offset - sh.sh_addr = prev.sh_offset - prev.sh_addr
  BY <1>1, SpecialSection DEF Continues
<1>3. Agrees(reg, prev)
  BY <1>1 DEF ElfInv, InnerLoop
<1>4. /\ sh.sh_addr \in Nat /\ sh.sh_size \in Nat /\ SectionEnd(sh) = sh.sh_addr + sh.sh_size
  BY <1>1, SectionType DEF SectionEnd
<1>5. /\ reg \in Region(RegionNames) /\ reg.start \in Nat /\ reg.length \in Nat
      /\ RegionEnd(reg) = reg.start + reg.length /\ reg.length > 0
  <2>1. reg \in Region(RegionNames)
    BY DEF TypeOK
  <2>. QED
    BY <2>1, <1>1, RegionType DEF RegionEnd, Making
<1>. DEFINE n == Len(region_list_)
<1>6. /\ n \in Nat /\ DOMAIN region_list_ = 1 .. n
      /\ DOMAIN Regions = 1 .. n + 1
      /\ Regions[n + 1] = reg
      /\ \A j \in 1 .. n : Regions[j] = region_list_[j]
  <2>1. /\ DOMAIN Regions = 1 .. Len(Regions) /\ Len(Regions) = n + 1
        /\ Regions[Len(Regions)] = reg
        /\ \A j \in 1 .. n : Regions[j] = region_list_[j]
    BY <1>1, RegionsType
  <2>2. region_list_ \in Seq(Region(RegionNames))
    BY DEF TypeOK
  <2>. QED
    BY <2>1, <2>2
<1>. HIDE DEF n
<1>7. n + 1 \in DOMAIN Regions
  BY <1>6
<1>8. RegionEnd(reg) <= sh.sh_addr
  <2>1. ~Loaded /\ i >= i
    BY <1>1, ImageType DEF Loaded
  <2>. QED
    BY <2>1, <1>1, <1>2, <1>6, <1>7, RegionsBelow
<1>9. /\ r.name = reg.name /\ r.start = reg.start
      /\ r.writable = reg.writable /\ r.data = reg.data
      /\ r.length = (IF reg.start + reg.length < sh.sh_addr
                     THEN sh.sh_addr - reg.start ELSE reg.length) + sh.sh_size
  BY <1>5 DEF Merge, Region
<1>10. /\ r.length \in Nat /\ r.length > 0
       /\ r.start + r.length = sh.sh_addr + sh.sh_size
  BY <1>4, <1>5, <1>8, <1>9
<1>11. r \in Region(RegionNames)
  BY <1>5, <1>9, <1>10 DEF Merge, Region
<1>12. RegionEnd(r) = SectionEnd(sh) /\ RegionEnd(reg) <= RegionEnd(r)
  BY <1>4, <1>5, <1>8, <1>10 DEF RegionEnd
<1>13. RegionOK(r)
  BY <1>6, <1>7, <1>9 DEF RegionOK, ElfInv, RegionsOK
<1>14. Holds(r, sh)
  <2>1. r.start <= sh.sh_addr
    BY <1>4, <1>5, <1>8, <1>9
  <2>2. SectionEnd(sh) <= RegionEnd(r)
    BY <1>4, <1>12
  <2>. QED
    BY <2>1, <2>2, <1>2, <1>3, <1>9 DEF Holds, Agrees
<1>15. ASSUME NEW j \in DOMAIN region_list_
       PROVE  RegionEnd(region_list_[j]) <= r.start
  <2>1. j \in DOMAIN Regions /\ j < n + 1 /\ Regions[j] = region_list_[j]
    BY <1>6
  <2>. QED
    BY <2>1, <1>6, <1>7, <1>9 DEF ElfInv, RegionsInOrder
<1>16. ASSUME NEW k \in DOMAIN sht, Holds(reg, sht[k])
       PROVE  Holds(r, sht[k])
  <2>1. SectionEnd(sht[k]) \in Nat /\ RegionEnd(reg) \in Nat /\ RegionEnd(r) \in Nat
    BY <1>5, <1>11, SectionType, RegionType
  <2>2. SectionEnd(sht[k]) <= RegionEnd(r)
    BY <2>1, <1>12, <1>16 DEF Holds
  <2>. QED
    BY <2>2, <1>9, <1>16 DEF Holds, Agrees
<1>17. ~MakesRegion(sh)
  BY <1>1 DEF MakesRegion
<1>. HIDE DEF r, sh, prev
<1>. QED
  BY <1>1, <1>2, <1>10, <1>11, <1>12, <1>13, <1>14, <1>15, <1>16, <1>17, Include DEF sh

LEMMA AddRegionInv ==
    ASSUME ElfInv, AddRegion
    PROVE  ElfInv'
<1>. TypeOK
  BY DEF ElfInv
<1>1. /\ i \in DOMAIN sht /\ DOMAIN sht = 1 .. Len(sht) /\ Len(sht) \in Nat \ {0}
      /\ i <= Len(sht) /\ Making /\ ~IsSpecial(sht[i])
      /\ reg' = NoRegion /\ region_list_' = Append(region_list_, reg)
      /\ next_page_ptr' = IF reg.name = ".bss" THEN PageUp(RegionEnd(reg)) ELSE next_page_ptr
      /\ UNCHANGED <<sht, i, elf_symtab, elf_strtab, mapped, fault>>
  BY LoopIndex DEF AddRegion, RegionEnd
<1>2. ~Making'
  <2>1. NoRegion.length = 0
    BY DEF NoRegion
  <2>. QED
    BY <2>1, <1>1 DEF Making
<1>3. Regions' = Regions /\ ~Loaded /\ ~Loaded'
  BY <1>1, <1>2 DEF Regions, Loaded
<1>4. TypeOK'
  <2>1. reg \in Region(RegionNames) /\ region_list_ \in Seq(Region(RegionNames))
    BY DEF TypeOK
  <2>2. region_list_' \in Seq(Region(RegionNames))
    BY <2>1, <1>1
  <2>3. NoRegion \in Region(RegionNames)
    BY DEF NoRegion, Region, RegionNames, NoData
  <2>4. PageUp(RegionEnd(reg)) \in Nat
    BY <2>1, RegionType, PageUpProperties
  <2>5. next_page_ptr' \in Nat
    BY <2>4, <1>1 DEF TypeOK
  <2>6. RegionNames' = RegionNames
    BY <1>1 DEF RegionNames
  <2>. QED
    BY <2>2, <2>3, <2>5, <2>6, <1>1 DEF TypeOK
<1>5. RegionsOK' /\ RegionsInOrder'
  BY <1>3 DEF ElfInv, RegionsOK, RegionsInOrder
<1>6. SectionsHeld' /\ RegionsEnd'
  BY <1>1, <1>3 DEF ElfInv, SectionsHeld, RegionsEnd
<1>7. InnerLoop' /\ OuterLoop'
  BY <1>1, <1>2 DEF InnerLoop, OuterLoop
<1>8. BehindBss'
  BY <1>1, <1>2 DEF ElfInv, BehindBss
<1>9. UsrLast'
  BY <1>1, <1>3 DEF ElfInv, UsrLast
<1>10. LoadedAsLinked'
  BY <1>1, <1>3 DEF ElfInv, UsrLast, LoadedAsLinked
<1>. QED
  BY <1>1, <1>4, <1>5, <1>6, <1>7, <1>8, <1>9, <1>10 DEF ElfInv

-----------------------------------------------------------------------------
(* The rest of the slot                                                     *)

\* After the section loop, next_page_ptr is the page behind .bss, and all else is in front.
LEMMA NextPagePtr ==
    ASSUME ElfInv, i > Len(sht)
    PROVE  /\ ~Making
           /\ next_page_ptr \in Nat \ {0} /\ next_page_ptr % kPageSize = 0
           /\ next_page_ptr <= kSlotEndVAddr + 1
           /\ \A k \in DOMAIN sht : sht[k].alloc => SectionEnd(sht[k]) <= next_page_ptr
<1>. TypeOK
  BY DEF ElfInv
<1>1. Len(sht) \in Nat \ {0} /\ DOMAIN sht = 1 .. Len(sht) /\ i \in Nat
  BY ImageType
<1>2. ~Making
  BY <1>1 DEF ElfInv, InnerLoop
<1>3. PICK b \in DOMAIN sht :
        /\ sht[b].sh_name = ".bss" /\ MakesRegion(sht[b])
        /\ \A k \in DOMAIN sht : sht[k].alloc =>
              k <= b /\ SectionEnd(sht[k]) <= SectionEnd(sht[b])
        /\ PageUp(SectionEnd(sht[b])) \in Nat \ {0}
        /\ PageUp(SectionEnd(sht[b])) % kPageSize = 0
        /\ SectionEnd(sht[b]) <= PageUp(SectionEnd(sht[b]))
        /\ PageUp(SectionEnd(sht[b])) <= kSlotEndVAddr + 1
  BY BssLast
<1>4. b < i
  BY <1>1
<1>5. next_page_ptr = PageUp(SectionEnd(sht[b]))
  BY <1>2, <1>3, <1>4 DEF ElfInv, BehindBss
<1>6. ASSUME NEW k \in DOMAIN sht, sht[k].alloc
      PROVE  SectionEnd(sht[k]) <= PageUp(SectionEnd(sht[b]))
  <2>1. SectionEnd(sht[k]) \in Nat /\ SectionEnd(sht[b]) \in Nat
    BY SectionType
  <2>2. SectionEnd(sht[k]) <= SectionEnd(sht[b])
    BY <1>3, <1>6
  <2>. QED
    BY <2>1, <2>2, <1>3
<1>. QED
  BY <1>2, <1>3, <1>5, <1>6

LEMMA AddUsrInv ==
    ASSUME ElfInv, AddUsr
    PROVE  ElfInv'
<1>. TypeOK
  BY DEF ElfInv
<1>1. Len(sht) \in Nat \ {0} /\ DOMAIN sht = 1 .. Len(sht) /\ i = Len(sht) + 1
  BY ImageType DEF AddUsr
<1>2. /\ ~Making
      /\ next_page_ptr \in Nat \ {0} /\ next_page_ptr % kPageSize = 0
      /\ next_page_ptr <= kSlotEndVAddr + 1
      /\ \A k \in DOMAIN sht : sht[k].alloc => SectionEnd(sht[k]) <= next_page_ptr
  <2>1. i > Len(sht)
    BY <1>1
  <2>. QED
    BY <2>1, NextPagePtr
<1>3. /\ region_list_' = Append(region_list_, Usr)
      /\ i' = i + 1
      /\ UNCHANGED <<sht, elf_symtab, elf_strtab, next_page_ptr, reg, mapped, fault>>
  BY <1>2 DEF AddUsr
<1>4. /\ ~Making' /\ ~Loaded /\ Loaded' /\ Usr' = Usr
      /\ Regions = region_list_ /\ Regions' = Append(region_list_, Usr)
  BY <1>1, <1>2, <1>3 DEF Making, Loaded, Usr, Regions
<1>5. /\ Usr.start = next_page_ptr /\ Usr.length = kSlotEndVAddr + 1 - next_page_ptr
      /\ Usr.writable = TRUE /\ Usr.data = NoData /\ Usr.name = "usr"
  BY DEF Usr
<1>6. Usr \in Region(RegionNames)
  <2>1. kSlotEndVAddr + 1 - next_page_ptr \in Nat
    BY <1>2, ElfAssumption
  <2>. QED
    BY <2>1, <1>2 DEF Usr, Region, RegionNames, NoData
<1>7. RegionOK(Usr)
  BY <1>2, <1>5 DEF RegionOK
<1>. DEFINE n == Len(region_list_)
<1>8. /\ region_list_ \in Seq(Region(RegionNames))
      /\ n \in Nat /\ DOMAIN region_list_ = 1 .. n
  BY DEF TypeOK
<1>9. /\ DOMAIN Regions' = 1 .. n + 1
      /\ Regions'[n + 1] = Usr
      /\ \A j \in 1 .. n : Regions'[j] = Regions[j] /\ j \in DOMAIN Regions
      /\ DOMAIN Regions = 1 .. n
  BY <1>4, <1>8
<1>10. /\ region_list_' \in Seq(Region(RegionNames))
       /\ region_list_' # <<>> /\ region_list_'[Len(region_list_')] = Usr
  BY <1>3, <1>6, <1>8
<1>. HIDE DEF n
<1>11. TypeOK'
  <2>1. i' \in 1 .. Len(sht) + 2
    BY <1>1, <1>3
  <2>2. RegionNames' = RegionNames
    BY <1>3 DEF RegionNames
  <2>. QED
    BY <2>1, <2>2, <1>3, <1>10 DEF TypeOK
<1>12. RegionsOK'
  <2>. SUFFICES ASSUME NEW j \in 1 .. n + 1
                PROVE  RegionOK(Regions'[j])
    BY <1>9 DEF RegionsOK
  <2>1. CASE j = n + 1
    BY <2>1, <1>7, <1>9
  <2>2. CASE j \in 1 .. n
    BY <2>2, <1>9 DEF ElfInv, RegionsOK
  <2>. QED
    BY <2>1, <2>2, <1>8
<1>13. RegionsInOrder'
  <2>. SUFFICES ASSUME NEW j \in 1 .. n + 1, NEW l \in 1 .. n + 1, j < l
                PROVE  RegionEnd(Regions'[j]) <= Regions'[l].start
    BY <1>9 DEF RegionsInOrder
  <2>1. j \in 1 .. n
    BY <1>8
  <2>2. CASE l = n + 1
    <3>1. PICK k \in DOMAIN sht :
            sht[k].alloc /\ RegionEnd(Regions[j]) = SectionEnd(sht[k])
      BY <2>1, <1>4, <1>9 DEF ElfInv, RegionsEnd
    <3>. QED
      BY <2>1, <2>2, <3>1, <1>2, <1>5, <1>9
  <2>3. CASE l \in 1 .. n
    BY <2>1, <2>3, <1>9 DEF ElfInv, RegionsInOrder
  <2>. QED
    BY <2>2, <2>3, <1>8
<1>14. SectionsHeld'
  <2>. SUFFICES ASSUME NEW k \in DOMAIN sht, sht[k].alloc, sht[k].sh_size > 0
                PROVE  \E j \in 1 .. n + 1 : Holds(Regions'[j], sht[k])
    BY <1>3, <1>9 DEF SectionsHeld
  <2>1. k < i
    BY <1>1
  <2>2. PICK j \in DOMAIN Regions : Holds(Regions[j], sht[k])
    BY <2>1 DEF ElfInv, SectionsHeld
  <2>3. j \in 1 .. n /\ j \in 1 .. n + 1
    BY <1>8, <1>9
  <2>. QED
    BY <2>2, <2>3, <1>9
<1>15. RegionsEnd'
  BY <1>4 DEF RegionsEnd
<1>16. InnerLoop' /\ OuterLoop'
  <2>1. ~(i' <= Len(sht'))
    BY <1>1, <1>3
  <2>. QED
    BY <2>1, <1>4 DEF InnerLoop, OuterLoop
<1>17. BehindBss'
  <2>. SUFFICES ASSUME NEW b \in DOMAIN sht, sht[b].sh_name = ".bss", MakesRegion(sht[b])
                PROVE  next_page_ptr = PageUp(SectionEnd(sht[b]))
    BY <1>3, <1>4 DEF BehindBss
  <2>1. b < i
    BY <1>1
  <2>. QED
    BY <2>1, <1>2 DEF ElfInv, BehindBss
<1>18. UsrLast'
  BY <1>4, <1>10 DEF UsrLast
<1>19. LoadedAsLinked'
  BY <1>3 DEF ElfInv, LoadedAsLinked, Addresses
<1>. QED
  BY <1>3, <1>11, <1>12, <1>13, <1>14, <1>15, <1>16, <1>17, <1>18, <1>19 DEF ElfInv

-----------------------------------------------------------------------------
(* Finding the region of an address                                         *)

LEMMA LoadedRegions ==
    ASSUME ElfInv, Loaded
    PROVE  /\ Regions = region_list_
           /\ Len(region_list_) \in Nat \ {0}
           /\ DOMAIN region_list_ = 1 .. Len(region_list_)
           /\ \A j \in DOMAIN region_list_ :
                 region_list_[j] \in Region(RegionNames) /\ RegionOK(region_list_[j])
           /\ region_list_[Len(region_list_)] = Usr
           /\ next_page_ptr \in Nat \ {0} /\ next_page_ptr % kPageSize = 0
           /\ next_page_ptr <= kSlotEndVAddr + 1
           /\ \A k \in DOMAIN sht : sht[k].alloc => SectionEnd(sht[k]) <= next_page_ptr
<1>. TypeOK
  BY DEF ElfInv
<1>1. i > Len(sht)
  BY ImageType DEF Loaded
<1>2. /\ ~Making
      /\ next_page_ptr \in Nat \ {0} /\ next_page_ptr % kPageSize = 0
      /\ next_page_ptr <= kSlotEndVAddr + 1
      /\ \A k \in DOMAIN sht : sht[k].alloc => SectionEnd(sht[k]) <= next_page_ptr
  BY <1>1, NextPagePtr
<1>3. /\ Regions = region_list_
      /\ DOMAIN region_list_ = 1 .. Len(region_list_)
      /\ \A j \in DOMAIN region_list_ : region_list_[j] \in Region(RegionNames)
  BY <1>2, RegionsType
<1>4. \A j \in DOMAIN region_list_ : RegionOK(region_list_[j])
  BY <1>3 DEF ElfInv, RegionsOK
<1>5. region_list_ # <<>> /\ region_list_[Len(region_list_)] = Usr
  BY DEF ElfInv, UsrLast
<1>6. Len(region_list_) \in Nat \ {0}
  <2>1. region_list_ \in Seq(Region(RegionNames))
    BY DEF TypeOK
  <2>. QED
    BY <2>1, <1>5
<1>. QED
  BY <1>2, <1>3, <1>4, <1>5, <1>6

\* Regions do not overlap.
LEMMA InOneRegion ==
    ASSUME ElfInv, Loaded, NEW a \in Nat,
           NEW j \in DOMAIN region_list_, AddrIsInRegion(region_list_[j], a)
    PROVE  RegionsOf(a) = {j} /\ GetRegionOfAddr(a) = region_list_[j]
<1>1. /\ Regions = region_list_
      /\ DOMAIN region_list_ = 1 .. Len(region_list_) /\ Len(region_list_) \in Nat
      /\ \A k \in DOMAIN region_list_ : region_list_[k] \in Region(RegionNames)
  BY LoadedRegions
<1>2. ASSUME NEW k \in DOMAIN region_list_, NEW l \in DOMAIN region_list_, k < l,
             AddrIsInRegion(region_list_[k], a), AddrIsInRegion(region_list_[l], a)
      PROVE  FALSE
  <2>1. RegionEnd(region_list_[k]) <= region_list_[l].start
    BY <1>1, <1>2 DEF ElfInv, RegionsInOrder
  <2>2. RegionEnd(region_list_[k]) \in Nat /\ region_list_[l].start \in Nat
    BY <1>1, RegionType
  <2>3. a < RegionEnd(region_list_[k]) /\ region_list_[l].start <= a
    BY <1>2 DEF AddrIsInRegion, RegionEnd
  <2>. QED
    BY <2>1, <2>2, <2>3
<1>3. ASSUME NEW k \in DOMAIN region_list_, AddrIsInRegion(region_list_[k], a)
      PROVE  k = j
  <2>1. k \in Nat /\ j \in Nat
    BY <1>1
  <2>2. ~(k < j) /\ ~(j < k)
    BY <1>2, <1>3
  <2>. QED
    BY <2>1, <2>2
<1>4. RegionsOf(a) = {j}
  BY <1>3 DEF RegionsOf
<1>5. (CHOOSE k \in {j} : \A m \in {j} : k <= m) = j
  <2>1. j <= j
    BY <1>1
  <2>. QED
    BY <2>1
<1>. QED
  BY <1>4, <1>5 DEF GetRegionOfAddr

\* A page with an address of a region is in the region.
LEMMA PageInRegion ==
    ASSUME ElfInv, Loaded, NEW a \in Nat, NEW p \in Nat, p % kPageSize = 0,
           p <= a, a < p + kPageSize,
           NEW j \in DOMAIN region_list_, AddrIsInRegion(region_list_[j], a)
    PROVE  AddrIsInRegion(region_list_[j], p) /\ region_list_[j].start <= p
<1>. DEFINE r == region_list_[j]
<1>1. r \in Region(RegionNames) /\ r.start % kPageSize = 0
  BY LoadedRegions DEF RegionOK
<1>2. r.start \in Nat /\ r.length \in Nat
  BY <1>1, RegionType
<1>3. r.start <= a /\ a < r.start + r.length
  BY DEF AddrIsInRegion
<1>. HIDE DEF r
<1>4. r.start <= p
  <2>1. r.start < p + kPageSize
    BY <1>2, <1>3, PageSizeType
  <2>. QED
    BY <2>1, <1>1, <1>2, AlignedGap
<1>5. p < r.start + r.length
  BY <1>2, <1>3
<1>. QED
  BY <1>4, <1>5 DEF AddrIsInRegion, r

\* Each address of a loaded section is in a region that holds the section.
LEMMA SectionInRegion ==
    ASSUME ElfInv, Loaded, NEW k \in DOMAIN sht, sht[k].alloc, NEW a \in Addresses(sht[k])
    PROVE  /\ a \in Nat
           /\ \E j \in DOMAIN region_list_ :
                 AddrIsInRegion(region_list_[j], a) /\ Holds(region_list_[j], sht[k])
<1>. TypeOK
  BY DEF ElfInv
<1>1. /\ sht[k].sh_addr \in Nat /\ sht[k].sh_size \in Nat
      /\ SectionEnd(sht[k]) = sht[k].sh_addr + sht[k].sh_size
  BY SectionType DEF SectionEnd
<1>2. /\ a \in Nat /\ sht[k].sh_addr <= a /\ a < SectionEnd(sht[k])
      /\ sht[k].sh_size > 0
  BY <1>1 DEF Addresses
<1>3. k < i
  BY ImageType DEF Loaded
<1>4. PICK j \in DOMAIN region_list_ : Holds(region_list_[j], sht[k])
  BY <1>2, <1>3, LoadedRegions DEF ElfInv, SectionsHeld
<1>5. AddrIsInRegion(region_list_[j], a)
  <2>1. region_list_[j] \in Region(RegionNames)
    BY LoadedRegions
  <2>2. /\ region_list_[j].start \in Nat
        /\ RegionEnd(region_list_[j]) \in Nat
        /\ RegionEnd(region_list_[j]) = region_list_[j].start + region_list_[j].length
    BY <2>1, RegionType DEF RegionEnd
  <2>3. region_list_[j].start <= sht[k].sh_addr
    BY <1>4 DEF Holds, Agrees
  <2>4. SectionEnd(sht[k]) <= RegionEnd(region_list_[j])
    BY <1>4 DEF Holds
  <2>. QED
    BY <1>1, <1>2, <2>2, <2>3, <2>4 DEF AddrIsInRegion
<1>. QED
  BY <1>2, <1>4, <1>5

\* Behind .bss is the region "usr".
LEMMA UsrRegion ==
    ASSUME ElfInv, Loaded, NEW a \in next_page_ptr .. kSlotEndVAddr
    PROVE  AddrIsInRegion(region_list_[Len(region_list_)], a)
<1>1. next_page_ptr \in Nat /\ kSlotEndVAddr \in Nat
  BY LoadedRegions, ElfAssumption
<1>2. Usr.start = next_page_ptr /\ Usr.length = kSlotEndVAddr + 1 - next_page_ptr
  BY DEF Usr
<1>3. AddrIsInRegion(Usr, a)
  BY <1>1, <1>2 DEF AddrIsInRegion
<1>. QED
  BY <1>3, LoadedRegions

-----------------------------------------------------------------------------
(* Page faults                                                              *)

\* What the page of region r at p contains after its first fault.
PageOf(r, p) == IF r.data = NoData THEN Cleared ELSE FromFile(r.data + (p - r.start))

\* The fault finds a page, and no assertion fails.
LEMMA BackingPage ==
    ASSUME ElfInv, Loaded, NEW p \in Pages, NEW j \in DOMAIN region_list_,
           AddrIsInRegion(region_list_[j], p), GetBackingPage(p)
    PROVE  /\ mapped' = [mapped EXCEPT ![p] = PageOf(region_list_[j], p)]
           /\ fault' = "none"
           /\ PageOf(region_list_[j], p) \in Seq(Nat)
<1>. DEFINE r == region_list_[j]
            src == r.data + (p - r.start)
<1>1. p \in Nat /\ p % kPageSize = 0
  BY ElfAssumption DEF Pages
<1>2. r \in Region(RegionNames) /\ RegionOK(r)
  BY LoadedRegions
<1>3. GetRegionOfAddr(p) = r
  BY <1>1, InOneRegion
<1>4. /\ r.start \in Nat /\ r.start <= p
      /\ r.data # NoData => r.data \in Nat
      /\ GetOffset(r, p) = p - r.start
  <2>1. r.start \in Nat /\ (r.data # NoData => r.data \in Nat)
    BY <1>2, RegionType
  <2>. QED
    BY <2>1 DEF AddrIsInRegion, GetOffset
<1>5. fault = "none"
  BY DEF ElfInv
<1>6. PageOf(r, p) = IF r.data = NoData THEN Cleared ELSE FromFile(src)
  BY DEF PageOf
<1>7. PageOf(r, p) \in Seq(Nat)
  <2>1. Cleared \in Seq(Nat)
    BY PageSizeType DEF Cleared
  <2>2. ASSUME NEW o \in Nat PROVE FromFile(o) \in Seq(Nat)
    <3>1. \A k \in 1 .. kPageSize : o + k - 1 \in Nat
      BY PageSizeType
    <3>. QED
      BY <3>1, PageSizeType DEF FromFile
  <2>3. r.data # NoData => src \in Nat
    BY <1>1, <1>4
  <2>. HIDE DEF src
  <2>. QED
    BY <2>1, <2>2, <2>3, <1>6
<1>. HIDE DEF r
<1>8. CASE ~r.writable
  <2>1. /\ r.name \in {".text", ".rodata"}
        /\ r.data # NoData /\ r.data % kPageSize = 0 /\ r.start % kPageSize = 0
    BY <1>2, <1>8 DEF RegionOK
  <2>2. src % kPageSize = 0
    BY <2>1, <1>1, <1>4, AlignedSum
  <2>3. mapped' = [mapped EXCEPT ![p] = FromFile(src)] /\ UNCHANGED fault
    BY <2>1, <2>2, <1>3, <1>4, <1>8 DEF GetBackingPage
  <2>. QED
    BY <2>1, <2>3, <1>5, <1>6, <1>7 DEF r
<1>9. CASE r.writable /\ r.data # NoData
  <2>1. mapped' = [mapped EXCEPT ![p] = FromFile(src)] /\ UNCHANGED fault
    BY <1>3, <1>4, <1>9 DEF GetBackingPage
  <2>. QED
    BY <2>1, <1>5, <1>6, <1>7, <1>9 DEF r
<1>10. CASE r.writable /\ r.data = NoData
  <2>1. r.name \in {".bss", "usr"}
    BY <1>2, <1>10 DEF RegionOK
  <2>2. mapped' = [mapped EXCEPT ![p] = Cleared] /\ UNCHANGED fault
    BY <2>1, <1>3, <1>10 DEF GetBackingPage
  <2>. QED
    BY <2>2, <1>5, <1>6, <1>7, <1>10 DEF r
<1>. QED
  BY <1>8, <1>9, <1>10

\* The byte of a page at an address.
LEMMA PageOfByte ==
    ASSUME NEW r \in Region(RegionNames), NEW p \in Nat, r.start <= p,
           NEW a \in p .. p + kPageSize - 1
    PROVE  PageOf(r, p)[a - p + 1] = IF r.data = NoData THEN 0 ELSE r.data + (a - r.start)
<1>1. a \in Nat /\ a - p + 1 \in 1 .. kPageSize
  BY PageSizeType
<1>2. r.start \in Nat /\ r.data \in Int
  BY RegionType
<1>3. Cleared[a - p + 1] = 0
  BY <1>1 DEF Cleared
<1>4. ASSUME NEW o \in Int
      PROVE  FromFile(o)[a - p + 1] = o + (a - p)
  <2>1. FromFile(o)[a - p + 1] = o + (a - p + 1) - 1
    BY <1>1 DEF FromFile
  <2>. QED
    BY <2>1, <1>1
<1>5. FromFile(r.data + (p - r.start))[a - p + 1] = r.data + (a - r.start)
  <2>1. r.data + (p - r.start) \in Int
    BY <1>2
  <2>2. FromFile(r.data + (p - r.start))[a - p + 1] = (r.data + (p - r.start)) + (a - p)
    BY <2>1, <1>4
  <2>. QED
    BY <2>2, <1>1, <1>2
<1>. QED
  BY <1>3, <1>5 DEF PageOf

\* The page of a region contains what was linked to its addresses.
LEMMA PageOfLinked ==
    ASSUME ElfInv, Loaded, NEW p \in Pages, NEW j \in DOMAIN region_list_,
           AddrIsInRegion(region_list_[j], p), NEW a \in p .. p + kPageSize - 1
    PROVE  LET byte == PageOf(region_list_[j], p)[a - p + 1] IN
           /\ \A k \in DOMAIN sht : sht[k].alloc /\ a \in Addresses(sht[k]) =>
                 byte = IF sht[k].sh_type = "NOBITS" THEN 0
                        ELSE sht[k].sh_offset + (a - sht[k].sh_addr)
           /\ a >= next_page_ptr => byte = 0
<1>. TypeOK
  BY DEF ElfInv
<1>. DEFINE r == region_list_[j]
<1>1. /\ p \in Nat /\ p % kPageSize = 0 /\ p <= kSlotEndVAddr
      /\ a \in Nat /\ p <= a /\ a < p + kPageSize
  BY ElfAssumption DEF Pages
<1>2. r \in Region(RegionNames) /\ r.start <= p /\ r.start \in Nat
  BY LoadedRegions, RegionType DEF AddrIsInRegion
<1>3. PageOf(r, p)[a - p + 1] = IF r.data = NoData THEN 0 ELSE r.data + (a - r.start)
  BY <1>1, <1>2, PageOfByte
<1>4. ASSUME NEW l \in DOMAIN region_list_, AddrIsInRegion(region_list_[l], a)
      PROVE  region_list_[l] = r
  <2>1. AddrIsInRegion(region_list_[l], p)
    BY <1>1, <1>4, PageInRegion
  <2>2. GetRegionOfAddr(p) = region_list_[l]
    BY <2>1, <1>1, InOneRegion
  <2>3. GetRegionOfAddr(p) = region_list_[j]
    BY <1>1, InOneRegion
  <2>. QED
    BY <2>2, <2>3
<1>5. ASSUME NEW k \in DOMAIN sht, sht[k].alloc, a \in Addresses(sht[k])
      PROVE  PageOf(r, p)[a - p + 1] =
                IF sht[k].sh_type = "NOBITS" THEN 0
                ELSE sht[k].sh_offset + (a - sht[k].sh_addr)
  <2>1. PICK l \in DOMAIN region_list_ :
          AddrIsInRegion(region_list_[l], a) /\ Holds(region_list_[l], sht[k])
    BY <1>5, SectionInRegion
  <2>2. Agrees(r, sht[k])
    BY <2>1, <1>4 DEF Holds
  <2>3. CASE sht[k].sh_type = "NOBITS"
    BY <2>2, <2>3, <1>3 DEF Agrees
  <2>4. CASE sht[k].sh_type # "NOBITS"
    <3>1. r.data # NoData /\ r.data - r.start = sht[k].sh_offset - sht[k].sh_addr
      BY <2>2, <2>4 DEF Agrees
    <3>2. /\ r.data \in Nat /\ r.start \in Nat
          /\ sht[k].sh_offset \in Nat /\ sht[k].sh_addr \in Nat
      BY <3>1, <1>2, RegionType, SectionType
    <3>3. r.data + (a - r.start) = sht[k].sh_offset + (a - sht[k].sh_addr)
      BY <3>1, <3>2, <1>1
    <3>. QED
      BY <3>1, <3>3, <2>4, <1>3
  <2>. QED
    BY <2>3, <2>4
<1>6. ASSUME a >= next_page_ptr
      PROVE  PageOf(r, p)[a - p + 1] = 0
  <2>1. next_page_ptr \in Nat /\ next_page_ptr % kPageSize = 0
    BY LoadedRegions
  <2>2. next_page_ptr < p + kPageSize
    BY <2>1, <1>1, <1>6, PageSizeType
  <2>3. next_page_ptr <= p
    BY <2>1, <2>2, <1>1, AlignedGap
  <2>4. p \in next_page_ptr .. kSlotEndVAddr
    BY <2>1, <2>3, <1>1, ElfAssumption
  <2>5. /\ Len(region_list_) \in DOMAIN region_list_
        /\ region_list_[Len(region_list_)] = Usr
        /\ AddrIsInRegion(region_list_[Len(region_list_)], p)
    BY <2>4, LoadedRegions, UsrRegion
  <2>6. GetRegionOfAddr(p) = Usr /\ GetRegionOfAddr(p) = r
    BY <2>5, <1>1, InOneRegion
  <2>7. Usr.data = NoData
    BY DEF Usr
  <2>. QED
    BY <2>6, <2>7, <1>3
<1>. QED
  BY <1>5, <1>6

LEMMA PageFaultInv ==
    ASSUME ElfInv, NEW a \in kSlotStartVAddr .. kSlotEndVAddr, PageFault(a)
    PROVE  ElfInv'
<1>. TypeOK
  BY DEF ElfInv
<1>. DEFINE p == PageDown(a)
<1>1. /\ Loaded /\ Uses(a)
      /\ UNCHANGED <<sht, i, elf_symtab, elf_strtab, next_page_ptr, reg, region_list_>>
  BY DEF PageFault
<1>2. /\ a \in Nat /\ kSlotStartVAddr \in Nat /\ kSlotEndVAddr \in Nat
      /\ kSlotStartVAddr % kPageSize = 0
      /\ kSlotStartVAddr <= a /\ a <= kSlotEndVAddr
  BY ElfAssumption
<1>3. p \in Nat /\ p % kPageSize = 0 /\ p <= a /\ a < p + kPageSize
  BY <1>2, PageDownProperties
<1>4. p \in Pages
  <2>1. kSlotStartVAddr <= p
    BY <1>2, PageDownGreatest
  <2>. QED
    BY <2>1, <1>2, <1>3 DEF Pages
<1>5. \E j \in DOMAIN region_list_ : AddrIsInRegion(region_list_[j], a)
  <2>1. CASE a >= next_page_ptr
    <3>1. a \in next_page_ptr .. kSlotEndVAddr
      BY <2>1, <1>1, <1>2, LoadedRegions
    <3>. QED
      BY <3>1, <1>1, LoadedRegions, UsrRegion
  <2>2. ASSUME NEW k \in DOMAIN sht, sht[k].alloc,
               sht[k].sh_addr <= a, a < SectionEnd(sht[k])
        PROVE  \E j \in DOMAIN region_list_ : AddrIsInRegion(region_list_[j], a)
    <3>1. sht[k].sh_addr \in Nat /\ SectionEnd(sht[k]) \in Nat
      BY SectionType
    <3>2. a \in Addresses(sht[k])
      BY <3>1, <2>2, <1>2 DEF Addresses
    <3>. QED
      BY <3>2, <2>2, <1>1, SectionInRegion
  <2>. QED
    BY <2>1, <2>2, <1>1 DEF Uses
<1>. HIDE DEF p
<1>6. PICK j \in DOMAIN region_list_ : AddrIsInRegion(region_list_[j], p)
  BY <1>1, <1>2, <1>3, <1>5, PageInRegion
<1>7. RegionsOf(p) # {}
  BY <1>6 DEF RegionsOf
<1>8. GetBackingPage(p)
  BY <1>7 DEF PageFault, p
<1>9. /\ mapped' = [mapped EXCEPT ![p] = PageOf(region_list_[j], p)]
      /\ fault' = "none"
      /\ PageOf(region_list_[j], p) \in Seq(Nat)
  BY <1>1, <1>4, <1>6, <1>8, BackingPage
<1>10. mapped \in [Pages -> Seq(Nat)]
  BY DEF TypeOK
<1>11. TypeOK'
  <2>1. mapped' \in [Pages -> Seq(Nat)]
    BY <1>4, <1>9, <1>10
  <2>2. RegionNames' = RegionNames
    BY <1>1 DEF RegionNames
  <2>. QED
    BY <2>1, <2>2, <1>1, <1>9 DEF TypeOK
<1>12. Regions' = Regions /\ Making' = Making /\ Loaded' /\ Usr' = Usr
  BY <1>1 DEF Regions, Making, Loaded, Usr
<1>13. RegionsOK' /\ RegionsInOrder' /\ SectionsHeld' /\ RegionsEnd'
  BY <1>1, <1>12 DEF ElfInv, RegionsOK, RegionsInOrder, SectionsHeld, RegionsEnd
<1>14. InnerLoop' /\ OuterLoop' /\ BehindBss'
  BY <1>1, <1>12 DEF ElfInv, InnerLoop, OuterLoop, BehindBss
<1>15. UsrLast'
  BY <1>1, <1>12 DEF ElfInv, UsrLast
<1>16. LoadedAsLinked'
  <2>. DEFINE Linked(q, page) ==
                \A b \in q .. q + kPageSize - 1 :
                    LET byte == page[b - q + 1] IN
                    /\ \A k \in DOMAIN sht : sht[k].alloc /\ b \in Addresses(sht[k]) =>
                          byte = IF sht[k].sh_type = "NOBITS" THEN 0
                                 ELSE sht[k].sh_offset + (b - sht[k].sh_addr)
                    /\ b >= next_page_ptr => byte = 0
  <2>1. Linked(p, PageOf(region_list_[j], p))
    BY <1>1, <1>4, <1>6, PageOfLinked
  <2>2. \A q \in Pages : mapped[q] # <<>> => Linked(q, mapped[q])
    BY DEF ElfInv, LoadedAsLinked
  <2>3. \A q \in Pages : mapped'[q] = IF q = p THEN PageOf(region_list_[j], p) ELSE mapped[q]
    BY <1>9, <1>10
  <2>. HIDE DEF Linked
  <2>4. \A q \in Pages : mapped'[q] # <<>> => Linked(q, mapped'[q])
    BY <2>1, <2>2, <2>3
  <2>. USE DEF Linked
  <2>. QED
    BY <2>4, <1>1 DEF LoadedAsLinked, Addresses
<1>. QED
  BY <1>9, <1>11, <1>13, <1>14, <1>15, <1>16 DEF ElfInv

-----------------------------------------------------------------------------
(* The specification                                                        *)

LEMMA InitInv == Init => ElfInv
<1>. SUFFICES ASSUME Init PROVE ElfInv
  OBVIOUS
<1>1. /\ sht \in Images /\ i = 1 /\ reg = NoRegion /\ region_list_ = <<>>
      /\ mapped = [q \in Pages |-> <<>>] /\ fault = "none"
      /\ next_page_ptr = 0 /\ elf_symtab = 0 /\ elf_strtab = 0
  BY DEF Init
<1>2. Len(sht) \in Nat \ {0} /\ DOMAIN sht = 1 .. Len(sht) /\ LaidOut(sht)
  <2>1. sht \in Seq(Shdr(Names)) /\ sht # <<>> /\ LaidOut(sht)
    BY <1>1, ElfAssumption DEF Names
  <2>. QED
    BY <2>1
<1>3. TypeOK
  <2>1. NoRegion \in Region(RegionNames)
    BY DEF NoRegion, Region, RegionNames, NoData
  <2>2. i \in 1 .. Len(sht) + 2 /\ 0 \in 0 .. Len(sht)
    BY <1>1, <1>2
  <2>3. <<>> \in Seq(Region(RegionNames)) /\ <<>> \in Seq(Nat)
    OBVIOUS
  <2>. QED
    BY <2>1, <2>2, <2>3, <1>1 DEF TypeOK
<1>4. ~Making /\ ~Loaded /\ Regions = <<>> /\ DOMAIN Regions = {}
  <2>1. NoRegion.length = 0
    BY DEF NoRegion
  <2>2. ~Making
    BY <2>1, <1>1 DEF Making
  <2>. QED
    BY <2>2, <1>1, <1>2 DEF Loaded, Regions
<1>5. \A k \in DOMAIN sht : ~(k < i)
  BY <1>1, <1>2
<1>6. RegionsOK /\ RegionsInOrder /\ SectionsHeld /\ RegionsEnd
  BY <1>4, <1>5 DEF RegionsOK, RegionsInOrder, SectionsHeld, RegionsEnd
<1>7. OuterLoop
  <2>1. 1 \in DOMAIN sht /\ ~(1 > 1)
    BY <1>2
  <2>. QED
    BY <2>1, <1>1, <1>2 DEF OuterLoop, LaidOut
<1>8. InnerLoop /\ BehindBss
  BY <1>4, <1>5 DEF InnerLoop, BehindBss
<1>9. UsrLast /\ LoadedAsLinked
  BY <1>1, <1>4 DEF UsrLast, LoadedAsLinked
<1>. QED
  BY <1>1, <1>3, <1>6, <1>7, <1>8, <1>9 DEF ElfInv

LEMMA StepInv == ElfInv /\ [Next]_vars => ElfInv'
<1>. SUFFICES ASSUME ElfInv, [Next]_vars PROVE ElfInv'
  OBVIOUS
<1>1. CASE SkipSection
  BY <1>1, SkipSectionInv
<1>2. CASE SymbolSection
  BY <1>2, SymbolSectionInv
<1>3. CASE NewRegion
  BY <1>3, NewRegionInv
<1>4. CASE IncludeSection
  BY <1>4, IncludeSectionInv
<1>5. CASE AddRegion
  BY <1>5, AddRegionInv
<1>6. CASE AddUsr
  BY <1>6, AddUsrInv
<1>7. ASSUME NEW a \in kSlotStartVAddr .. kSlotEndVAddr, PageFault(a)
      PROVE  ElfInv'
  BY <1>7, PageFaultInv
<1>8. CASE UNCHANGED vars
  <2>1. /\ UNCHANGED <<sht, i, elf_symtab, elf_strtab, next_page_ptr, reg, region_list_,
                       mapped, fault>>
        /\ Regions' = Regions /\ Making' = Making /\ Loaded' = Loaded /\ Usr' = Usr
        /\ RegionNames' = RegionNames
    BY <1>8 DEF vars, Regions, Making, Loaded, Usr, RegionNames
  <2>2. TypeOK'
    BY <2>1 DEF ElfInv, TypeOK
  <2>3. RegionsOK' /\ RegionsInOrder' /\ SectionsHeld' /\ RegionsEnd'
    BY <2>1 DEF ElfInv, RegionsOK, RegionsInOrder, SectionsHeld, RegionsEnd
  <2>4. InnerLoop' /\ OuterLoop' /\ BehindBss' /\ UsrLast'
    BY <2>1 DEF ElfInv, InnerLoop, OuterLoop, BehindBss, UsrLast
  <2>5. LoadedAsLinked'
    BY <2>1 DEF ElfInv, LoadedAsLinked, Addresses
  <2>. QED
    BY <2>1, <2>2, <2>3, <2>4, <2>5 DEF ElfInv
<1>. QED
  BY <1>1, <1>2, <1>3, <1>4, <1>5, <1>6, <1>7, <1>8 DEF Next

\* What the section loop has made of the sections it has seen: regions in order, at pages,
\* which hold the sections, and end where one ends.  (createSVFromElf)
THEOREM ElfInvariance == Spec => []ElfInv
  BY InitInv, StepInv, PTL DEF Spec

LEMMA InvMatches == ElfInv => RegionsMatchSections
<1>. SUFFICES ASSUME ElfInv PROVE RegionsMatchSections
  OBVIOUS
<1>1. TypeOK /\ fault = "none"
  BY DEF ElfInv
<1>2. ASSUME Loaded, NEW k \in DOMAIN sht, sht[k].alloc, NEW a \in Addresses(sht[k])
      PROVE  /\ Cardinality(RegionsOf(a)) = 1
             /\ GetRegionOfAddr(a).writable = sht[k].write
             /\ a < next_page_ptr
  <2>1. a \in Nat
    BY <1>2, SectionInRegion
  <2>2. PICK j \in DOMAIN region_list_ :
          AddrIsInRegion(region_list_[j], a) /\ Holds(region_list_[j], sht[k])
    BY <1>2, SectionInRegion
  <2>3. RegionsOf(a) = {j} /\ GetRegionOfAddr(a) = region_list_[j]
    BY <2>1, <2>2, <1>2, InOneRegion
  <2>4. Cardinality(RegionsOf(a)) = 1
    BY <2>3, FS_Singleton
  <2>5. region_list_[j].writable = sht[k].write
    BY <2>2 DEF Holds, Agrees
  <2>6. a < next_page_ptr
    <3>1. next_page_ptr \in Nat /\ SectionEnd(sht[k]) <= next_page_ptr
      BY <1>2, LoadedRegions
    <3>2. SectionEnd(sht[k]) \in Nat /\ sht[k].sh_addr \in Nat
      BY <1>1, SectionType
    <3>3. a < SectionEnd(sht[k])
      BY <3>2 DEF Addresses
    <3>. QED
      BY <3>1, <3>2, <3>3, <2>1
  <2>. QED
    BY <2>3, <2>4, <2>5, <2>6
<1>3. ASSUME Loaded, NEW a \in next_page_ptr .. kSlotEndVAddr
      PROVE  Cardinality(RegionsOf(a)) = 1 /\ GetRegionOfAddr(a).name = "usr"
  <2>1. a \in Nat /\ Len(region_list_) \in DOMAIN region_list_
    BY <1>3, LoadedRegions, ElfAssumption
  <2>2. RegionsOf(a) = {Len(region_list_)} /\ GetRegionOfAddr(a) = Usr
    BY <2>1, <1>3, UsrRegion, InOneRegion, LoadedRegions
  <2>3. Usr.name = "usr"
    BY DEF Usr
  <2>. QED
    BY <2>2, <2>3, FS_Singleton
<1>. QED
  BY <1>1, <1>2, <1>3 DEF RegionsMatchSections

\* Each address of a loaded section is in exactly one region, with the section's
\* permission, and what is behind .bss is in "usr"; no assertion fails and no region
\* surprises a fault.  (createSVFromElf, GetRegionOfAddr, GetBackingPage)
THEOREM SectionsBecomeRegions == Spec => []RegionsMatchSections
  BY ElfInvariance, InvMatches, PTL

LEMMA InvLinked == ElfInv => LoadedAsLinked
  BY DEF ElfInv

\* The first fault on a page loads what was linked to all addresses of the page, and zeros
\* behind .bss.  (GetBackingPage)
THEOREM PagesAreAsLinked == Spec => []LoadedAsLinked
  BY ElfInvariance, InvLinked, PTL

=============================================================================
