------------------------------ MODULE UmElfInv ------------------------------
(***************************************************************************)
(* The inductive invariant of UmElf: what the regions made so far have to  *)
(* do with the sections the loop has seen.                                 *)
(***************************************************************************)
EXTENDS UmElf

\* The regions, with the one under construction.
Regions == IF Making THEN Append(region_list_, reg) ELSE region_list_

RegionEnd(r) == r.start + r.length

RegionOK(r) ==
    /\ r.start % kPageSize = 0
    /\ ~r.writable => /\ r.name \in {".text", ".rodata"}
                      /\ r.data # NoData /\ r.data % kPageSize = 0
    /\ r.data = NoData => r.name \in {".bss", "usr"}

\* The region gives the addresses of the section its permission and its contents.
Agrees(r, sh) ==
    /\ r.writable = sh.write
    /\ r.start <= sh.sh_addr
    /\ IF sh.sh_type = "NOBITS" THEN r.data = NoData
       ELSE r.data # NoData /\ r.data - r.start = sh.sh_offset - sh.sh_addr

Holds(r, sh) == Agrees(r, sh) /\ SectionEnd(sh) <= RegionEnd(r)

RegionsOK == \A j \in DOMAIN Regions : RegionOK(Regions[j])

RegionsInOrder ==
    \A j, l \in DOMAIN Regions : j < l => RegionEnd(Regions[j]) <= Regions[l].start

\* What is loaded and behind the loop is in a region.
SectionsHeld ==
    \A k \in DOMAIN sht : k < i /\ sht[k].alloc /\ sht[k].sh_size > 0 =>
        \E j \in DOMAIN Regions : Holds(Regions[j], sht[k])

\* While the loop runs, a region ends where a section does that the loop has seen.
RegionsEnd ==
    ~Loaded => \A j \in DOMAIN Regions :
        \E k \in DOMAIN sht :
            k < i /\ sht[k].alloc /\ RegionEnd(Regions[j]) = SectionEnd(sht[k])

\* The region under construction goes on as the last section did, and so may the next.
InnerLoop ==
    Making =>
        /\ i > 1 /\ i <= Len(sht)
        /\ sht[i - 1].alloc
        /\ Agrees(reg, sht[i - 1])

\* The outer loop never meets a special section.
OuterLoop == ~Making /\ i <= Len(sht) => ~IsSpecial(sht[i])

BehindBss ==
    \A b \in DOMAIN sht : b < i /\ sht[b].sh_name = ".bss" /\ MakesRegion(sht[b]) =>
        \/ Making /\ reg.name = ".bss" /\ RegionEnd(reg) = SectionEnd(sht[b])
        \/ ~Making /\ next_page_ptr = PageUp(SectionEnd(sht[b]))

UsrLast ==
    IF Loaded THEN region_list_ # <<>> /\ region_list_[Len(region_list_)] = Usr
              ELSE \A p \in Pages : mapped[p] = <<>>

ElfInv ==
    /\ TypeOK
    /\ fault = "none"
    /\ RegionsOK
    /\ RegionsInOrder
    /\ SectionsHeld
    /\ RegionsEnd
    /\ InnerLoop
    /\ OuterLoop
    /\ BehindBss
    /\ UsrLast
    /\ LoadedAsLinked

=============================================================================
