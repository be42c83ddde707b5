-------------------------------- MODULE UmElf --------------------------------
(***************************************************************************)
(* Loading an ELF image: the section loop of createSVFromElf (UmLoader.cc) *)
(* turns section headers into the regions of an address space (UmSV,       *)
(* UmRegion), and the first fault on a page asks the regions what the page *)
(* contains (UmManager, UmInstance::GetBackingPage).                       *)
(*                                                                         *)
(* Addresses and file offsets are numbers.  Byte o of the file is the      *)
(* number o, never 0 in what is loaded; memory that is cleared is 0.       *)
(***************************************************************************)
EXTENDS Integers, Sequences, FiniteSets

CONSTANTS
    Images,         \* section header tables considered
    Special,        \* section names that begin with "link_set" or ".gcc_"
    kPageSize,
    kSlotStartVAddr,
    kSlotEndVAddr,  \* the last address of the slot
    MaxFaults       \* bound on the page faults of a run

Pages == {a \in kSlotStartVAddr .. kSlotEndVAddr : a % kPageSize = 0}

\* Section headers.  Names are unique in an image; the last section, a string or
\* symbol table, is not loaded (else the loop reads a header behind the last).
Shdr(names) ==
    [sh_name: names, sh_type: {"NULL", "PROGBITS", "NOBITS", "SYMTAB", "STRTAB"},
     alloc: BOOLEAN, write: BOOLEAN, sh_addr: Nat, sh_offset: Nat, sh_size: Nat]

PageDown(a) == a - (a % kPageSize)
PageUp(a) == PageDown(a + kPageSize - 1)

SectionEnd(sh) == sh.sh_addr + sh.sh_size
IsSpecial(sh) == sh.sh_name \in Special
MakesRegion(sh) == sh.alloc /\ sh.sh_size > 0 /\ ~IsSpecial(sh)

\* A special section continues the section in front of it.
Continues(sh, prev) ==
    /\ sh.alloc /\ prev.alloc
    /\ IsSpecial(prev) \/ prev.sh_size > 0
    /\ sh.write = prev.write
    /\ sh.sh_type = prev.sh_type
    /\ sh.sh_offset - sh.sh_addr = prev.sh_offset - prev.sh_addr

\* The images linker scripts make, as far as the loader relies on it: sections in the
\* order of their addresses, the others at pages; what is read-only is .text or .rodata,
\* and at a page in the file; .bss, the one section without contents, is the last loaded
\* one and leaves room behind it.
LaidOut(s) ==
    /\ \A k, l \in DOMAIN s :
          k < l /\ s[k].alloc /\ s[l].alloc => SectionEnd(s[k]) <= s[l].sh_addr
    /\ \A k \in DOMAIN s : IsSpecial(s[k]) => k > 1 /\ Continues(s[k], s[k - 1])
    /\ \A k \in DOMAIN s : MakesRegion(s[k]) =>
          /\ s[k].sh_addr % kPageSize = 0
          /\ s[k].sh_type = (IF s[k].sh_name = ".bss" THEN "NOBITS" ELSE "PROGBITS")
          /\ ~s[k].write => /\ s[k].sh_name \in {".text", ".rodata"}
                            /\ s[k].sh_offset % kPageSize = 0
    /\ \E b \in DOMAIN s :
          /\ s[b].sh_name = ".bss" /\ MakesRegion(s[b]) /\ s[b].write
          /\ \A k \in b + 1 .. Len(s) : ~s[k].alloc
          /\ PageUp(SectionEnd(s[b])) <= kSlotEndVAddr + 1

ASSUME ElfAssumption ==
    /\ kPageSize \in Nat \ {0}
    /\ kSlotStartVAddr \in Nat \ {0}
    /\ kSlotStartVAddr % kPageSize = 0
    /\ kSlotEndVAddr \in Nat
    /\ (kSlotEndVAddr + 1) % kPageSize = 0
    /\ MaxFaults \in Nat
    /\ \A sht \in Images :
          /\ sht \in Seq(Shdr({sht[k].sh_name : k \in DOMAIN sht}))
          /\ \A k, l \in DOMAIN sht : sht[k].sh_name = sht[l].sh_name => k = l
          /\ sht # <<>> /\ ~sht[Len(sht)].alloc
          /\ LaidOut(sht)

VARIABLES
    sht,            \* the image
    i,              \* the loop's index
    elf_symtab,     \* the section the symbol lookup uses, 0 if none yet
    elf_strtab,
    next_page_ptr,
    reg,            \* the region under construction
    region_list_,   \* UmSV
    mapped,         \* contents of the pages that faulted in, 0 for the others
    fault

vars ==
    <<sht, i, elf_symtab, elf_strtab, next_page_ptr, reg, region_list_, mapped, fault>>

NoData == 0 - 1     \* nullptr
Region(names) ==
    [name: names, start: Nat, length: Nat, writable: BOOLEAN, data: Nat \cup {NoData}]

RegionNames == {"", "usr"} \cup {sht[k].sh_name : k \in DOMAIN sht}

NoRegion == [name |-> "", start |-> 0, length |-> 0, writable |-> FALSE, data |-> NoData]

\* The loop is in its inner loop, looking for special sections behind a region's first.
Making == reg.length > 0

Loaded == i > Len(sht) + 1

TypeOK ==
    /\ sht \in Images
    /\ i \in 1 .. Len(sht) + 2
    /\ elf_symtab \in 0 .. Len(sht)
    /\ elf_strtab \in 0 .. Len(sht)
    /\ next_page_ptr \in Nat
    /\ reg \in Region(RegionNames)
    /\ region_list_ \in Seq(Region(RegionNames))
    /\ mapped \in [Pages -> Seq(Nat)]
    /\ fault \in {"none", "section_not_aligned", "no_bss", "no_region",
                  "surprised", "page_not_aligned", "no_source"}

Init ==
    /\ sht \in Images
    /\ i = 1
    /\ elf_symtab = 0
    /\ elf_strtab = 0
    /\ next_page_ptr = 0
    /\ reg = NoRegion
    /\ region_list_ = <<>>
    /\ mapped = [p \in Pages |-> <<>>]
    /\ fault = "none"

Abort(why) ==
    /\ fault' = why
    /\ UNCHANGED <<sht, i, elf_symtab, elf_strtab, next_page_ptr, reg, region_list_, mapped>>

-----------------------------------------------------------------------------
(* The section loop                                                         *)

IsSymtab(sh) == sh.sh_type = "SYMTAB" /\ sh.sh_name = ".symtab"
IsStrtab(sh) == sh.sh_type = "STRTAB" /\ sh.sh_name = ".strtab"

SkipSection ==
    /\ i <= Len(sht) /\ ~Making
    /\ \/ sht[i].sh_size = 0
       \/ ~sht[i].alloc /\ ~IsSymtab(sht[i]) /\ ~IsStrtab(sht[i])
    /\ i' = i + 1
    /\ UNCHANGED <<sht, elf_symtab, elf_strtab, next_page_ptr, reg, region_list_,
                   mapped, fault>>

SymbolSection ==
    /\ i <= Len(sht) /\ ~Making
    /\ sht[i].sh_size > 0
    /\ \/ IsSymtab(sht[i]) /\ elf_symtab' = i /\ UNCHANGED elf_strtab
       \/ IsStrtab(sht[i]) /\ elf_strtab' = i /\ UNCHANGED elf_symtab
    /\ i' = i + 1
    /\ UNCHANGED <<sht, next_page_ptr, reg, region_list_, mapped, fault>>

\* A section that is loaded begins a region.
First(sh) ==
    [name |-> sh.sh_name, start |-> sh.sh_addr, length |-> sh.sh_size,
     writable |-> sh.write,
     data |-> IF sh.sh_type = "NOBITS" THEN NoData ELSE sh.sh_offset]

NewRegion ==
    /\ i <= Len(sht) /\ ~Making
    /\ sht[i].sh_size > 0 /\ ~IsSymtab(sht[i]) /\ ~IsStrtab(sht[i])
    /\ sht[i].alloc
    /\ IF sht[i].sh_addr % kPageSize # 0
       THEN Abort("section_not_aligned")
       ELSE /\ reg' = First(sht[i])
            /\ i' = i + 1
            /\ UNCHANGED <<sht, elf_symtab, elf_strtab, next_page_ptr, region_list_,
                           mapped, fault>>

\* Faulty variant of Merge: without the space for alignment.
MergeUnpadded(r, sh) == [r EXCEPT !.length = r.length + sh.sh_size]

\* A special section is included in the region.
Merge(r, sh) ==
    LET padded == IF r.start + r.length < sh.sh_addr THEN sh.sh_addr - r.start ELSE r.length
    IN  [r EXCEPT !.length = padded + sh.sh_size]

IncludeSection ==
    /\ i <= Len(sht) /\ Making
    /\ IsSpecial(sht[i])
    /\ reg' = Merge(reg, sht[i])
    /\ i' = i + 1
    /\ UNCHANGED <<sht, elf_symtab, elf_strtab, next_page_ptr, region_list_, mapped, fault>>

\* Another section ends the region: the outer loop goes on with it.
AddRegion ==
    /\ i <= Len(sht) /\ Making
    /\ ~IsSpecial(sht[i])
    /\ next_page_ptr' = IF reg.name = ".bss" THEN PageUp(reg.start + reg.length)
                                             ELSE next_page_ptr
    /\ region_list_' = Append(region_list_, reg)
    /\ reg' = NoRegion
    /\ UNCHANGED <<sht, i, elf_symtab, elf_strtab, mapped, fault>>

\* "Dedicate all remaining memory": the region "usr", behind .bss.
Usr == [name |-> "usr", start |-> next_page_ptr,
        length |-> kSlotEndVAddr + 1 - next_page_ptr, writable |-> TRUE, data |-> NoData]

AddUsr ==
    /\ i = Len(sht) + 1
    /\ IF next_page_ptr = 0
       THEN Abort("no_bss")
       ELSE /\ region_list_' = Append(region_list_, Usr)
            /\ i' = i + 1
            /\ UNCHANGED <<sht, elf_symtab, elf_strtab, next_page_ptr, reg, mapped, fault>>

-----------------------------------------------------------------------------
(* Page faults                                                              *)

valid_address(a) == a >= kSlotStartVAddr /\ a < kSlotEndVAddr

\* Faulty variant of AddrIsInRegion: the end counts.
AddrIsInRegionOrEnd(r, a) == a >= r.start /\ a <= r.start + r.length

AddrIsInRegion(r, a) == a >= r.start /\ a < r.start + r.length

GetOffset(r, a) == IF AddrIsInRegion(r, a) THEN a - r.start ELSE 0

\* GetRegionOfAddr: the regions that have address a; the first one is taken.
RegionsOf(a) == {k \in DOMAIN region_list_ : AddrIsInRegion(region_list_[k], a)}
GetRegionOfAddr(a) ==
    region_list_[CHOOSE k \in RegionsOf(a) : \A j \in RegionsOf(a) : k <= j]

FromFile(o) == [k \in 1 .. kPageSize |-> o + k - 1]
Cleared == [k \in 1 .. kPageSize |-> 0]

\* The first fault on a page: mapped from the file, copied from the file, or cleared.
GetBackingPage(p) ==
    LET r   == GetRegionOfAddr(p)
        src == r.data + GetOffset(r, p)
        Map(page) == mapped' = [mapped EXCEPT ![p] = page] /\ UNCHANGED fault
        Stop(why) == fault' = why /\ UNCHANGED mapped
    IN  CASE ~r.writable /\ r.name \notin {".text", ".rodata"} -> Stop("surprised")
          [] ~r.writable /\ r.name \in {".text", ".rodata"} ->
                IF src % kPageSize # 0 THEN Stop("page_not_aligned") ELSE Map(FromFile(src))
          [] r.writable /\ r.data # NoData -> Map(FromFile(src))
          [] r.writable /\ r.data = NoData /\ r.name \in {".bss", "usr"} -> Map(Cleared)
          [] OTHER -> Stop("no_source")

\* The addresses a guest uses: those of its sections, and what lies behind them.
Uses(a) ==
    \/ \E k \in DOMAIN sht :
          /\ sht[k].alloc
          /\ sht[k].sh_addr <= a /\ a < SectionEnd(sht[k])
    \/ a >= next_page_ptr

PageFault(a) ==
    LET p == PageDown(a) IN
    /\ Loaded
    /\ Uses(a)
    /\ valid_address(a)
    /\ mapped[p] = <<>>
    /\ Cardinality({q \in Pages : mapped[q] # <<>>}) < MaxFaults
    /\ IF RegionsOf(p) = {}
       THEN fault' = "no_region" /\ UNCHANGED mapped
       ELSE GetBackingPage(p)
    /\ UNCHANGED <<sht, i, elf_symtab, elf_strtab, next_page_ptr, reg, region_list_>>

-----------------------------------------------------------------------------
Next ==
    /\ fault = "none"
    /\ \/ SkipSection
       \/ SymbolSection
       \/ NewRegion
       \/ IncludeSection
       \/ AddRegion
       \/ AddUsr
       \/ \E a \in kSlotStartVAddr .. kSlotEndVAddr : PageFault(a)

Spec == Init /\ [][Next]_vars

-----------------------------------------------------------------------------
(* Properties *)

Addresses(sh) == sh.sh_addr .. SectionEnd(sh) - 1

\* However sections are laid out, each address of a loaded section ends up in exactly
\* one region, with the section's permission; the rest of the slot, from the page after the
\* last section on, is one writable region.  So every fault finds what it needs: no
\* assertion fails and no region surprises.  (createSVFromElf, GetRegionOfAddr)
RegionsMatchSections ==
    /\ TypeOK
    /\ fault = "none"
    /\ Loaded =>
          /\ \A k \in DOMAIN sht : sht[k].alloc =>
                \A a \in Addresses(sht[k]) :
                    /\ Cardinality(RegionsOf(a)) = 1
                    /\ GetRegionOfAddr(a).writable = sht[k].write
                    /\ a < next_page_ptr
          /\ \A a \in next_page_ptr .. kSlotEndVAddr :
                Cardinality(RegionsOf(a)) = 1 /\ GetRegionOfAddr(a).name = "usr"

\* What a page contains after its first fault is what the linker put there: also where
\* several sections share a page, or a region ends at one; and memory that is in no
\* file is zero.  (GetBackingPage)
LoadedAsLinked ==
    \A p \in Pages : mapped[p] # <<>> =>
        \A a \in p .. p + kPageSize - 1 :
            LET byte == mapped[p][a - p + 1] IN
            /\ \A k \in DOMAIN sht : sht[k].alloc /\ a \in Addresses(sht[k]) =>
                  byte = IF sht[k].sh_type = "NOBITS" THEN 0
                         ELSE sht[k].sh_offset + (a - sht[k].sh_addr)
            /\ a >= next_page_ptr => byte = 0

=============================================================================
