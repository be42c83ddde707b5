------------------------------- MODULE MCUmElf -------------------------------
(***************************************************************************)
(* Images as the linker lays them out, with pages of 4 bytes: .text and    *)
(* .rodata, up to two special sections behind .rodata, .data, perhaps a    *)
(* special section behind it, .bss, and sections that are not loaded.      *)
(***************************************************************************)
EXTENDS UmElfInv, SequencesExt

MCSpecial == {".gcc_a", "link_set_b", "link_set_c"}

Aligned(a, n) == n * ((a + n - 1) \div n)
EndOf(s) == Last(s).sh_addr + Last(s).sh_size

\* Section n of the given size behind those of s; shift is how much further in the file
\* than in memory it is.
Linked(s, n, type, write, size, align, shift) ==
    Append(s, [sh_name |-> n, sh_type |-> type, alloc |-> TRUE, write |-> write,
               sh_addr |-> Aligned(EndOf(s), align),
               sh_offset |-> Aligned(EndOf(s), align) + shift, sh_size |-> size])
NotLoaded(s, n, type, size) ==
    Append(s, [sh_name |-> n, sh_type |-> type, alloc |-> FALSE, write |-> FALSE,
               sh_addr |-> 0, sh_offset |-> 60, sh_size |-> size])

Null == <<[sh_name |-> "", sh_type |-> "NULL", alloc |-> FALSE, write |-> FALSE,
           sh_addr |-> 4, sh_offset |-> 0, sh_size |-> 0]>>

Text == Linked(Null, ".text", "PROGBITS", FALSE, 4, 4, 0)
ReadOnly == {Linked(Text, ".rodata", "PROGBITS", FALSE, n, 4, 0) : n \in {2, 5}}
WithGcc == ReadOnly \cup
    {Linked(s, ".gcc_a", "PROGBITS", FALSE, n, al, 0) :
        s \in ReadOnly, n \in {0, 3}, al \in {1, 4}}
WithSet == WithGcc \cup
    {Linked(s, "link_set_b", "PROGBITS", FALSE, 1, al, 0) : s \in WithGcc, al \in {1, 4}}
Data == {Linked(s, ".data", "PROGBITS", TRUE, n, 4, shift) :
            s \in WithSet, n \in {2, 4}, shift \in {0, 4}}
WithDataSet == Data \cup
    {Linked(s, "link_set_c", "PROGBITS", TRUE, 1, 2, Last(s).sh_offset - Last(s).sh_addr) :
        s \in Data}
Bss == {Linked(s, ".bss", "NOBITS", TRUE, n, 4, 0) : s \in WithDataSet, n \in {1, 4}}
MCImages ==
    {NotLoaded(NotLoaded(NotLoaded(s, ".comment", "PROGBITS", 2),
                         ".symtab", "SYMTAB", 2), ".strtab", "STRTAB", 2) : s \in Bss}
==============================================================================
