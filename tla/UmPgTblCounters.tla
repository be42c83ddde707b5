-------------------------- MODULE UmPgTblCounters --------------------------
(***************************************************************************)
(* The counters of UmPgTblMgr.cc over the tables of UmPgTbl: one family    *)
(* walks all entries recursively and counts by level, the other is written *)
(* with the traversal of accessed entries.                                 *)
(***************************************************************************)
EXTENDS UmPgTbl, Sequences, SequencesExt

Indices == [i \in 1 .. Fanout |-> i - 1]

isLeaf(pte, lvl) == lvl = TBL_LEVEL

\* Faulty variant of Counted: entries that point to tables count as pages.
CountedAnywhere(what, pte, lvl) ==
    CASE what = "dirty" -> pte.dirty [] what = "writable" -> pte.rw [] OTHER -> TRUE

\* Does a counter of the kind what count an entry that exists?
Counted(what, pte, lvl) ==
    \/ what = "ptes"
    \/ /\ isLeaf(pte, lvl)
       /\ CASE what = "valid" -> TRUE
            [] what = "accessed" -> pte.acc
            [] what = "dirty" -> pte.dirty
            [] what = "writable" -> pte.rw

\* The counts by level of the counters that walk all entries, added to counts:
\* countDirtyPagesHelper and those for accessed and valid pages and for entries.
RECURSIVE countHelper(_, _, _, _, _)
countHelper(h, counts, tab, lvl, what) ==
    FoldLeft(LAMBDA c, i :
                LET pte == h.tables[tab][i]
                    now == IF Counted(what, pte, lvl) THEN [c EXCEPT ![lvl] = @ + 1] ELSE c
                IN IF ~exists(pte) THEN c
                   ELSE IF isLeaf(pte, lvl) THEN now
                   ELSE countHelper(h, now, nextTableOrFrame(pte), lvl - 1, what),
             counts, Indices)

count(h, tab, what) == countHelper(h, <<0, 0, 0>>, tab, PDPT_LEVEL, what)

\* The pages that the counters over accessed entries count: countDirtyPagesLamb and
\* those for accessed and writable pages.
countLamb(h, tab, what) ==
    Cardinality({l \in traversePageTable(h, tab, TRUE) : Counted(what, l[2], TBL_LEVEL)})

\* The tables of o.
TablesOf(o) == {TableOf(o, s) : s \in Spots} \ {Null}

\* The two families of counters, written independently, agree on every table: what one
\* counts over all entries the other counts over accessed ones, all of it pages of the
\* lowest level; and all entries above that level are one less than the tables.
CountersAgree ==
    \A o \in Live :
        LET tab == RootOf(o)
            ptes == count(heap, tab, "ptes")
        IN /\ \A what \in {"valid", "accessed", "dirty"} :
                 count(heap, tab, what) = <<countLamb(heap, tab, what), 0, 0>>
           /\ ptes[1] = countLamb(heap, tab, "valid")
           /\ 1 + ptes[2] + ptes[3] = Cardinality(TablesOf(o))

=============================================================================
