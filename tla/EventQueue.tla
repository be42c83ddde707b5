----------------------------- MODULE EventQueue -----------------------------
(***************************************************************************)
(* What the invariants say of the events spawned and not yet run.          *)
(***************************************************************************)

\* Event t is among ts; it is there at most once.
Has(ts, t) == \E i \in DOMAIN ts : ts[i] = t
AtMostOnce(ts, t) == \A i, j \in DOMAIN ts : ts[i] = t /\ ts[j] = t => i = j

=============================================================================
