---------------------------- MODULE MCEventStorage ----------------------------
(* Instances of EventStorage for TLC: the pages a source may show.         *)
EXTENDS EventStorage, TLC

Observed(i, u, n, b) == [id |-> i, content |-> [url |-> u, name |-> n, body |-> b]]

\* One company whose entry is edited, loses and regains its URL; the parser id
\* follows the edits.
Edited  == Observed("i2", "u1", "n1", "b2")
Listed  == Observed("i1", "u1", "n1", "b1")
Unnamed == Observed("i3", Unknown, "n1", "b1")

\* Another company of the same name, and an entry with no identity at all.
Namesake  == Observed("i4", "u2", "n1", "b1")
Anonymous == Observed("i1", Unknown, Unknown, "b2")

\* The first entry under another URL: an id that does not depend on the URL.
Relisted == Observed("i1", "u2", "n1", "b1")

\* Another company, with another name.
Other == Observed("i4", "u2", "n2", "b1")

NothingStored == {}
StoredOnce    == {Unnamed}
StoredTwice   == {Listed, Edited}

OneCompany  == {{Listed}, {Edited}, {Unnamed}}
\* The instances of two observations in the README; no run uses them.
Flipping    == {{Listed}, {Edited}}
Promotion   == {{Unnamed}, {Edited}}

ManyEntries == {{Edited, Namesake}, {Unnamed}, {Anonymous}, {Relisted}}

Symmetry == Permutations(Crawlers)
=============================================================================
