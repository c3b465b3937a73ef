---------------------------- MODULE MCNameStore ----------------------------
(* An import, and beside it a second command that installs, removes or      *)
(* looks up a name, and a third that looks up or removes one. Bundles as    *)
(* `murl export` makes them, and each kind of bundle that is not one.       *)
EXTENDS NameStore, TLC

CONSTANTS p1, p2, p3, x, y, d, e, f, g, h

Name(path, version) == [path |-> path, version |-> version]
MCNames == {Name(x, Latest), Name(x, 1), Name(x, 2), Name(y, Latest)}

Murl(authority, path, version) ==
    [authority |-> authority, path |-> path, version |-> version]

Doc(text, valid, id) == [text |-> text, valid |-> valid, id |-> id]
Plain == Doc(d, TRUE, None)
Other == Doc(e, TRUE, None)
OfX1 == Doc(f, TRUE, Murl("local", x, 1))
OfVendor == Doc(g, TRUE, Murl("vendor", x, Latest))
Broken == Doc(h, FALSE, None)
MCDocuments == {Plain, Other, OfX1, OfVendor, Broken}

Node(identity, doc) == [identity |-> identity, doc |-> doc]

Whole ==
    {Exported(<<Node(Murl("vendor", x, Latest), Plain), Node(Murl("vendor", y, Latest), Other)>>),
     Exported(<<Node(Murl("local", x, 1), OfX1)>>),
     Exported(<<Node(None, Plain), Node(Murl("vendor", y, Latest), Other)>>),
     Exported(<<Node(Murl("vendor", x, Latest), OfVendor)>>),
     Exported(<<Node(Murl("vendor", x, 2), Plain), Node(Murl("local", x, 2), Other)>>)}

Spoilt ==
    LET two == Exported(<<Node(Murl("vendor", x, Latest), Plain),
                          Node(Murl("vendor", y, Latest), Other)>>)
    IN  {[two EXCEPT !.known = FALSE],
         [two EXCEPT !.entries = <<>>],
         [two EXCEPT !.entries = @ \o Exported(<<Node(Murl("local", x, 1), OfX1)>>).entries],
         [two EXCEPT !.root = Murl("vendor", x, 1)],
         [two EXCEPT !.entries[2].intact = FALSE],
         [two EXCEPT !.entries[2].canonical = FALSE],
         [two EXCEPT !.entries[2].doc = Broken],
         [two EXCEPT !.entries[2].identity = two.root]}

Job(do, name, doc, bundle, force) ==
    [do |-> do, name |-> name, doc |-> doc, bundle |-> bundle, force |-> force]
Import(bundle, as, force) == Job("import", as, None, bundle, force)
Add(name, doc) == Job("add", name, doc, None, FALSE)

MCJobs ==
    p1 :> {Import(bundle, as, force) : bundle \in Whole,
              as \in {None, Name(x, Latest), Name(x, 2)}, force \in BOOLEAN}
          \cup {Import(bundle, None, TRUE) : bundle \in Spoilt}
    @@ p2 :> {Import(Exported(<<Node(Murl("local", y, Latest), Plain)>>), None, FALSE),
              Add(Name(x, Latest), Other), Add(Name(x, 1), OfX1), Add(Name(x, 2), OfX1)}
    @@ p3 :> {Job("remove", Name(x, Latest), None, None, FALSE),
              Job("look", Name(x, Latest), None, None, FALSE),
              Job("look", Name(x, 2), None, None, FALSE)}

MCStarts ==
    {[n \in MCNames |-> None],
     [n \in MCNames |-> IF n = Name(x, Latest) THEN Plain ELSE None],
     [n \in MCNames |-> IF n = Name(y, Latest) THEN Torn ELSE None]}
=============================================================================
