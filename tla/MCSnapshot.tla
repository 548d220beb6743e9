----------------------------- MODULE MCSnapshot -----------------------------
(***************************************************************************)
(* Keyspaces for model checking Snapshot.                                  *)
(***************************************************************************)
EXTENDS Snapshot

Object(type, value, exp) == [type |-> type, value |-> value, expire_at |-> exp]

\* Objects of every type, with deadlines that are no whole milliseconds.
MCObjects ==
    {Object("string", <<Eof, 3>>, NoExpiry), Object("string", << >>, 25),
     Object("hash", (<<1>> :> <<2>>) @@ (<<2>> :> << >>), NoExpiry),
     Object("list", <<<<3>>, <<3>>>>, 7),
     Object("set", {<<1>>, <<ExpireMs>>}, NoExpiry),
     Object("zset", (<<1>> :> 2) @@ (<<2>> :> 1) @@ (<<4>> :> 2), 31)}

\* A key that ends in a zero and one that looks like it when it is cut short; one
\* that is as long as the end marker says.
Long == [i \in 1 .. Base - 1 |-> 5]

MCDatabases ==
    {[k \in K |-> o] : K \in {{<<1>>}, {<<1, 2>>, <<1, 0>>}, {<<1>>, Long}}, o \in MCObjects}
        \cup {(<<1>> :> o) @@ (<<2>> :> p) : o, p \in MCObjects}

LongDatabases == {[k \in {<<1>>, Long} |-> Object("string", <<3>>, NoExpiry)]}
=============================================================================
