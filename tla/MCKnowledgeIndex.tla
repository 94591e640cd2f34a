------------------------- MODULE MCKnowledgeIndex ---------------------------
(* Instances of KnowledgeIndex for TLC: a handbook of one workspace, and a   *)
(* glossary that lies under the source directories of two.                   *)
EXTENDS KnowledgeIndex

CONSTANTS sales, ops, handbook, glossary,
          users, refunds, registered, ordered, excluded, tested

Title == Line(1, <<users>>)
Blank == Line(0, <<>>)
ByRegistration == Line(0, <<registered, excluded>>)
ByFirstOrder == Line(0, <<ordered, excluded>>)

Counted == Holding(<<Title, ByRegistration>>)
Recounted == Holding(<<Title, ByFirstOrder>>)
Wrapped == Holding(<<Title, Line(0, <<registered>>), Line(0, <<excluded>>)>>)
Moved == Holding(<<Blank, Title, ByRegistration>>)
Sectioned == Holding(<<ByFirstOrder, Title, Line(2, <<refunds>>), ByRegistration>>)

Tests == Holding(<<Line(0, <<users, tested>>)>>)

Handbook == {Counted, Recounted, Wrapped, Moved, Sectioned, Gone, Undecodable}
Editions == (handbook :> Handbook) @@ (glossary :> {Tests, Unreadable})
EditionsInPlace == (handbook :> {Counted, Recounted}) @@ (glossary :> {Tests})

Directories ==
  << [workspace |-> sales, docs |-> {glossary, handbook}],
     [workspace |-> ops, docs |-> {glossary}] >>

Asked == {{registered, users}, {users, tested}}
AskedOnce == {{registered, users}}
=============================================================================
