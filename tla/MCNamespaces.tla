---------------------------- MODULE MCNamespaces ----------------------------
(***************************************************************************)
(* Instances of Namespaces for TLC.                                        *)
(***************************************************************************)
EXTENDS Namespaces, MCOperator

Entry(name)  == [name |-> name, padded |-> FALSE]
Padded(name) == [name |-> name, padded |-> TRUE]

\* dev is in namespace "two".
InTwo == [n \in Clusters |-> Entry("two")]

\* "one," and "one, two": a list that ends with a comma, and the namespace of dev with
\* a blank before it.
ListFlags == { <<Entry("one"), Entry("")>>, <<Entry("one"), Padded("two")>> }
=============================================================================
