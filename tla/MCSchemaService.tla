--------------------------- MODULE MCSchemaService ---------------------------
(***************************************************************************)
(* A small instance of SchemaService: two schemas that accept one document *)
(* each, two schema changes and two writes, one fault.                     *)
(***************************************************************************)
EXTENDS SchemaService

CONSTANTS a1, a2, w1, w2, s1, s2, d1, d2

MCAdmins == {a1, a2}
MCWriters == {w1, w2}
MCSchemas == {s1, s2}
MCDocs == {d1, d2}
MCSatisfies == {<<s1, d1>>, <<s2, d2>>}

=============================================================================
