--------------------------- MODULE MCBatchMigration ---------------------------
(* A small instance of BatchMigration: two resources share a source name, and *)
(* an edit adds or removes the third.                                         *)
EXTENDS BatchMigration

MCNames == {"a", "b"}
MCSourceName == <<"a", "a", "b">>
MCSpecs == {{1, 2}, {2, 3}}
MCFirstSpecs == {{1, 2}}
=============================================================================
