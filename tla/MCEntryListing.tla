---------------------------- MODULE MCEntryListing ----------------------------
(***************************************************************************)
(* A small instance of EntryListing: three entries and room for a fourth,  *)
(* pages of one entry, two hints.                                          *)
(***************************************************************************)
EXTENDS EntryListing

MCStored == <<"e1", "e2", "e3">>

=============================================================================
