-------------------------- MODULE MCReaderQueries --------------------------
(***************************************************************************)
(* ReaderQueries over the files of MCRecordReader.                         *)
(***************************************************************************)
EXTENDS MCRecordReader, ReaderQueries
=============================================================================
