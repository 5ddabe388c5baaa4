------------------------- MODULE MCDefectPublication -------------------------
(***************************************************************************)
(* Instances of the defect publication for TLC, and what its contract says *)
(* of a retried receipt that the code does not keep.                       *)
(***************************************************************************)
EXTENDS DefectPublication

\* contracts/defect-publication.v1.md:50-52 says that the receipt can be
\* persisted before the ledger and that a retry is safe.  A retry after a crash
\* carries the acknowledgement of a deduplicated request, its receipt says
\* "deduplicated" where the first said "created", and the store refuses it.
EventuallyPublished == <>(terminals # {})
=============================================================================
