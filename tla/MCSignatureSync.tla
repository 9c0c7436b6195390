-------------------------- MODULE MCSignatureSync --------------------------
(***************************************************************************)
(* Values of the constants of SignatureSync for TLC.                       *)
(***************************************************************************)
EXTENDS SignatureSync

\* A negative number of hours, none, and one.
FewHours == {-1, 0, 1}

\* A negative limit, none, less than a page, more than a page.
FewLimits == {-1, 0, 1, 3}
=============================================================================
