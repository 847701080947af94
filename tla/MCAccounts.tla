------------------------------ MODULE MCAccounts ------------------------------
(***************************************************************************)
(* Instances of Accounts for TLC.                                          *)
(***************************************************************************)
EXTENDS Accounts, TLC

\* Browsers differ in nothing but their name.
BrowserSymmetry == Permutations(Browser)
=============================================================================
