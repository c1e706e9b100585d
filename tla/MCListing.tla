----------------------------- MODULE MCListing -----------------------------
(* An instance of Listing for TLC. *)
EXTENDS Listing

One      == {1}
AllLists == {"jobs", "pending", "documents"}

(* Lists show states and documents only, and neither waits for the order   *)
(* or the age of the due jobs: while a client walks, states that differ in *)
(* these alone are one.  Waits are judged while no client walks.           *)
Seen == IF walk.pc = "off" THEN lvars ELSE <<state, live, walk>>
=============================================================================
