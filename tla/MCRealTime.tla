------------------------------ MODULE MCRealTime ------------------------------
(* RealTime with the collection of posts, on small numbers of everything. *)
EXTENDS RealTimePosts
================================================================================
