----------------------------- MODULE MCPageCrawl -----------------------------
(* PageCrawl on a list of a few objects that changes while it is crawled. *)
EXTENDS PageCrawl
=============================================================================
