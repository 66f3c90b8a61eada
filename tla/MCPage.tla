------------------------------- MODULE MCPage -------------------------------
(* The CT-e page, whose user resets a company while the preview of the     *)
(* reset is on its way and another company may be chosen.                  *)
EXTENDS DocumentPage

MCSessions == {[source |-> "cte", uses |-> {"sync"}, loads |-> 0, busy |-> 2]}
=============================================================================
