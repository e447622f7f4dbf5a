-------------------------- MODULE MCSequentialParts --------------------------
(* A retry every five seconds, of five that count, attempts that take two, three
   outages and two requests; three contracts, five intervals and three chart
   bounds; a view of one or two lines over lists shorter and longer than it; two
   popups; three orders, of which two have a callback and two are to be cancelled;
   three keys and values; queries of less than a page, of two whole ones and of two
   or three that are not; two tasks of any type over two and a half days of two
   milliseconds, with one delay beyond what the small floats count to and an epoch
   further away than any delay. *)
EXTENDS SequentialParts
=============================================================================
