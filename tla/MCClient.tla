------------------------------- MODULE MCClient -------------------------------
(* Retry-After headers around every boundary parseRetryAfter has: negative,  *)
(* zero, at the cap, over it, and large enough for the product to wrap.      *)
EXTENDS Client

Seconds == {-1, 0, 1, 10, 11, 32, 64}
Dates   == {-3, 0, 3, 40, 41}

Headers ==
  {NoHeader}
    \cup [form : {"seconds"}, amount : Seconds]
    \cup [form : {"date"}, amount : Dates]

==============================================================================
