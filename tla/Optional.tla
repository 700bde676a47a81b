------------------------------ MODULE Optional ------------------------------
(* An optional value is None or <<it>>.                                      *)
None == <<>>

Or(a, b) == IF a # None THEN a ELSE b
=============================================================================
