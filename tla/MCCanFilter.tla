----------------------------- MODULE MCCanFilter -----------------------------
(* An identifier of two standard bits and one more, and arrays of filters.  *)
EXTENDS CanFilter

Sff == {0, 1}
High == {28}
FlagEFF == 31
FlagRTR == 30
FlagERR == 29

Objects == {"zero", "one", "family", "extended"}
Addresses == [zero |-> {}, one |-> {0}, family |-> {28}, extended |-> {0, 28, 31}]
OnlyExtended == {"extended"}

ANY == [id |-> "zero", mask |-> ALL]
NONE == [id |-> "zero", mask |-> EXACT]
One == [id |-> "one", mask |-> {0, 1}]
Family == [id |-> "family", mask |-> {28}]
Extended == [id |-> "extended", mask |-> {0, 1, 28}]
OneExact == [id |-> "one", mask |-> EXACT]
Five == <<One, Family, Extended, ANY, Family>>

\* Six filters are one more than getFilters reads, seven more than the kernel takes.
Arrays == {<<>>, <<ANY>>, <<NONE>>, <<One>>, <<Family>>, <<Extended, One>>, <<Family, ANY>>,
           <<One, OneExact, NONE>>, <<Extended>> \o Five, <<Extended, One>> \o Five}
AnyOrOne == {<<ANY>>, <<One>>}
OneOfEach == {<<Family, ANY, NONE, OneExact>>}
=============================================================================
