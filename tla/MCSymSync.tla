------------------------------- MODULE MCSymSync -------------------------------
(* A symbol for SymSync whose best offset is in its middle; the error of a     *)
(* phase grows with the distance from there.                                   *)
EXTENDS SymSync

Errors == <<0, 0, 20000, 35000, 40000, 60000, 80000, 90000, 100000>>

Profile ==
    [o \in 0..(NOMINAL - 1) |->
        symbol_ref - Errors[((16 * Abs(o - (NOMINAL \div 2))) \div NOMINAL) + 1]]
MCProfiles == {Profile}
===============================================================================
