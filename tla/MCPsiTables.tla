---------------------------- MODULE MCPsiTables ----------------------------
(***************************************************************************)
(* PsiTables with one channel: a TDT at every poll, the channel's EITs     *)
(* and, on the TDT's PID, a TOT at every other; psibuf has room for the    *)
(* tables of one poll.                                                     *)
(***************************************************************************)
EXTENDS PsiTables, TLC

CONSTANTS n1, n2

OneChannel == {1}
Sizes == "pat" :> 0 @@ "nit" :> 0 @@ "sdt" :> 0 @@ "tdt" :> 1 @@ "tot" :> 2
Timeouts == "pat" :> 1 @@ "nit" :> 1 @@ "sdt" :> 1 @@ "tdt" :> 1 @@ "tot" :> 2 @@ "eit" :> 2

Says(a, b) == [c \in OneChannel |-> [now |-> a, next |-> b]]

NextOfOne == {<<1, "next">>}

\* An EPG, its successor, and a file that says nothing of the channel.
Files == {Says(n1, n2), Says(n1, NoEntry)}
=============================================================================
