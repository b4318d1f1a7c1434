------------------------------- MODULE Outcome -------------------------------
(***************************************************************************)
(* Sequential code with error returns.  A call is the set of its outcomes, *)
(* pairs <<state, status>>: a command that may fail has several.  The      *)
(* operators below are the ways the drivers put calls together.            *)
(***************************************************************************)

\* return(rc)
Ret(s, rc) == {<<s, rc>>}

\* if (status != EOK) return(status); then F
OnOk(O, F(_)) == UNION {IF o[2] = "EOK" THEN F(o[1]) ELSE {o} : o \in O}

\* the status is not looked at
Anyway(O, F(_)) == UNION {F(o[1]) : o \in O}

\* F takes the state and the status
Look(O, F(_, _)) == UNION {F(o[1], o[2]) : o \in O}

\* on failure G mends the state; the call goes on
Mend(O, G(_)) == {IF o[2] = "EOK" THEN o ELSE <<G(o[1]), "EOK">> : o \in O}

\* the call is made only if p holds
Where(p, s, O) == IF p THEN O ELSE Ret(s, "EOK")

\* the status is replaced by rc, whatever it was
As(O, rc) == {<<o[1], rc>> : o \in O}

\* the status is translated
Status(O, R(_)) == {<<o[1], R(o[2])>> : o \in O}
=============================================================================
