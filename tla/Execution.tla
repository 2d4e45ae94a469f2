----------------------------- MODULE Execution -----------------------------
(***************************************************************************)
(* What a program computes, as a term over its parameters and constants:   *)
(* the reference that inlining is measured against.  The record s is that  *)
(* of Inlining.  A conditional jump goes the way that choice, a function   *)
(* of the jumps, says; fuel bounds the blocks and calls entered.           *)
(***************************************************************************)
EXTENDS BlockList

Running   == <<"running">>
Undefined == <<"undefined">>
TooLong   == <<"too long">>

ValueOf(env, i) == IF i \in DOMAIN env THEN env[i] ELSE Undefined

\* A phi takes the input that comes from the block executed before.
PhiValue(s, env, i, before) ==
  LET hits == SelectSeq([k \in DOMAIN s.in[i] |-> k], LAMBDA k : s.from[i][k] = before)
  IN  IF hits = <<>> THEN Undefined ELSE ValueOf(env, s.in[i][hits[1]])

RECURSIVE Run(_, _, _, _, _, _)

\* What a call computes: the parameters are the first instructions of the callee.
CallValue(s, i, env, choice, fuel) ==
  LET entry  == s.entry[s.callee[i]]
      params == ListOf(s, entry)
      bound  == [p \in {params[k] : k \in DOMAIN s.in[i]} |->
                   ValueOf(env, s.in[i][CHOOSE k \in DOMAIN s.in[i] : params[k] = p])]
  IN  IF s.lists[s.callee[i]] = <<>> THEN Undefined
      ELSE Run(s, entry, Null, bound, choice, fuel - 1)

Execute(s, r, i, before, choice, fuel) ==
  LET in(k)  == ValueOf(r.env, s.in[i][k])
      set(v) == [r EXCEPT !.env = (i :> v) @@ @]
      end(v) == [r EXCEPT !.out = v]
      called == CallValue(s, i, r.env, choice, fuel)
  IN  IF r.out # Running THEN r
      ELSE CASE s.op[i] = "CONSTANT"    -> set(<<"constant", i>>)
             [] s.op[i] = "PARAMETER"   -> IF i \in DOMAIN r.env THEN r ELSE set(<<"parameter", i>>)
             [] s.op[i] = "PHI"         -> set(PhiValue(s, r.env, i, before))
             [] s.op[i] = "RET"         -> end(in(1))
             [] s.op[i] = "RET_VOID"    -> end(<<"void">>)
             [] s.op[i] = "THROW"       -> end(<<"throw">>)
             [] s.op[i] = "CALL_STATIC" -> IF called \in {<<"throw">>, TooLong} THEN end(called)
                                           ELSE set(called)
             [] s.op[i] = "JMP_EQ"      -> r
             [] OTHER -> set(<<s.op[i]>> \o [k \in DOMAIN s.in[i] |-> in(k)])

\* The outcome of the run from block b, entered from the block before.
Run(s, b, before, env, choice, fuel) ==
  LET list == ListOf(s, b)
      r    == FoldLeft(LAMBDA t, i : Execute(s, t, i, before, choice, fuel),
                       [env |-> env, out |-> Running], list)
      n    == Len(s.succs[b])
  IN  IF fuel = 0 THEN TooLong
      ELSE IF r.out # Running THEN r.out
      ELSE IF n = 0 THEN Undefined
      ELSE Run(s, s.succs[b][IF n = 1 THEN 1 ELSE choice[Last(list)]], b, r.env, choice, fuel - 1)
=============================================================================
